------------------------ MODULE IndexLifecycleProofs ------------------------
(***************************************************************************)
(* Theorems about IndexLifecycle.                                          *)
(***************************************************************************)
EXTENDS IndexLifecycleInvariant, TLAPS

(***************************************************************************)
(* Type correctness, for every value of the constants.                     *)
(***************************************************************************)

\* A step of people or of git keeps the types of the repository.
LEMMA TreeTypeStep == TreeTypeOK /\ TreeNext => TreeTypeOK'
<1> SUFFICES ASSUME TreeTypeOK, TreeNext PROVE TreeTypeOK'
  OBVIOUS
<1> USE WorkingTreeAssumption DEF TreeTypeOK, Trees, Remember
<1>1. ASSUME NEW f \in Files, NEW t \in Texts, Edit(f, t) PROVE TreeTypeOK'
  BY <1>1 DEF Edit
<1>2. ASSUME NEW m \in Manifests, EditManifest(m) PROVE TreeTypeOK'
  BY <1>2 DEF EditManifest
<1>3. ASSUME NEW S \in SUBSET (Files \ Ignored), Commit(S) PROVE TreeTypeOK'
  <2>1. [f \in Files |-> IF f \in S THEN tree[f] ELSE commits[head][f]] \in Trees
    OBVIOUS
  <2>2. commits' \in Seq(Trees) /\ head' \in DOMAIN commits'
    BY <2>1, <1>3 DEF Commit
  <2>3. QED
    BY <2>2, <1>3 DEF Commit
<1>4. ASSUME NEW c \in DOMAIN commits, Checkout(c) PROVE TreeTypeOK'
  <2>1. commits[c] \in Trees
    OBVIOUS
  <2>2. tree' \in Trees
    BY <2>1, <1>4 DEF Checkout
  <2>3. QED
    BY <2>2, <1>4 DEF Checkout
<1>5. QED
  BY <1>1, <1>2, <1>3, <1>4 DEF TreeNext

\* The empty job of an idle process is a job.
LEMMA NoJobType == NoJob \in Jobs
BY WorkingTreeAssumption DEF NoJob, Jobs, States, TakenStates, Revisions, Graph0, Trees

\* The working-tree states and the revision read from git have their types.
LEMMA StateTypes ==
  ASSUME TreeTypeOK
  PROVE  /\ WorktreeState \in States
         /\ ServerState \in States
         /\ CurrentRevision \in Revisions
BY DEF TreeTypeOK, WorktreeState, ServerState, CurrentRevision, WorktreeFingerprint,
       States, TakenStates, Revisions, Trees

\* What a build makes of the texts it read is a graph.
LEMMA BuildGraphType ==
  ASSUME TypeOK, NEW p \in Processes,
         job[p].manifest \in Manifests
  PROVE  BuildGraph(p) \in Graphs /\ RepositoryName(p) \in Names
<1> USE WorkingTreeAssumption, IndexAssumption
<1>1. job[p] \in Jobs
  BY DEF TypeOK
<1>2. RepositoryName(p) \in Names
  BY <1>1 DEF RepositoryName, Jobs
<1>3. job[p].read \in Trees /\ job[p].revision \in Revisions /\ job[p].previous \in Graph0
  BY <1>1 DEF Jobs
<1>4. ASSUME NEW f \in Files PROVE SymbolsOf(p, f) \in Texts
  BY <1>3 DEF SymbolsOf, CanReuse, Records, Graph0, Graphs, Trees
<1>5. QED
  BY <1>2, <1>3, <1>4 DEF BuildGraph, Graphs, Trees

\* The initial state has the types.
LEMMA TypeInit == Init => TypeOK
<1> SUFFICES ASSUME Init PROVE TypeOK
  OBVIOUS
<1> USE WorkingTreeAssumption, IndexAssumption
<1>1. TreeTypeOK
  <2>1. Tracked(tree) \in Trees
    BY DEF Init, TreeInit, Tracked, Trees
  <2>2. ASSUME NEW t \in Trees PROVE <<t>> \in Seq(Trees) /\ 1 \in DOMAIN <<t>>
    OBVIOUS
  <2>3. commits \in Seq(Trees) /\ head \in DOMAIN commits
    BY <2>1, <2>2 DEF Init, TreeInit
  <2>4. tree \in Trees /\ manifest \in Manifests /\ newerManifest \in BOOLEAN
    BY DEF Init, TreeInit
  <2>5. seen \subseteq Files \X Texts /\ seenManifests \subseteq Manifests
    BY <2>4 DEF Init, TreeInit, Trees
  <2>6. QED
    BY <2>3, <2>4, <2>5 DEF TreeTypeOK
<1>2. job \in [Processes -> Jobs]
  BY NoJobType DEF Init
<1>3. served \in [Servers -> [graph : Graph0, state : States]]
  BY DEF Init, Nothing, Graph0, States
<1>4. QED
  BY <1>1, <1>2, <1>3 DEF Init, TypeOK, Graph0, States, ParseKeys, Processes, PastManifest

\* A step of a build, of an index run or of a server keeps the types.
LEMMA TypeBuildStep ==
  ASSUME TypeOK, NEW p \in Processes, BuildStep(p)
  PROVE  TypeOK'
<1> USE WorkingTreeAssumption, IndexAssumption DEF Goto, disk
<1>t. TreeTypeOK /\ job[p] \in Jobs
  BY DEF TypeOK
<1>1. CASE LoadManifest(p)
  <2>1. manifest \in Manifests
    BY <1>t DEF TreeTypeOK
  <2>2. job' \in [Processes -> Jobs]
    BY <2>1, <1>1, <1>t DEF LoadManifest, TypeOK, Jobs
  <2>3. QED
    BY <2>1, <2>2, <1>1 DEF LoadManifest, TypeOK, TreeTypeOK, treeVars, PastManifest
<1>2. CASE ReadRevision(p)
  <2>1. job' \in [Processes -> Jobs]
    BY <1>2, <1>t, StateTypes DEF ReadRevision, TypeOK, Jobs
  <2>2. QED
    BY <2>1, <1>2 DEF ReadRevision, TypeOK, TreeTypeOK, treeVars, PastManifest
<1>3. CASE LoadPrevious(p)
  <2>1. job' \in [Processes -> Jobs]
    BY <1>3, <1>t DEF LoadPrevious, TypeOK, Jobs
  <2>2. QED
    BY <2>1, <1>3 DEF LoadPrevious, TypeOK, TreeTypeOK, treeVars, PastManifest
<1>4. ASSUME NEW f \in Files, ReadFile(p, f) PROVE TypeOK'
  <2>1. Visible(f, tree[f], job[p].manifest) \in Texts
    BY <1>t DEF Visible, TreeTypeOK, Trees
  <2>2. job' \in [Processes -> Jobs]
    BY <2>1, <1>4, <1>t DEF ReadFile, TypeOK, Jobs, Trees
  <2>3. QED
    BY <2>2, <1>4 DEF ReadFile, TypeOK, TreeTypeOK, treeVars, PastManifest
<1>5. CASE Parse(p)
  <2>1. job[p].manifest \in Manifests
    BY <1>5 DEF Parse, TypeOK, PastManifest
  <2>2. BuildGraph(p) \in Graphs /\ RepositoryName(p) \in Names
    BY <2>1, BuildGraphType
  <2>3. job' \in [Processes -> Jobs]
    BY <2>2, <1>5, <1>t DEF Parse, TypeOK, Jobs, Graph0
  <2>4. \A f \in Files : CacheKey(p, f) \in ParseKeys
    BY <2>2, <1>t DEF CacheKey, ParseKeys, Jobs, Trees
  <2>5. parsed' \subseteq ParseKeys
    BY <2>4, <1>5 DEF Parse, TypeOK, Changed
  <2>6. QED
    BY <2>1, <2>3, <2>5, <1>5 DEF Parse, TypeOK, TreeTypeOK, treeVars, PastManifest
<1>6. CASE NothingParsed(p)
  <2>1. Back(p) \in {"serving", "off", "idle"}
    BY DEF Back
  <2>2. QED
    BY <2>1, <1>6, NoJobType DEF NothingParsed, TypeOK, TreeTypeOK, treeVars, PastManifest
<1>7. QED
  BY <1>1, <1>2, <1>3, <1>4, <1>5, <1>6 DEF BuildStep

\* A step of `tpt-weave index` keeps the types.
LEMMA TypeIndexerStep ==
  ASSUME TypeOK, NEW i \in Indexers,
         IndexStep(i) \/ \E full \in FullRuns : StartIndex(i, full)
  PROVE  TypeOK'
<1> USE WorkingTreeAssumption, IndexAssumption DEF Goto, disk, Processes, PastManifest
<1>t. TreeTypeOK /\ job[i] \in Jobs
  BY DEF TypeOK
<1>1. CASE BuildStep(i)
  BY <1>1, TypeBuildStep
<1>2. ASSUME NEW full \in FullRuns, StartIndex(i, full) PROVE TypeOK'
  <2>1. job' \in [Processes -> Jobs]
    BY <1>2, <1>t, StateTypes DEF StartIndex, TypeOK, Jobs
  <2>2. QED
    BY <2>1, <1>2 DEF StartIndex, TypeOK, TreeTypeOK, treeVars
<1>3. CASE ReportUpToDate(i)
  BY <1>3, NoJobType DEF ReportUpToDate, TypeOK, TreeTypeOK, treeVars
<1>4. CASE DecideRebuild(i)
  BY <1>4 DEF DecideRebuild, TypeOK, TreeTypeOK, treeVars
<1>5. CASE BeginSaveGraph(i)
  BY <1>5 DEF BeginSaveGraph, TypeOK, TreeTypeOK, Graph0
<1>6. CASE EndSaveGraph(i)
  BY <1>6, <1>t DEF EndSaveGraph, TypeOK, TreeTypeOK, Jobs
<1>7. CASE SaveState(i)
  <2>1. saved' \in States
    BY <1>7, <1>t DEF SaveState, Jobs
  <2>2. QED
    BY <2>1, <1>7, NoJobType DEF SaveState, TypeOK, TreeTypeOK, treeVars
<1>8. QED
  BY <1>1, <1>2, <1>3, <1>4, <1>5, <1>6, <1>7 DEF IndexStep

\* A step of an MCP server keeps the types.
LEMMA TypeServerStep ==
  ASSUME TypeOK, NEW s \in Servers, ServerStep(s) \/ StartServer(s) \/ StopServer(s)
  PROVE  TypeOK'
<1> USE WorkingTreeAssumption, IndexAssumption DEF Goto, disk, Processes, PastManifest
<1>t. TreeTypeOK /\ job[s] \in Jobs
  BY DEF TypeOK
<1>1. CASE BuildStep(s)
  BY <1>1, TypeBuildStep
<1>2. CASE TakeState(s)
  <2>1. job' \in [Processes -> Jobs]
    BY <1>2, <1>t, StateTypes DEF TakeState, TypeOK, Jobs
  <2>2. QED
    BY <2>1, <1>2 DEF TakeState, TypeOK, TreeTypeOK, treeVars
<1>3. CASE Serve(s)
  <2>1. served' \in [Servers -> [graph : Graph0, state : States]]
    BY <1>3, <1>t DEF Serve, TypeOK, Jobs
  <2>2. QED
    BY <2>1, <1>3, NoJobType DEF Serve, TypeOK, TreeTypeOK, treeVars
<1>4. CASE Refresh(s) \/ StartServer(s)
  BY <1>4 DEF Refresh, StartServer, TypeOK, TreeTypeOK, treeVars
<1>5. CASE StopServer(s)
  BY <1>5 DEF StopServer, Nothing, TypeOK, TreeTypeOK, treeVars, Graph0, States
<1>6. QED
  BY <1>1, <1>2, <1>3, <1>4, <1>5 DEF ServerStep

\* Every step keeps the types.
LEMMA TypeStep == TypeOK /\ [Next]_vars => TypeOK'
<1> SUFFICES ASSUME TypeOK, [Next]_vars PROVE TypeOK'
  OBVIOUS
<1> USE IndexAssumption DEF disk, Processes
<1>1. CASE UNCHANGED vars
  BY <1>1 DEF vars, treeVars, TypeOK, TreeTypeOK
<1>2. CASE TreeNext /\ UNCHANGED <<disk, pc, job, served, failures>>
  BY <1>2, TreeTypeStep DEF TypeOK
<1>3. ASSUME NEW i \in Indexers, IndexStep(i) \/ \E full \in FullRuns : StartIndex(i, full)
      PROVE  TypeOK'
  BY <1>3, TypeIndexerStep
<1>4. ASSUME NEW s \in Servers, ServerStep(s) \/ StartServer(s) \/ StopServer(s)
      PROVE  TypeOK'
  BY <1>4, TypeServerStep
<1>5. ASSUME NEW p \in Processes, Fail(p) PROVE TypeOK'
  BY <1>5, NoJobType DEF Fail, Back, TypeOK, TreeTypeOK, treeVars, PastManifest
<1>6. QED
  BY <1>1, <1>2, <1>3, <1>4, <1>5 DEF Next

\* Every reachable state has the declared types, whatever the constants.
THEOREM TypeCorrect == Spec => []TypeOK
BY TypeInit, TypeStep, PTL DEF Spec

(***************************************************************************)
(* "Index up to date" for a lone indexer.  IInv (IndexLifecycleInvariant)  *)
(* is inductive; its step lemmas follow the three groups of Next.          *)
(***************************************************************************)

\* A fresh checkout satisfies the invariant of a lone indexer.
LEMMA LoneInit == ASSUME LoneIndexer, Init PROVE IInv
<1> USE WorkingTreeAssumption, IndexAssumption
<1>1. TypeOK
  BY TypeInit
<1>2. commits = <<tree>>
  <2>1. Tracked(tree) = tree
    BY DEF Tracked, LoneIndexer, Init, TreeInit, Trees
  <2>2. QED
    BY <2>1 DEF Init, TreeInit
<1>3. AllSeen
  <2>1. \A f \in Files : <<f, tree[f]>> \in seen
    BY DEF Init, TreeInit
  <2>2. \A c \in DOMAIN commits, f \in Files : <<f, commits[c][f]>> \in seen
    <3>1. \A t : \A c \in DOMAIN <<t>> : <<t>>[c] = t
      OBVIOUS
    <3>2. QED
      BY <1>2, <2>1, <3>1
  <2>3. head = Len(commits)
    BY <1>2 DEF Init, TreeInit
  <2>4. /\ StateSeen(saved)
        /\ \A w \in Indexers : StateSeen(job[w].state)
        /\ \A p \in Processes, f \in Files : job[p].read[f] = Absent
    BY DEF Init, StateSeen, NoJob, Processes
  <2>5. manifest \in seenManifests /\ parsed = {}
    BY DEF Init, TreeInit
  <2>6. QED
    BY <2>1, <2>2, <2>3, <2>4, <2>5 DEF AllSeen, HistoryComplete
<1>4. ASSUME NEW w \in Indexers
      PROVE  pc[w] = "idle" /\ job[w].unread = Files /\ graph = NoGraph
  BY DEF Init, NoJob, Processes
<1>5. ASSUME NEW w \in Indexers
      PROVE  IndexerInv(w)
  BY <1>4 DEF IndexerInv, JobConsistent, ManifestFollowed, ReadFollowed, MissedIsUncached, CacheAgrees,
       GraphFollowed, Agrees, WasRead, HasState, BeforeReading, HasManifest, HasRevision, Built
<1>6. \A s \in Servers : ServerInv(s)
  BY DEF Init, NoJob, Processes, ServerInv
<1>7. QED
  BY <1>1, <1>3, <1>5, <1>6 DEF IInv

\* Under ~Revisiting a changed text and a changed manifest are new ones, and the
\* commits made so far do not change.
LEMMA TreeFresh ==
  ASSUME ~Revisiting, TypeOK, TreeNext
  PROVE  /\ \A f \in Files : tree'[f] = tree[f] \/ <<f, tree'[f]>> \notin seen
         /\ manifest' = manifest \/ manifest' \notin seenManifests
         /\ \A c \in DOMAIN commits : c \in DOMAIN commits' /\ commits'[c] = commits[c]
         /\ seen \subseteq seen' /\ seenManifests \subseteq seenManifests'
<1> DEFINE Goal ==
      /\ \A f \in Files : tree'[f] = tree[f] \/ <<f, tree'[f]>> \notin seen
      /\ manifest' = manifest \/ manifest' \notin seenManifests
      /\ \A c \in DOMAIN commits : c \in DOMAIN commits' /\ commits'[c] = commits[c]
      /\ seen \subseteq seen' /\ seenManifests \subseteq seenManifests'
<1> USE DEF TypeOK, TreeTypeOK, Trees, Remember
<1>1. ASSUME NEW f \in Files, NEW t \in Texts, Edit(f, t) PROVE Goal
  BY <1>1 DEF Edit
<1>2. ASSUME NEW m \in Manifests, EditManifest(m) PROVE Goal
  BY <1>2 DEF EditManifest
<1>3. ASSUME NEW S \in SUBSET (Files \ Ignored), Commit(S) PROVE Goal
  <2>1. [f \in Files |-> IF f \in S THEN tree[f] ELSE commits[head][f]] \in Trees
    OBVIOUS
  <2>2. \A c \in DOMAIN commits : c \in DOMAIN commits' /\ commits'[c] = commits[c]
    BY <2>1, <1>3 DEF Commit
  <2>3. QED
    BY <2>2, <1>3 DEF Commit
<1>4. ASSUME NEW c \in DOMAIN commits, Checkout(c) PROVE Goal
  BY <1>4 DEF Checkout
<1>5. QED
  BY <1>1, <1>2, <1>3, <1>4 DEF TreeNext

\* An edit, a commit or a manifest change keeps the history complete.
LEMMA HistoryStep ==
  ASSUME ~Revisiting, TypeOK, HistoryComplete, TreeNext
  PROVE  HistoryComplete'
<1> USE DEF TypeOK, TreeTypeOK, Trees, Remember, HistoryComplete
<1>1. ASSUME NEW f \in Files, NEW t \in Texts, Edit(f, t) PROVE HistoryComplete'
  BY <1>1 DEF Edit
<1>2. ASSUME NEW m \in Manifests, EditManifest(m) PROVE HistoryComplete'
  BY <1>2 DEF EditManifest
<1>3. ASSUME NEW S \in SUBSET (Files \ Ignored), Commit(S) PROVE HistoryComplete'
  <2> DEFINE new == [f \in Files |-> IF f \in S THEN tree[f] ELSE commits[head][f]]
  <2>1. new \in Trees /\ \A f \in Files : <<f, new[f]>> \in seen
    OBVIOUS
  <2>2. commits' = Append(commits, new) /\ head' = Len(commits) + 1
        /\ UNCHANGED <<tree, manifest, seen, seenManifests>>
    BY <1>3 DEF Commit
  <2> HIDE DEF new
  <2>3. \A c \in DOMAIN commits', f \in Files : <<f, commits'[c][f]>> \in seen'
    BY <2>1, <2>2
  <2>4. QED
    BY <2>1, <2>2, <2>3
<1>4. ASSUME NEW c \in DOMAIN commits, Checkout(c) PROVE HistoryComplete'
  BY <1>4 DEF Checkout
<1>5. QED
  BY <1>1, <1>2, <1>3, <1>4 DEF TreeNext

\* ... and so does it keep complete what the lone indexer's argument needs.
LEMMA LoneTreeSeen ==
  ASSUME LoneIndexer, TypeOK, AllSeen, TreeNext, UNCHANGED <<disk, pc, job>>
  PROVE  AllSeen'
<1> USE DEF disk, LoneIndexer
<1>1. seen \subseteq seen' /\ seenManifests \subseteq seenManifests'
  BY TreeFresh
<1>2. /\ \A k \in parsed' : <<k[2], k[3]>> \in seen'
      /\ StateSeen(saved)'
      /\ \A w \in Indexers : StateSeen(job[w].state)'
      /\ \A p \in Processes, f \in Files :
           job'[p].read[f] = Absent \/ <<f, job'[p].read[f]>> \in seen'
  BY <1>1 DEF AllSeen, StateSeen
<1>3. HistoryComplete'
  BY HistoryStep DEF AllSeen
<1>4. QED
  BY <1>2, <1>3 DEF AllSeen

\* What moves on from a recorded state and revision moves on to what is new.
LEMMA MovesOn ==
  ASSUME ~Revisiting, TypeOK, HistoryComplete, TreeNext,
         NEW CONSTANT st, StateSeen(st),
         NEW CONSTANT f \in Files, NEW CONSTANT rev \in DOMAIN commits,
         tree'[f] # tree[f] \/ manifest' # manifest \/ MovedOn(f, st, rev)
  PROVE  MovedOn(f, st, rev)'
<1> USE TreeFresh
<1>1. CASE manifest' # manifest
  BY <1>1 DEF MovedOn, StateSeen, HistoryComplete
<1>2. CASE manifest' = manifest /\ tree'[f] # tree[f]
  <2>1. <<f, tree'[f]>> \notin seen /\ <<f, commits[rev][f]>> \in seen
    BY <1>2 DEF HistoryComplete
  <2>2. tree'[f] # commits'[rev][f]
    BY <2>1
  <2>3. st # NoState => \A x \in st.diff : ~(x[1] = f /\ x[3] = tree'[f])
    BY <2>1 DEF StateSeen
  <2> QED
    BY <2>2, <2>3 DEF MovedOn
<1>3. CASE manifest' = manifest /\ tree'[f] = tree[f]
  BY <1>3 DEF MovedOn
<1> QED
  BY <1>1, <1>2, <1>3

\* A step of people or of git keeps the invariant.
LEMMA LoneTreeStep ==
  ASSUME LoneIndexer, IInv, TreeNext, UNCHANGED <<disk, pc, job>>
  PROVE  AllSeen' /\ \A w \in Indexers : IndexerInv(w)'
<1> USE DEF disk
<1>1. AllSeen'
  BY LoneTreeSeen DEF IInv
<1>2. ASSUME NEW w \in Indexers
      PROVE  IndexerInv(w)'
  <2>f. ~Revisiting
    BY DEF LoneIndexer
  <2> USE <2>f, TreeFresh
  <2>0. /\ JobConsistent(w) /\ ManifestFollowed(w) /\ ReadFollowed(w)
        /\ MissedIsUncached(w) /\ CacheAgrees(w) /\ GraphFollowed(w)
        /\ TypeOK /\ AllSeen
    BY DEF IInv, IndexerInv
  <2>1. JobConsistent(w)'
    BY <2>0 DEF JobConsistent
  <2>2. ManifestFollowed(w)'
    BY <2>0, NoStateAssumption
       DEF ManifestFollowed, AllSeen, HistoryComplete, StateSeen, JobConsistent, HasState, HasManifest
  <2>. DEFINE Moves(f, st, rev) ==
         tree'[f] # tree[f] \/ manifest' # manifest \/ MovedOn(f, st, rev)
  <2>a. ASSUME NEW CONSTANT st, StateSeen(st),
               NEW CONSTANT f \in Files, NEW CONSTANT rev \in DOMAIN commits,
               Moves(f, st, rev)
        PROVE  MovedOn(f, st, rev)'
    BY <2>0, <2>a, MovesOn DEF AllSeen
  <2>3. ASSUME NEW f \in Files, NEW rev \in DOMAIN commits, Moves(f, saved, rev)
        PROVE  MovedOn(f, saved, rev)'
    BY <2>0, <2>3, <2>a DEF AllSeen, HistoryComplete, MovedOn
  <2>4. ASSUME NEW f \in Files, NEW rev \in DOMAIN commits, Moves(f, job[w].state, rev)
        PROVE  MovedOn(f, job[w].state, rev)'
    BY <2>0, <2>4, <2>a DEF AllSeen, HistoryComplete, MovedOn
  <2>5. ReadFollowed(w)'
    BY <2>0, <2>3, <2>4 DEF ReadFollowed, WasRead, JobConsistent, Visible
  <2>6. MissedIsUncached(w)'
    BY <2>0 DEF MissedIsUncached, WasRead, AllSeen, HistoryComplete, Visible
  <2>7. CacheAgrees(w)'
    BY <2>0 DEF CacheAgrees, Agrees, AllSeen, HistoryComplete
  <2>8. GraphFollowed(w)'
    BY <2>0, <2>3 DEF GraphFollowed, JobConsistent, Visible
  <2>9. QED
    BY <2>1, <2>2, <2>5, <2>6, <2>7, <2>8 DEF IndexerInv
<1>3. QED
  BY <1>1, <1>2

\* What a build reads was in the tree, and so is what it caches.
LEMMA BuildStepSeen ==
  ASSUME TypeOK, AllSeen, NEW p \in Processes, BuildStep(p)
  PROVE  /\ UNCHANGED <<tree, manifest, commits, head, seen, seenManifests, graph, saved>>
         /\ \A q \in Processes : q # p => pc'[q] = pc[q] /\ job'[q] = job[q]
         /\ \A q \in Processes : job'[q].state = job[q].state \/ job'[q].state = NoState
         /\ \A q \in Processes, f \in Files :
              job'[q].read[f] = Absent \/ <<f, job'[q].read[f]>> \in seen
         /\ \A k \in parsed' : k \in parsed
              \/ \E f \in Files : /\ k = <<RepositoryName(p), f, job[p].read[f]>>
                                 /\ <<f, job[p].read[f]>> \in seen
                                 /\ Parse(p)
<1> DEFINE Goal ==
      /\ UNCHANGED <<tree, manifest, commits, head, seen, seenManifests, graph, saved>>
      /\ \A q \in Processes : q # p => pc'[q] = pc[q] /\ job'[q] = job[q]
      /\ \A q \in Processes : job'[q].state = job[q].state \/ job'[q].state = NoState
      /\ \A q \in Processes, f \in Files :
           job'[q].read[f] = Absent \/ <<f, job'[q].read[f]>> \in seen
      /\ \A k \in parsed' : k \in parsed
           \/ \E f \in Files : /\ k = <<RepositoryName(p), f, job[p].read[f]>>
                              /\ <<f, job[p].read[f]>> \in seen
                              /\ Parse(p)
<1> USE DEF Goto, disk, treeVars
<1>t. job \in [Processes -> Jobs] /\ pc \in [Processes -> {pc[q] : q \in Processes}]
  BY DEF TypeOK
<1>s. \A q \in Processes, f \in Files : job[q].read[f] = Absent \/ <<f, job[q].read[f]>> \in seen
  BY DEF AllSeen, HistoryComplete
<1>1. CASE LoadManifest(p)
  BY <1>1, <1>t, <1>s DEF LoadManifest, Jobs
<1>2. CASE ReadRevision(p)
  BY <1>2, <1>t, <1>s DEF ReadRevision, Jobs
<1>3. CASE LoadPrevious(p)
  BY <1>3, <1>t, <1>s DEF LoadPrevious, Jobs
<1>4. ASSUME NEW f \in Files, ReadFile(p, f) PROVE Goal
  <2>1. Visible(f, tree[f], job[p].manifest) = Absent
        \/ <<f, Visible(f, tree[f], job[p].manifest)>> \in seen
    BY DEF Visible, AllSeen, HistoryComplete
  <2>2. job' = [job EXCEPT ![p] = [job[p] EXCEPT !.unread = @ \ {f},
                  !.read = [@ EXCEPT ![f] = Visible(f, tree[f], job[p].manifest)]]]
    BY <1>4 DEF ReadFile
  <2>3. job'[p].state = job[p].state /\ job'[p].read =
          [job[p].read EXCEPT ![f] = Visible(f, tree[f], job[p].manifest)]
    BY <2>2, <1>t DEF Jobs
  <2>4. \A g \in Files : job'[p].read[g] = Absent \/ <<g, job'[p].read[g]>> \in seen
    BY <2>1, <2>3, <1>t, <1>s DEF Jobs, Trees
  <2>5. \A q \in Processes : q # p => pc'[q] = pc[q] /\ job'[q] = job[q]
    BY <1>4, <1>t DEF ReadFile
  <2>6. QED
    BY <2>3, <2>4, <2>5, <1>4, <1>s DEF ReadFile
<1>5. CASE Parse(p)
  <2>1. job' = [job EXCEPT ![p] = [job[p] EXCEPT !.graph = BuildGraph(p)]]
    BY <1>5 DEF Parse
  <2>2. job'[p].state = job[p].state /\ job'[p].read = job[p].read
    BY <2>1, <1>t DEF Jobs
  <2>3. \A q \in Processes : q # p => pc'[q] = pc[q] /\ job'[q] = job[q]
    BY <2>1, <1>5, <1>t DEF Parse
  <2>4. PICK stored \in SUBSET Changed(p) :
          parsed' = parsed \cup {CacheKey(p, f) : f \in stored}
    BY <1>5 DEF Parse
  <2>5. ASSUME NEW k \in parsed', k \notin parsed
        PROVE  \E f \in Files : /\ k = <<RepositoryName(p), f, job[p].read[f]>>
                              /\ <<f, job[p].read[f]>> \in seen
    <3>1. PICK f \in stored : k = CacheKey(p, f)
      BY <2>4, <2>5
    <3>2. f \in Files /\ job[p].read[f] # Absent
      BY <3>1 DEF Changed
    <3>3. QED
      BY <3>1, <3>2, <1>s DEF CacheKey
  <2>6. QED
    BY <2>2, <2>3, <2>5, <1>5, <1>s DEF Parse
<1>6. CASE NothingParsed(p)
  BY <1>6, <1>t, <1>s DEF NothingParsed, Jobs, NoJob
<1>7. QED
  BY <1>1, <1>2, <1>3, <1>4, <1>5, <1>6 DEF BuildStep

\* A server touches neither the repository nor the indexer; it may add cache
\* entries, but under a name no manifest gives.
LEMMA LoneServerStep ==
  ASSUME LoneIndexer, IInv, NEW s \in Servers,
         ServerStep(s) \/ StartServer(s) \/ StopServer(s)
  PROVE  AllSeen' /\ \A w \in Indexers : IndexerInv(w)'
<1> USE IndexAssumption DEF Processes
<1>t. TypeOK /\ AllSeen
  BY DEF IInv
<1>1. /\ UNCHANGED <<tree, manifest, commits, head, seen, seenManifests, graph, saved>>
      /\ \A w \in Indexers : pc'[w] = pc[w] /\ job'[w] = job[w]
      /\ \A q \in Processes, f \in Files :
           job'[q].read[f] = Absent \/ <<f, job'[q].read[f]>> \in seen
      /\ \A k \in parsed' : k \in parsed \/ (k[1] = DirName /\ <<k[2], k[3]>> \in seen)
  <2>1. CASE BuildStep(s)
    <3>1. RepositoryName(s) = DirName
      BY DEF RepositoryName
    <3>2. \A w \in Indexers : pc'[w] = pc[w] /\ job'[w] = job[w]
      BY <2>1, <1>t, BuildStepSeen
    <3>3. ASSUME NEW k \in parsed', k \notin parsed
          PROVE  k[1] = DirName /\ <<k[2], k[3]>> \in seen
      <4>1. PICK f \in Files : /\ k = <<DirName, f, job[s].read[f]>>
                              /\ <<f, job[s].read[f]>> \in seen
        BY <2>1, <1>t, <3>1, <3>3, BuildStepSeen
      <4>2. QED
        BY <4>1
    <3>4. QED
      BY <2>1, <1>t, <3>2, <3>3, BuildStepSeen
  <2>2. CASE TakeState(s)
    <3>1. job \in [Processes -> Jobs]
      BY <1>t DEF TypeOK
    <3>2. \A q \in Processes : job'[q].read = job[q].read
      BY <2>2, <3>1 DEF TakeState, Jobs
    <3>3. QED
      BY <2>2, <3>1, <3>2, <1>t DEF TakeState, Goto, disk, treeVars, TypeOK, AllSeen, HistoryComplete
  <2>3. CASE Serve(s)
    BY <2>3, <1>t DEF Serve, Goto, disk, treeVars, TypeOK, Jobs, AllSeen, HistoryComplete, NoJob
  <2>4. CASE Refresh(s) \/ StartServer(s)
    BY <2>4, <1>t DEF Refresh, StartServer, Goto, disk, treeVars, TypeOK, AllSeen, HistoryComplete
  <2>5. CASE StopServer(s)
    BY <2>5, <1>t DEF StopServer, Goto, disk, treeVars, TypeOK, AllSeen, HistoryComplete
  <2>6. QED
    BY <2>1, <2>2, <2>3, <2>4, <2>5 DEF ServerStep
<1>2. AllSeen'
  BY <1>1, <1>t DEF AllSeen, HistoryComplete, StateSeen
<1>3. \A n \in WriterNames : \A f, t : <<n, f, t>> \in parsed' => <<n, f, t>> \in parsed
  <2>1. DirName \notin WriterNames
    BY DEF LoneIndexer, WriterNames
  <2>2. ASSUME NEW n \in WriterNames, NEW f, NEW t, <<n, f, t>> \in parsed'
        PROVE  <<n, f, t>> \in parsed
    <3>1. <<n, f, t>>[1] = n
      OBVIOUS
    <3>2. QED
      BY <1>1, <2>1, <2>2, <3>1
  <2>3. QED
    BY <2>2
<1>4. ASSUME NEW w \in Indexers
      PROVE  IndexerInv(w)'
  <2>0. /\ JobConsistent(w) /\ ManifestFollowed(w) /\ ReadFollowed(w)
        /\ MissedIsUncached(w) /\ CacheAgrees(w) /\ GraphFollowed(w)
    BY DEF IInv, IndexerInv
  <2>1. JobConsistent(w)'
    BY <1>1, <2>0 DEF JobConsistent
  <2>2. ManifestFollowed(w)' /\ ReadFollowed(w)' /\ GraphFollowed(w)'
    BY <1>1, <2>0 DEF ManifestFollowed, ReadFollowed, GraphFollowed, WasRead, MovedOn, Visible
  <2>3. MissedIsUncached(w)'
    BY <1>1, <1>3, <2>0 DEF MissedIsUncached, WasRead
  <2>4. CacheAgrees(w)'
    BY <1>1, <1>3, <2>0 DEF CacheAgrees, Agrees, JobConsistent
  <2>5. QED
    BY <2>1, <2>2, <2>3, <2>4 DEF IndexerInv
<1>5. QED
  BY <1>2, <1>4

(***************************************************************************)
(* The steps of the indexer, one lemma each where there is something to    *)
(* show.                                                                   *)
(***************************************************************************)
\* A run starts: the state it takes is made of what is in the tree now.
LEMMA LoneStart ==
  ASSUME LoneIndexer, TypeOK, AllSeen, NEW w \in Indexers, IndexerInv(w),
         NEW full \in FullRuns, StartIndex(w, full)
  PROVE  AllSeen' /\ IndexerInv(w)'
<1> USE IndexAssumption DEF Goto, disk, treeVars, Processes
<1>1. job' = [job EXCEPT ![w] = [job[w] EXCEPT !.full = full, !.state = WorktreeState]]
      /\ pc[w] = "idle" /\ pc' = [pc EXCEPT ![w] = IF full THEN "manifest" ELSE "decide"]
  BY DEF StartIndex
<1>2. /\ job'[w].state = WorktreeState
      /\ job'[w].unread = job[w].unread /\ job'[w].read = job[w].read
      /\ pc'[w] \in {"manifest", "decide"}
      /\ \A p \in Processes : p # w => job'[p] = job[p]
  BY <1>1 DEF TypeOK, Jobs
<1>3. WorktreeState \in TakenStates /\ StateSeen(WorktreeState)
  BY DEF LoneIndexer, WorktreeState, WorktreeFingerprint, TakenStates, StateSeen, AllSeen,
         HistoryComplete,
         TypeOK, TreeTypeOK, Trees
<1>4. AllSeen'
  <2>1. UNCHANGED <<tree, manifest, commits, head, seen, seenManifests, saved, parsed>>
    BY DEF StartIndex
  <2>2. \A v \in Indexers : StateSeen(job'[v].state)
    BY <1>2, <1>3 DEF AllSeen, HistoryComplete
  <2>3. \A p \in Processes, f \in Files :
          job'[p].read[f] = Absent \/ <<f, job'[p].read[f]>> \in seen
    BY <1>2 DEF AllSeen, HistoryComplete
  <2>4. QED
    BY <2>1, <2>2, <2>3 DEF AllSeen, HistoryComplete, StateSeen
<1>5. IndexerInv(w)'
  BY <1>1, <1>2, <1>3 DEF StartIndex, IndexerInv, JobConsistent, ManifestFollowed, ReadFollowed,
     MissedIsUncached, CacheAgrees, GraphFollowed, Agrees, WasRead, MovedOn, HasState,
     BeforeReading, HasManifest, HasRevision, Built
<1>6. QED
  BY <1>4, <1>5

\* What a build step reads and caches was in the tree.
LEMMA BuildStepAllSeen ==
  ASSUME TypeOK, AllSeen, NEW p \in Processes, BuildStep(p)
  PROVE  AllSeen'
<1>1. \A w \in Indexers : StateSeen(job'[w].state)
  BY BuildStepSeen DEF AllSeen, HistoryComplete, StateSeen, Processes
<1>2. \A k \in parsed' : <<k[2], k[3]>> \in seen
  <2>1. ASSUME NEW k \in parsed', k \notin parsed PROVE <<k[2], k[3]>> \in seen
    <3>1. PICK f \in Files : /\ k = <<RepositoryName(p), f, job[p].read[f]>>
                            /\ <<f, job[p].read[f]>> \in seen
      BY <2>1, BuildStepSeen
    <3>2. QED
      BY <3>1
  <2>2. QED
    BY <2>1 DEF AllSeen, HistoryComplete
<1>3. QED
  BY <1>1, <1>2, BuildStepSeen DEF AllSeen, HistoryComplete, StateSeen

\* A run that ends without saving leaves the directory as it found it.
LEMMA LoneGiveUp ==
  ASSUME LoneIndexer, TypeOK, NEW w \in Indexers, IndexerInv(w), pc[w] # "built", pc[w] # "state",
         pc' = [pc EXCEPT ![w] = "idle"], job' = [job EXCEPT ![w] = NoJob],
         UNCHANGED <<tree, manifest, commits, head, graph, saved, parsed>>
  PROVE  IndexerInv(w)'
<1>1. pc'[w] = "idle" /\ job'[w] = NoJob
  BY DEF TypeOK, Processes
<1>2. QED
  BY <1>1 DEF IndexerInv, JobConsistent, ManifestFollowed, ReadFollowed, MissedIsUncached,
     CacheAgrees, GraphFollowed, Agrees, WasRead, MovedOn, HasState, BeforeReading,
     HasManifest, HasRevision, Built, NoJob

\* Loading the manifest keeps the invariant.
LEMMA LoneLoadManifest ==
  ASSUME LoneIndexer, TypeOK, NEW w \in Indexers, IndexerInv(w), LoadManifest(w)
  PROVE  IndexerInv(w)'
<1> USE IndexAssumption DEF Goto, disk, treeVars, Processes
<1>1. /\ pc[w] = "manifest" /\ pc'[w] = "revision"
      /\ job'[w].manifest = manifest
      /\ job'[w].unread = job[w].unread /\ job'[w].state = job[w].state
      /\ manifest \in Manifests
      /\ UNCHANGED <<tree, manifest, commits, graph, saved, parsed>>
  BY DEF LoadManifest, TypeOK, TreeTypeOK, Jobs
<1>2. QED
  BY <1>1 DEF IndexerInv, JobConsistent, ManifestFollowed, ReadFollowed, MissedIsUncached,
     CacheAgrees, GraphFollowed, Agrees, WasRead, MovedOn, HasState, BeforeReading,
     HasManifest, HasRevision, Built

\* Reading HEAD keeps the invariant.
LEMMA LoneReadRevision ==
  ASSUME LoneIndexer, TypeOK, NEW w \in Indexers, IndexerInv(w), ReadRevision(w)
  PROVE  IndexerInv(w)'
<1> USE IndexAssumption DEF Goto, disk, treeVars, Processes
<1>1. /\ pc[w] = "revision" /\ pc'[w] = "previous"
      /\ job'[w].revision = head /\ head \in DOMAIN commits
      /\ job'[w].manifest = job[w].manifest
      /\ job'[w].unread = job[w].unread /\ job'[w].state = job[w].state
      /\ UNCHANGED <<tree, manifest, commits, graph, saved, parsed>>
  BY DEF ReadRevision, TypeOK, TreeTypeOK, Jobs, LoneIndexer, CurrentRevision
<1>2. job[w].unread = Files
  BY <1>1 DEF IndexerInv, JobConsistent, BeforeReading
<1>3. QED
  BY <1>1, <1>2 DEF IndexerInv, JobConsistent, ManifestFollowed, ReadFollowed, MissedIsUncached,
     CacheAgrees, GraphFollowed, Agrees, WasRead, MovedOn, HasState, BeforeReading,
     HasManifest, HasRevision, Built

\* Loading the previous graph keeps the invariant.
LEMMA LoneLoadPrevious ==
  ASSUME LoneIndexer, TypeOK, NEW w \in Indexers, IndexerInv(w), LoadPrevious(w)
  PROVE  IndexerInv(w)'
<1> USE IndexAssumption DEF Goto, disk, treeVars, Processes
<1>1. /\ pc[w] = "previous" /\ pc'[w] = "read"
      /\ job'[w].previous = graph
      /\ job'[w].revision = job[w].revision /\ job'[w].manifest = job[w].manifest
      /\ job'[w].unread = job[w].unread /\ job'[w].state = job[w].state
      /\ UNCHANGED <<tree, manifest, commits, graph, saved, parsed>>
  BY DEF LoadPrevious, TypeOK, Jobs
<1>2. job[w].unread = Files
  BY <1>1 DEF IndexerInv, JobConsistent, BeforeReading
<1>3. QED
  BY <1>1, <1>2 DEF IndexerInv, JobConsistent, ManifestFollowed, ReadFollowed, MissedIsUncached,
     CacheAgrees, GraphFollowed, Agrees, WasRead, MovedOn, HasState, BeforeReading,
     HasManifest, HasRevision, Built

\* The text just read is the current one, under the current manifest or under one
\* that has been replaced since.
LEMMA LoneReadFile ==
  ASSUME LoneIndexer, TypeOK, NEW w \in Indexers, IndexerInv(w), NEW f \in Files, ReadFile(w, f)
  PROVE  IndexerInv(w)'
<1> USE IndexAssumption DEF Goto, disk, treeVars, Processes
<1> DEFINE text == Visible(f, tree[f], job[w].manifest)
<1>1. job' = [job EXCEPT ![w] = [job[w] EXCEPT !.unread = @ \ {f}, !.read = [@ EXCEPT ![f] = text]]]
  BY DEF ReadFile
<1>2. /\ job'[w].unread = job[w].unread \ {f}
      /\ job'[w].read = [job[w].read EXCEPT ![f] = text]
      /\ job'[w].previous = job[w].previous /\ job'[w].state = job[w].state
      /\ job'[w].revision = job[w].revision /\ job'[w].manifest = job[w].manifest
  BY <1>1 DEF TypeOK, Jobs
<1>3. /\ pc[w] = "read" /\ pc'[w] \in {"read", "parse"}
      /\ pc'[w] = "parse" => job'[w].unread = {}
      /\ UNCHANGED <<tree, manifest, commits, graph, saved, parsed>>
  BY DEF ReadFile, TypeOK
<1>4. /\ job'[w].read[f] = text
      /\ \A g \in Files : g # f => job'[w].read[g] = job[w].read[g]
  BY <1>2 DEF TypeOK, Jobs, Trees
<1>5. JobConsistent(w)' /\ ManifestFollowed(w)' /\ GraphFollowed(w)'
  BY <1>2, <1>3 DEF IndexerInv, JobConsistent, ManifestFollowed, GraphFollowed, MovedOn, Visible,
     HasState, BeforeReading, HasManifest, HasRevision, Built
<1>6. ReadFollowed(w)'
  <2>1. ASSUME NEW g \in Files, WasRead(w, g)'
        PROVE  \/ job'[w].read[g] = Visible(g, tree[g], manifest)
               \/ MovedOn(g, job[w].state, job[w].revision) /\ MovedOn(g, saved, job[w].revision)
    <3>1. CASE g = f
      BY <3>1, <1>3, <1>4 DEF IndexerInv, ManifestFollowed, MovedOn, HasManifest
    <3>2. CASE g # f
      BY <3>2, <2>1, <1>2, <1>3, <1>4 DEF IndexerInv, ReadFollowed, WasRead, HasRevision
    <3>3. QED
      BY <3>1, <3>2
  <2>2. QED
    BY <2>1, <1>2, <1>3 DEF ReadFollowed, MovedOn, Visible
<1>7. MissedIsUncached(w)'
  <2>1. ASSUME NEW g \in Files, WasRead(w, g)'
        PROVE  \/ job'[w].read[g] = Visible(g, tree[g], job[w].manifest)
               \/ /\ g \notin Excludes[job[w].manifest]
                  /\ \A n \in WriterNames : <<n, g, tree[g]>> \notin parsed
    BY <2>1, <1>2, <1>3, <1>4 DEF IndexerInv, MissedIsUncached, WasRead, HasRevision
  <2>2. QED
    BY <2>1, <1>2, <1>3 DEF MissedIsUncached, Visible
<1>8. CacheAgrees(w)'
  BY <1>2, <1>3, <1>4 DEF IndexerInv, CacheAgrees, Agrees, JobConsistent, Visible
<1>9. QED
  BY <1>5, <1>6, <1>7, <1>8 DEF IndexerInv

\* The crux: where the records of a file come from the previous graph, its text is
\* cached, and by CacheAgrees the previous graph has them from that very text.
LEMMA LoneParse ==
  ASSUME LoneIndexer, TypeOK, NEW w \in Indexers, IndexerInv(w), Parse(w)
  PROVE  IndexerInv(w)'
<1> USE IndexAssumption DEF Goto, disk, treeVars, Processes
<1>1. job' = [job EXCEPT ![w] = [job[w] EXCEPT !.graph = BuildGraph(w)]]
  BY DEF Parse
<1>2. /\ job'[w].unread = job[w].unread /\ job'[w].read = job[w].read
      /\ job'[w].previous = job[w].previous /\ job'[w].state = job[w].state
      /\ job'[w].revision = job[w].revision /\ job'[w].manifest = job[w].manifest
      /\ job'[w].graph = BuildGraph(w)
  BY <1>1 DEF TypeOK, Jobs
<1>3. /\ pc[w] = "parse" /\ pc'[w] = "built"
      /\ UNCHANGED <<tree, manifest, commits, graph, saved>>
  BY DEF Parse, TypeOK
<1>4. job[w].manifest \in Manifests /\ job[w].unread = {}
  BY <1>3 DEF IndexerInv, JobConsistent, HasManifest, Built
<1>5. RepositoryName(w) = RepoName[job[w].manifest]
  BY DEF RepositoryName
<1>6. ASSUME NEW f \in Files PROVE SymbolsOf(w, f) = Records(job[w].read[f])
  <2>1. CASE CanReuse(w) /\ f \notin Changed(w) /\ Records(job[w].read[f]) # Absent
             /\ job[w].previous.symbols[f] # Absent
    <3>1. job[w].read[f] # Absent
      BY <2>1 DEF Records
    <3>2. CacheKey(w, f) \in parsed
      BY <2>1, <3>1 DEF Changed
    <3>3. Agrees(job[w].previous, f, job[w].read[f])
      BY <1>3, <1>4, <3>1 DEF IndexerInv, CacheAgrees
    <3>4. job[w].previous.symbols[f] = Records(job[w].read[f])
      BY <2>1, <3>2, <3>3 DEF Agrees, CanReuse, CacheKey
    <3>5. QED
      BY <3>4 DEF SymbolsOf
  <2>2. QED
    BY <2>1 DEF SymbolsOf
<1>7. JobConsistent(w)'
  <2>1. BuildGraph(w) \in Graphs
    BY <1>4, BuildGraphType
  <2>2. \A f \in Files : BuildGraph(w).symbols[f] = Records(job[w].read[f])
    BY <1>6 DEF BuildGraph
  <2>3. BuildGraph(w).revision = job[w].revision
        /\ BuildGraph(w).repository = RepoName[job[w].manifest]
    BY <1>5 DEF BuildGraph
  <2>4. QED
    BY <1>2, <1>3, <2>1, <2>2, <2>3 DEF IndexerInv, JobConsistent, HasState, BeforeReading,
       HasManifest, HasRevision, Built
<1>8. ManifestFollowed(w)' /\ ReadFollowed(w)' /\ GraphFollowed(w)' /\ CacheAgrees(w)'
  BY <1>2, <1>3 DEF IndexerInv, ManifestFollowed, ReadFollowed, GraphFollowed, CacheAgrees,
     WasRead, MovedOn, Visible, HasManifest, HasRevision
<1>9. MissedIsUncached(w)'
  <2>1. PICK stored \in SUBSET Changed(w) :
          parsed' = parsed \cup {CacheKey(w, f) : f \in stored}
    BY DEF Parse
  <2>2. ASSUME NEW f \in Files, job[w].read[f] # Visible(f, tree[f], job[w].manifest)
        PROVE  f \notin Excludes[job[w].manifest]
               /\ \A n \in WriterNames : <<n, f, tree[f]>> \notin parsed'
    <3>1. f \notin Excludes[job[w].manifest]
          /\ \A n \in WriterNames : <<n, f, tree[f]>> \notin parsed
      BY <1>3, <1>4, <2>2 DEF IndexerInv, MissedIsUncached, WasRead, HasRevision
    <3>2. job[w].read[f] # tree[f]
      BY <2>2, <3>1 DEF Visible
    <3>3. ASSUME NEW n \in WriterNames, NEW g \in stored PROVE <<n, f, tree[f]>> # CacheKey(w, g)
      BY <3>2 DEF CacheKey
    <3>4. QED
      BY <2>1, <3>1, <3>3
  <2>3. QED
    BY <1>2, <1>3, <2>2 DEF MissedIsUncached, Visible
<1>10. QED
  BY <1>7, <1>8, <1>9 DEF IndexerInv

\* Truncating graph.json keeps the invariant.
LEMMA LoneBeginSave ==
  ASSUME LoneIndexer, TypeOK, NEW w \in Indexers, IndexerInv(w), BeginSaveGraph(w)
  PROVE  IndexerInv(w)'
<1> USE IndexAssumption DEF Goto, Processes
<1>1. /\ pc[w] = "built" /\ pc'[w] = "saving" /\ graph' = NoGraph
      /\ UNCHANGED <<tree, manifest, commits, saved, parsed, job>>
  BY DEF BeginSaveGraph, TypeOK
<1>2. QED
  BY <1>1 DEF IndexerInv, JobConsistent, ManifestFollowed, ReadFollowed, MissedIsUncached,
     CacheAgrees, GraphFollowed, Agrees, WasRead, MovedOn, Visible, HasState, BeforeReading,
     HasManifest, HasRevision, Built

\* The saved graph agrees with the cache: a text it missed is not cached.
LEMMA LoneEndSave ==
  ASSUME LoneIndexer, TypeOK, NEW w \in Indexers, IndexerInv(w), EndSaveGraph(w)
  PROVE  IndexerInv(w)'
<1> USE IndexAssumption DEF Goto, Processes
<1>1. /\ pc[w] = "saving" /\ pc'[w] = "state" /\ graph' = job[w].graph
      /\ UNCHANGED <<tree, manifest, commits, saved, parsed, job>>
  BY DEF EndSaveGraph, TypeOK
<1>2. /\ job[w].manifest \in Manifests /\ job[w].unread = {}
      /\ job[w].revision \in DOMAIN commits
      /\ job[w].graph.revision = job[w].revision
      /\ job[w].graph.repository \in WriterNames
      /\ \A f \in Files : job[w].graph.symbols[f] = Records(job[w].read[f])
  BY <1>1 DEF IndexerInv, JobConsistent, HasManifest, HasRevision, Built, WriterNames
<1>3. JobConsistent(w)'
  BY <1>1, <1>2 DEF IndexerInv, JobConsistent, HasState, BeforeReading, HasManifest, HasRevision, Built
<1>4. ASSUME NEW f \in Files PROVE Agrees(job[w].graph, f, tree[f])
  <2>1. \/ job[w].read[f] = Visible(f, tree[f], job[w].manifest)
        \/ \A n \in WriterNames : <<n, f, tree[f]>> \notin parsed
    BY <1>1, <1>2 DEF IndexerInv, MissedIsUncached, WasRead, HasRevision
  <2>2. job[w].read[f] = Absent => job[w].graph.symbols[f] = Absent
    BY <1>2 DEF Records
  <2>3. QED
    BY <1>2, <2>1, <2>2 DEF Agrees, Visible
<1>5. CacheAgrees(w)'
  BY <1>1, <1>4 DEF CacheAgrees, Agrees
<1>6. ManifestFollowed(w)' /\ ReadFollowed(w)' /\ GraphFollowed(w)' /\ MissedIsUncached(w)'
  BY <1>1 DEF IndexerInv, ManifestFollowed, ReadFollowed, GraphFollowed, MissedIsUncached,
     WasRead, MovedOn, Visible, HasManifest, HasRevision
<1>7. QED
  BY <1>3, <1>5, <1>6 DEF IndexerInv

\* What is recorded is the state taken before the build: what the build read and
\* what it missed both tell against it.
LEMMA LoneSaveState ==
  ASSUME LoneIndexer, TypeOK, NEW w \in Indexers, IndexerInv(w), SaveState(w)
  PROVE  IndexerInv(w)'
<1> USE IndexAssumption DEF Goto, disk, treeVars, Processes
<1>1. /\ pc[w] = "state" /\ pc'[w] = "idle" /\ saved' = job[w].state /\ job'[w] = NoJob
      /\ UNCHANGED <<tree, manifest, commits, graph, parsed>>
  BY DEF SaveState, TypeOK
<1>2. /\ graph = job[w].graph /\ graph.revision = job[w].revision
      /\ job[w].unread = {}
      /\ \A f \in Files : graph.symbols[f] = Records(job[w].read[f])
  BY <1>1 DEF IndexerInv, JobConsistent, Built
<1>3. GraphFollowed(w)'
  <2>1. ASSUME NEW f \in Files
        PROVE  \/ graph.symbols[f] = Records(Visible(f, tree[f], manifest))
               \/ MovedOn(f, job[w].state, graph.revision)
    BY <1>1, <1>2 DEF IndexerInv, ReadFollowed, WasRead, HasRevision
  <2>2. QED
    BY <1>1, <2>1 DEF GraphFollowed, MovedOn, Visible
<1>4. CacheAgrees(w)'
  BY <1>1 DEF IndexerInv, CacheAgrees, Agrees
<1>5. JobConsistent(w)' /\ ManifestFollowed(w)' /\ ReadFollowed(w)' /\ MissedIsUncached(w)'
  BY <1>1 DEF IndexerInv, JobConsistent, ManifestFollowed, ReadFollowed, MissedIsUncached, WasRead,
     HasState, BeforeReading, HasManifest, HasRevision, Built, NoJob
<1>6. QED
  BY <1>3, <1>4, <1>5 DEF IndexerInv

\* Every step of the lone indexer keeps the invariant.
LEMMA LoneIndexStep ==
  ASSUME LoneIndexer, IInv, NEW w \in Indexers,
         IndexStep(w) \/ \E full \in FullRuns : StartIndex(w, full)
  PROVE  AllSeen' /\ IndexerInv(w)'
<1> USE IndexAssumption DEF Processes
<1>t. TypeOK /\ AllSeen /\ IndexerInv(w)
  BY DEF IInv
<1>1. ASSUME NEW full \in FullRuns, StartIndex(w, full) PROVE AllSeen' /\ IndexerInv(w)'
  BY <1>1, <1>t, LoneStart
<1>2. CASE BuildStep(w)
  <2>1. AllSeen'
    BY <1>2, <1>t, BuildStepAllSeen
  <2>2. ASSUME NothingParsed(w) PROVE IndexerInv(w)'
    BY <2>2, <1>t, LoneGiveUp DEF NothingParsed, Back, Goto, disk, treeVars
  <2>3. IndexerInv(w)'
    BY <1>2, <1>t, <2>2, LoneLoadManifest, LoneReadRevision, LoneLoadPrevious, LoneReadFile,
       LoneParse DEF BuildStep
  <2>4. QED
    BY <2>1, <2>3
<1>3. CASE ReportUpToDate(w)
  <2>1. IndexerInv(w)'
    BY <1>3, <1>t, LoneGiveUp DEF ReportUpToDate, Goto, disk, treeVars
  <2>2. AllSeen'
    BY <1>3, <1>t DEF ReportUpToDate, Goto, disk, treeVars, AllSeen, HistoryComplete, StateSeen, NoJob, TypeOK
  <2>3. QED
    BY <2>1, <2>2
<1>4. CASE DecideRebuild(w)
  <2>1. /\ pc[w] = "decide" /\ pc'[w] = "manifest"
        /\ UNCHANGED <<treeVars, disk, job>>
    BY <1>4, <1>t DEF DecideRebuild, Goto, TypeOK
  <2>2. IndexerInv(w)'
    BY <2>1, <1>t DEF disk, treeVars, IndexerInv, JobConsistent, ManifestFollowed, ReadFollowed,
       MissedIsUncached, CacheAgrees, GraphFollowed, Agrees, WasRead, MovedOn, Visible,
       HasState, BeforeReading, HasManifest, HasRevision, Built
  <2>3. QED
    BY <2>1, <2>2, <1>t DEF disk, treeVars, AllSeen, HistoryComplete, StateSeen
<1>5. CASE BeginSaveGraph(w)
  <2>1. AllSeen'
    BY <1>5, <1>t DEF BeginSaveGraph, AllSeen, HistoryComplete, StateSeen
  <2>2. QED
    BY <2>1, <1>5, <1>t, LoneBeginSave
<1>6. CASE EndSaveGraph(w)
  <2>1. AllSeen'
    BY <1>6, <1>t DEF EndSaveGraph, AllSeen, HistoryComplete, StateSeen
  <2>2. QED
    BY <2>1, <1>6, <1>t, LoneEndSave
<1>7. CASE SaveState(w)
  <2>1. AllSeen'
    BY <1>7, <1>t DEF SaveState, AllSeen, HistoryComplete, StateSeen, NoJob, TypeOK, treeVars
  <2>2. QED
    BY <2>1, <1>7, <1>t, LoneSaveState
<1>8. QED
  BY <1>1, <1>2, <1>3, <1>4, <1>5, <1>6, <1>7 DEF IndexStep

\* A server loads a previous graph only to find that it bears another name.
LEMMA LoneServerRebuilds ==
  ASSUME LoneIndexer, IInv, NEW s \in Servers,
         ServerStep(s) \/ StartServer(s) \/ StopServer(s)
  PROVE  ServerInv(s)'
<1> USE IndexAssumption DEF Goto, Processes
<1>t. TypeOK /\ ServerInv(s)
  BY DEF IInv
<1>1. CASE LoadManifest(s) \/ ReadRevision(s) \/ TakeState(s)
  BY <1>1, <1>t DEF LoadManifest, ReadRevision, TakeState, ServerInv, TypeOK, Jobs
<1>2. CASE LoadPrevious(s)
  <2>1. graph # NoGraph => graph.repository \in WriterNames
    BY DEF IInv, IndexerInv, JobConsistent, LoneIndexer
  <2>2. QED
    BY <2>1, <1>2, <1>t DEF LoadPrevious, ServerInv, TypeOK, Jobs
<1>3. ASSUME NEW f \in Files, ReadFile(s, f) PROVE ServerInv(s)'
  <2>1. job' = [job EXCEPT ![s] = [job[s] EXCEPT !.unread = @ \ {f},
                  !.read = [@ EXCEPT ![f] = Visible(f, tree[f], job[s].manifest)]]]
    BY <1>3 DEF ReadFile
  <2>2. job'[s].previous = job[s].previous
    BY <2>1, <1>t DEF TypeOK, Jobs
  <2>3. QED
    BY <2>2, <1>3, <1>t DEF ReadFile, ServerInv, TypeOK
<1>4. CASE Parse(s)
  <2>1. job' = [job EXCEPT ![s] = [job[s] EXCEPT !.graph = BuildGraph(s)]]
    BY <1>4 DEF Parse
  <2>2. /\ job'[s].previous = job[s].previous /\ job'[s].read = job[s].read
        /\ job'[s].graph = BuildGraph(s)
    BY <2>1, <1>t DEF TypeOK, Jobs
  <2>3. ~CanReuse(s)
    BY <1>t DEF CanReuse, RepositoryName, ServerInv, LoneIndexer, WriterNames
  <2>4. \A f \in Files : job'[s].graph.symbols[f] = Records(job'[s].read[f])
    BY <2>2, <2>3 DEF BuildGraph, SymbolsOf
  <2>5. QED
    BY <2>2, <2>4, <1>4, <1>t DEF Parse, ServerInv, TypeOK
<1>5. CASE NothingParsed(s)
  BY <1>5, <1>t DEF NothingParsed, Back, ServerInv, TypeOK, NoJob
<1>6. CASE Serve(s)
  BY <1>6, <1>t DEF Serve, ServerInv, TypeOK, NoJob
<1>7. CASE Refresh(s) \/ StartServer(s) \/ StopServer(s)
  BY <1>7, <1>t DEF Refresh, StartServer, StopServer, ServerInv, TypeOK
<1>8. QED
  BY <1>1, <1>2, <1>3, <1>4, <1>5, <1>6, <1>7 DEF ServerStep, BuildStep

\* A process leaves the local state of every other process alone.
LEMMA OthersUnchanged ==
  ASSUME TypeOK, NEW p \in Processes, NEW q \in Processes, q # p,
         \/ p \in Indexers /\ (IndexStep(p) \/ \E full \in FullRuns : StartIndex(p, full))
         \/ p \in Servers /\ (ServerStep(p) \/ StartServer(p) \/ StopServer(p))
  PROVE  pc'[q] = pc[q] /\ job'[q] = job[q]
<1> USE DEF Goto, disk, TypeOK
<1>1. CASE BuildStep(p)
  BY <1>1 DEF BuildStep, LoadManifest, ReadRevision, LoadPrevious, ReadFile, Parse, NothingParsed
<1>2. CASE ~BuildStep(p)
  BY <1>2 DEF IndexStep, ServerStep, StartIndex, ReportUpToDate, DecideRebuild, BeginSaveGraph,
     EndSaveGraph, SaveState, StartServer, TakeState, Serve, Refresh, StopServer
<1>3. QED
  BY <1>1, <1>2

\* Every step of the system keeps the invariant.
LEMMA LoneStep == ASSUME LoneIndexer, IInv, [Next]_vars PROVE IInv'
<1> USE IndexAssumption DEF Processes
<1>t. TypeOK /\ TypeOK'
  BY TypeStep DEF IInv
<1> DEFINE Rest == AllSeen /\ (\A w \in Indexers : IndexerInv(w)) /\ (\A s \in Servers : ServerInv(s))
<1>1. CASE UNCHANGED vars
  BY <1>1 DEF vars, treeVars, IInv, TypeOK, TreeTypeOK, AllSeen, HistoryComplete, StateSeen, IndexerInv, ServerInv,
     JobConsistent, ManifestFollowed, ReadFollowed, MissedIsUncached, CacheAgrees,
     GraphFollowed, Agrees, WasRead, MovedOn, Visible
<1>2. CASE TreeNext /\ UNCHANGED <<disk, pc, job, served, failures>>
  <2>1. \A s \in Servers : ServerInv(s)'
    BY <1>2 DEF IInv, ServerInv
  <2>2. QED
    BY <1>2, <1>t, <2>1, LoneTreeStep DEF IInv
<1>3. ASSUME NEW w \in Indexers, IndexStep(w) \/ \E full \in FullRuns : StartIndex(w, full)
      PROVE  IInv'
  <2>1. AllSeen' /\ IndexerInv(w)'
    BY <1>3, LoneIndexStep
  <2>2. \A v \in Indexers : v = w
    BY DEF LoneIndexer
  <2>3. ASSUME NEW s \in Servers PROVE ServerInv(s)'
    <3>1. pc'[s] = pc[s] /\ job'[s] = job[s]
      BY <1>3, <1>t, OthersUnchanged
    <3>2. QED
      BY <3>1 DEF IInv, ServerInv
  <2>4. QED
    BY <1>t, <2>1, <2>2, <2>3 DEF IInv
<1>4. ASSUME NEW s \in Servers, ServerStep(s) \/ StartServer(s) \/ StopServer(s)
      PROVE  IInv'
  <2>1. ASSUME NEW r \in Servers PROVE ServerInv(r)'
    <3>1. CASE r = s
      BY <3>1, <1>4, LoneServerRebuilds
    <3>2. CASE r # s
      <4>1. pc'[r] = pc[r] /\ job'[r] = job[r]
        BY <3>2, <1>4, <1>t, OthersUnchanged
      <4>2. QED
        BY <4>1 DEF IInv, ServerInv
    <3>3. QED
      BY <3>1, <3>2
  <2>2. QED
    BY <1>4, <1>t, <2>1, LoneServerStep DEF IInv
<1>5. ASSUME NEW p \in Processes, Fail(p) PROVE FALSE
  BY <1>5, <1>t DEF Fail, LoneIndexer, TypeOK
<1>6. QED
  BY <1>1, <1>2, <1>3, <1>4, <1>5 DEF Next

\* The invariant holds of every behaviour of a lone indexer.
THEOREM LoneInvariant == LoneIndexer => (Spec => []IInv)
<1> SUFFICES ASSUME LoneIndexer PROVE Spec => []IInv
  OBVIOUS
<1>1. Init => IInv
  BY LoneInit
<1>2. IInv /\ [Next]_vars => IInv'
  BY LoneStep
<1>3. QED
  BY <1>1, <1>2, PTL DEF Spec

\* "index up to date" (commands/index.rs) is answered only while graph.json holds
\* exactly the symbols of the sources the manifest lets through.
THEOREM LoneUpToDateIsExact == LoneIndexer => (Spec => []UpToDateIsExact)
<1> SUFFICES ASSUME LoneIndexer PROVE Spec => []UpToDateIsExact
  OBVIOUS
<1>1. ASSUME IInv PROVE UpToDateIsExact
  <2> SUFFICES ASSUME UpToDate(WorktreeState) PROVE graph.symbols = ExactSymbols
    BY DEF UpToDateIsExact
  <2> PICK w \in Indexers : TRUE
    BY DEF LoneIndexer
  <2>t. TypeOK /\ IndexerInv(w)
    BY <1>1 DEF IInv
  <2>1. /\ graph # NoGraph /\ graph.revision = head /\ saved # NoState
        /\ saved = [manifest |-> manifest, diff |-> WorktreeFingerprint]
    BY DEF UpToDate, WorktreeState, LoneIndexer
  <2>2. ASSUME NEW f \in Files PROVE ~MovedOn(f, saved, graph.revision)
    <3>1. tree[f] # commits[head][f] =>
            \E x \in saved.diff : x[1] = f /\ x[3] = tree[f]
      <4>1. ASSUME tree[f] # commits[head][f]
            PROVE  <<f, commits[head][f], tree[f]>> \in saved.diff
        BY <2>1, <4>1 DEF WorktreeFingerprint, LoneIndexer
      <4>2. <<f, commits[head][f], tree[f]>>[1] = f /\ <<f, commits[head][f], tree[f]>>[3] = tree[f]
        OBVIOUS
      <4>3. QED
        BY <4>1, <4>2
    <3>2. QED
      BY <2>1, <3>1 DEF MovedOn
  <2>3. ASSUME NEW f \in Files
        PROVE  graph.symbols[f] = Records(Visible(f, tree[f], manifest))
    <3>1. CASE pc[w] = "state"
      <4>1. /\ graph = job[w].graph /\ graph.revision = job[w].revision
            /\ job[w].unread = {}
            /\ graph.symbols[f] = Records(job[w].read[f])
        BY <3>1, <2>t DEF IndexerInv, JobConsistent, Built
      <4>2. job[w].read[f] = Visible(f, tree[f], manifest)
        BY <3>1, <4>1, <2>t, <2>2 DEF IndexerInv, ReadFollowed, WasRead, HasRevision
      <4>3. QED
        BY <4>1, <4>2
    <3>2. CASE pc[w] # "state"
      BY <3>2, <2>1, <2>2, <2>t DEF IndexerInv, GraphFollowed
    <3>3. QED
      BY <3>1, <3>2
  <2>4. graph \in Graphs
    BY <2>1, <2>t DEF TypeOK, Graph0
  <2>5. QED
    BY <2>3, <2>4 DEF Graphs, Trees, ExactSymbols
<1>2. QED
  BY <1>1, LoneInvariant, PTL

\* The records build_inner takes from the previous graph are those of the texts
\* the build read.
THEOREM LoneNoStaleRecords == LoneIndexer => (Spec => []NoStaleRecords)
<1> SUFFICES ASSUME LoneIndexer PROVE Spec => []NoStaleRecords
  OBVIOUS
<1>1. ASSUME IInv PROVE NoStaleRecords
  BY <1>1 DEF IInv, IndexerInv, JobConsistent, ServerInv, NoStaleRecords, Built, Processes
<1>2. QED
  BY <1>1, LoneInvariant, PTL
(***************************************************************************)
(* What a server answers from memory.  ServedInv (IndexLifecycleInvariant) *)
(* is inductive, with any number of servers and indexers, which may die.   *)
(***************************************************************************)
Repository == <<tree, manifest, commits, head, seen, seenManifests>>

\* A fresh checkout, with nothing built and nothing served, satisfies it.
LEMMA ServedInit == ASSUME ServerKeepsUp, Init PROVE ServedInv
<1>1. TypeOK
  BY TypeInit
<1>2. commits = <<tree>>
  <2>1. Tracked(tree) = tree
    BY DEF Tracked, ServerKeepsUp, Init, TreeInit, Trees
  <2>2. QED
    BY <2>1 DEF Init, TreeInit
<1>3. HistoryComplete
  <2>1. \A f \in Files : <<f, tree[f]>> \in seen
    BY DEF Init, TreeInit
  <2>2. \A t : \A c \in DOMAIN <<t>> : <<t>>[c] = t
    OBVIOUS
  <2>3. \A c \in DOMAIN commits, f \in Files : <<f, commits[c][f]>> \in seen
    BY <1>2, <2>1, <2>2
  <2>4. head = Len(commits) /\ manifest \in seenManifests
    BY <1>2 DEF Init, TreeInit
  <2>5. QED
    BY <2>1, <2>3, <2>4 DEF HistoryComplete
<1>4. Foreign(graph) /\ \A i \in Indexers : pc[i] \in Built => Foreign(job[i].graph)
  BY IndexAssumption DEF Init, Foreign, Built, Processes
<1>5. ASSUME NEW s \in Servers PROVE ServerJob(s) /\ ServedFollowed(s)
  BY DEF Init, Processes, NoJob, Nothing, Foreign, Stamped, ServerJob, ServedFollowed
<1>6. QED
  BY <1>1, <1>3, <1>4, <1>5 DEF ServedInv

\* People and git move files on from what a server has read, and from nothing else.
LEMMA ServedTreeStep ==
  ASSUME ServerKeepsUp, ServedInv, TreeNext, UNCHANGED <<disk, pc, job, served>>,
         NEW s \in Servers
  PROVE  ServerJob(s)' /\ ServedFollowed(s)'
<1>0. /\ ~Revisiting /\ TypeOK /\ HistoryComplete
      /\ ServerJob(s) /\ ServedFollowed(s)
  BY DEF ServerKeepsUp, ServedInv
<1>1. ASSUME NEW CONSTANT st, NEW CONSTANT rev, Recorded(st, rev)
      PROVE  Recorded(st, rev)'
  BY <1>0, <1>1, TreeFresh DEF Recorded, StateSeen
<1>2. ASSUME NEW CONSTANT st, NEW CONSTANT rev, Recorded(st, rev), NEW CONSTANT f \in Files,
             tree'[f] # tree[f] \/ manifest' # manifest \/ MovedOn(f, st, rev)
      PROVE  MovedOn(f, st, rev)'
  BY <1>0, <1>2, MovesOn DEF Recorded
<1>4. ServerJob(s)'
  <2>1. pc[s] \in Stamped => Recorded(job[s].state, job[s].revision)'
    BY <1>0, <1>1 DEF ServerJob, Recorded, StateSeen
  <2>2. ASSUME pc[s] \in Stamped, NEW f \in Files \ job[s].unread
        PROVE  Follows(f, job[s].read[f], job[s].state, job[s].revision)'
    <3>1. /\ f \in Files /\ Recorded(job[s].state, job[s].revision)
          /\ Follows(f, job[s].read[f], job[s].state, job[s].revision)
      BY <1>0, <2>2 DEF ServerJob
    <3>2. CASE job[s].read[f] = Visible(f, tree'[f], manifest')
      BY <3>2 DEF Follows
    <3>3. CASE job[s].read[f] # Visible(f, tree'[f], manifest')
      <4>1. tree'[f] # tree[f] \/ manifest' # manifest
            \/ MovedOn(f, job[s].state, job[s].revision)
        BY <3>1, <3>3 DEF Follows, Visible
      <4>2. MovedOn(f, job[s].state, job[s].revision)'
        BY <1>2, <3>1, <4>1 DEF MovedOn
      <4>3. QED
        BY <4>2 DEF Follows
    <3>4. QED
      BY <3>2, <3>3
  <2>3. pc[s] = "stamp" => job[s].revision \in DOMAIN commits'
    BY <1>0, TreeFresh DEF ServerJob
  <2>4. QED
    BY <1>0, <2>1, <2>2, <2>3 DEF ServerJob, Foreign
<1>5. ServedFollowed(s)'
  <2>1. ASSUME served[s].graph # NoGraph
        PROVE  Recorded(served[s].state, served[s].graph.revision)'
    BY <1>0, <1>1, <2>1 DEF ServedFollowed, Recorded, StateSeen
  <2>2. ASSUME served[s].graph # NoGraph, NEW f \in Files
        PROVE  \/ served[s].graph.symbols[f] = Records(Visible(f, tree'[f], manifest'))
               \/ MovedOn(f, served[s].state, served[s].graph.revision)'
    BY <1>0, <1>2, <2>2 DEF ServedFollowed, MovedOn, Visible
  <2>3. QED
    BY <1>0, <2>1, <2>2 DEF ServedFollowed
<1>6. QED
  BY <1>4, <1>5

\* A server that does not move keeps what it has while the repository stays.
LEMMA ServedFrame ==
  ASSUME NEW s \in Servers, ServerJob(s), ServedFollowed(s), UNCHANGED Repository,
         pc'[s] = pc[s], job'[s] = job[s], served'[s] = served[s]
  PROVE  ServerJob(s)' /\ ServedFollowed(s)'
BY DEF Repository, ServerJob, ServedFollowed, Foreign, Recorded, StateSeen, Follows, Visible,
       MovedOn

\* What is served stays true of the repository while neither changes.
LEMMA ServedUnmoved ==
  ASSUME NEW s \in Servers, ServedFollowed(s), UNCHANGED Repository, served'[s] = served[s],
         pc'[s] = "serving" => served[s].graph # NoGraph
  PROVE  ServedFollowed(s)'
BY DEF Repository, ServedFollowed, Recorded, StateSeen, Visible, MovedOn

\* A build that ends, in whatever way, leaves no trace in the local variables.
LEMMA ServerIdle ==
  ASSUME NEW s \in Servers, ServedFollowed(s), UNCHANGED <<Repository, served>>,
         pc'[s] = Back(s), job'[s] = NoJob
  PROVE  ServerJob(s)' /\ ServedFollowed(s)'
<1>1. pc'[s] \in {"off", "serving"} /\ (pc'[s] = "serving" => served[s].graph # NoGraph)
  BY DEF Back
<1>2. ServerJob(s)'
  BY <1>1 DEF ServerJob, Stamped, Foreign, NoJob
<1>3. QED
  BY <1>1, <1>2, ServedUnmoved

\* Up to its state a server has read nothing; with it, it records where it stands.
LEMMA ServerPrepares ==
  ASSUME ServerKeepsUp, ServedInv, NEW s \in Servers,
         LoadManifest(s) \/ ReadRevision(s) \/ TakeState(s) \/ LoadPrevious(s)
  PROVE  ServerJob(s)' /\ ServedFollowed(s)'
<1> USE IndexAssumption DEF Goto, disk, treeVars, Processes, Repository
<1>0. TypeOK /\ HistoryComplete /\ Foreign(graph) /\ ServerJob(s) /\ ServedFollowed(s)
  BY DEF ServedInv
<1>1. UNCHANGED <<Repository, served>> /\ pc'[s] \in {"revision", "stamp", "previous", "read"}
  BY <1>0 DEF LoadManifest, ReadRevision, TakeState, LoadPrevious, TypeOK
<1>2. ServedFollowed(s)'
  BY <1>0, <1>1, ServedUnmoved
<1>3. CASE LoadManifest(s)
  <2>1. /\ job'[s].unread = job[s].unread /\ job'[s].previous = job[s].previous
        /\ pc[s] = "manifest" /\ pc'[s] = "revision"
    BY <1>0, <1>3 DEF LoadManifest, TypeOK, Jobs
  <2>2. QED
    BY <1>0, <1>1, <1>2, <2>1 DEF ServerJob, Stamped, Foreign
<1>4. CASE ReadRevision(s)
  <2>1. /\ job'[s].unread = job[s].unread /\ job'[s].previous = job[s].previous
        /\ job'[s].revision = head /\ pc[s] = "revision" /\ pc'[s] = "stamp"
    BY <1>0, <1>4 DEF ReadRevision, CurrentRevision, ServerKeepsUp, TypeOK, Jobs
  <2>2. head \in DOMAIN commits
    BY <1>0 DEF TypeOK, TreeTypeOK
  <2>3. QED
    BY <1>0, <1>1, <1>2, <2>1, <2>2 DEF ServerJob, Stamped, Foreign
<1>5. CASE TakeState(s)
  <2>1. /\ job'[s].unread = job[s].unread /\ job'[s].previous = job[s].previous
        /\ job'[s].revision = job[s].revision /\ job'[s].state = WorktreeState
        /\ pc[s] = "stamp" /\ pc'[s] = "previous"
    BY <1>0, <1>5 DEF TakeState, ServerState, ServerKeepsUp, TypeOK, Jobs
  <2>2. WorktreeState \in TakenStates /\ StateSeen(WorktreeState)
    BY <1>0 DEF ServerKeepsUp, WorktreeState, WorktreeFingerprint, TakenStates, StateSeen,
                HistoryComplete, TypeOK, TreeTypeOK, Trees
  <2>3. Recorded(job[s].state, job[s].revision)'
    BY <1>0, <1>1, <2>1, <2>2 DEF Recorded, StateSeen, ServerJob
  <2>4. QED
    BY <1>0, <1>1, <1>2, <2>1, <2>3 DEF ServerJob, Stamped, Foreign
<1>6. CASE LoadPrevious(s)
  <2>1. /\ job'[s].unread = job[s].unread /\ job'[s].previous = graph
        /\ job'[s].revision = job[s].revision /\ job'[s].state = job[s].state
        /\ pc[s] = "previous" /\ pc'[s] = "read"
    BY <1>0, <1>6 DEF LoadPrevious, TypeOK, Jobs
  <2>2. Recorded(job[s].state, job[s].revision)'
    BY <1>0, <1>1, <2>1 DEF Recorded, StateSeen, ServerJob, Stamped
  <2>3. QED
    BY <1>0, <1>1, <1>2, <2>1, <2>2 DEF ServerJob, Stamped, Foreign
<1>7. QED
  BY <1>3, <1>4, <1>5, <1>6

\* The text just read is the current one, whichever manifest the server has loaded.
LEMMA ServerReads ==
  ASSUME ServerKeepsUp, ServedInv, NEW s \in Servers, NEW f \in Files, ReadFile(s, f)
  PROVE  ServerJob(s)' /\ ServedFollowed(s)'
<1> USE IndexAssumption DEF Goto, disk, treeVars, Processes, Repository
<1>0. TypeOK /\ ServerJob(s) /\ ServedFollowed(s)
  BY DEF ServedInv
<1> DEFINE text == Visible(f, tree[f], job[s].manifest)
<1>1. job' = [job EXCEPT ![s] = [job[s] EXCEPT !.unread = @ \ {f},
                                              !.read = [@ EXCEPT ![f] = text]]]
  BY DEF ReadFile
<1>2. /\ job'[s].unread = job[s].unread \ {f}
      /\ job'[s].read = [job[s].read EXCEPT ![f] = text]
      /\ job'[s].previous = job[s].previous /\ job'[s].state = job[s].state
      /\ job'[s].revision = job[s].revision
  BY <1>0, <1>1 DEF TypeOK, Jobs
<1>3. /\ pc[s] = "read" /\ pc'[s] \in {"read", "parse"}
      /\ pc'[s] = "parse" => job'[s].unread = {}
      /\ UNCHANGED <<Repository, served>>
  BY <1>0 DEF ReadFile, TypeOK
<1>4. /\ job'[s].read[f] = text
      /\ \A g \in Files : g # f => job'[s].read[g] = job[s].read[g]
  BY <1>0, <1>2 DEF TypeOK, Jobs, Trees
<1>5. text = Visible(f, tree[f], manifest)
  <2>1. job[s].manifest \in Manifests /\ manifest \in Manifests
    BY <1>0, <1>3 DEF TypeOK, TreeTypeOK, PastManifest
  <2>2. Excludes[job[s].manifest] = Excludes[manifest]
    BY <2>1 DEF ServerKeepsUp
  <2>3. QED
    BY <2>2 DEF Visible
<1>6. ASSUME NEW g \in Files \ job'[s].unread
      PROVE  Follows(g, job'[s].read[g], job[s].state, job[s].revision)
  <2>1. CASE g = f
    BY <2>1, <1>4, <1>5 DEF Follows
  <2>2. CASE g # f
    BY <2>2, <1>0, <1>2, <1>3, <1>4, <1>6 DEF ServerJob, Stamped
  <2>3. QED
    BY <2>1, <2>2
<1>7. \A g \in Files \ job'[s].unread :
        Follows(g, job[s].read[g], job[s].state, job[s].revision)'
  BY <1>2, <1>3, <1>6 DEF Follows, Visible, MovedOn
<1>8. Recorded(job[s].state, job[s].revision)'
  BY <1>0, <1>2, <1>3 DEF ServerJob, Stamped, Recorded, StateSeen
<1>9. ServerJob(s)'
  BY <1>0, <1>2, <1>3, <1>7, <1>8 DEF ServerJob, Stamped, Foreign
<1>10. QED
  BY <1>0, <1>3, <1>9, ServedUnmoved

\* A server parses everything it read: no graph it loads bears its own name.
LEMMA ServerParses ==
  ASSUME ServerKeepsUp, ServedInv, NEW s \in Servers, Parse(s)
  PROVE  ServerJob(s)' /\ ServedFollowed(s)'
<1> USE IndexAssumption DEF Goto, disk, treeVars, Processes, Repository
<1>0. TypeOK /\ ServerJob(s) /\ ServedFollowed(s)
  BY DEF ServedInv
<1>1. job' = [job EXCEPT ![s] = [job[s] EXCEPT !.graph = BuildGraph(s)]]
  BY DEF Parse
<1>2. /\ job'[s].unread = job[s].unread /\ job'[s].read = job[s].read
      /\ job'[s].previous = job[s].previous /\ job'[s].state = job[s].state
      /\ job'[s].revision = job[s].revision /\ job'[s].graph = BuildGraph(s)
  BY <1>0, <1>1 DEF TypeOK, Jobs
<1>3. pc[s] = "parse" /\ pc'[s] = "built" /\ UNCHANGED <<Repository, served>>
  BY <1>0 DEF Parse, TypeOK
<1>4. ~CanReuse(s)
  BY <1>0 DEF CanReuse, RepositoryName, ServerJob, Foreign
<1>5. /\ job'[s].graph \in Graphs /\ job'[s].graph.revision = job[s].revision
      /\ \A f \in Files : job'[s].graph.symbols[f] = Records(job[s].read[f])
  <2>1. job[s].manifest \in Manifests
    BY <1>0, <1>3 DEF TypeOK, PastManifest
  <2>2. QED
    BY <1>0, <1>2, <1>4, <2>1, BuildGraphType DEF BuildGraph, SymbolsOf
<1>6. \A f \in Files \ job'[s].unread :
        Follows(f, job[s].read[f], job[s].state, job[s].revision)'
  BY <1>0, <1>2, <1>3 DEF ServerJob, Stamped, Follows, Visible, MovedOn
<1>7. Recorded(job[s].state, job[s].revision)'
  BY <1>0, <1>2, <1>3 DEF ServerJob, Stamped, Recorded, StateSeen
<1>8. ServerJob(s)'
  BY <1>0, <1>2, <1>3, <1>5, <1>6, <1>7 DEF ServerJob, Stamped, Foreign
<1>9. QED
  BY <1>0, <1>3, <1>8, ServedUnmoved

\* What a build has followed, its server serves.
LEMMA ServerServes ==
  ASSUME ServerKeepsUp, ServedInv, NEW s \in Servers, Serve(s)
  PROVE  ServerJob(s)' /\ ServedFollowed(s)'
<1> USE IndexAssumption DEF Goto, disk, treeVars, Processes, Repository
<1>0. TypeOK /\ ServerJob(s)
  BY DEF ServedInv
<1>1. /\ pc[s] = "built" /\ pc'[s] = "serving" /\ UNCHANGED Repository
      /\ served'[s] = [graph |-> job[s].graph, state |-> job[s].state]
      /\ job'[s] = NoJob
  BY <1>0 DEF Serve, TypeOK
<1>2. ServerJob(s)'
  BY <1>1 DEF ServerJob, Stamped, Foreign, NoJob
<1>3. /\ Recorded(job[s].state, job[s].graph.revision)
      /\ job[s].graph # NoGraph
      /\ \A f \in Files : /\ job[s].graph.symbols[f] = Records(job[s].read[f])
                          /\ Follows(f, job[s].read[f], job[s].state, job[s].graph.revision)
  BY <1>0, <1>1, NoGraphAssumption DEF ServerJob, Stamped
<1>4. ServedFollowed(s)'
  BY <1>1, <1>3 DEF ServedFollowed, Recorded, StateSeen, Follows, Visible, MovedOn
<1>5. QED
  BY <1>2, <1>4

\* Every step of a server keeps what it has built, or is building, followed.
LEMMA ServerMoves ==
  ASSUME ServerKeepsUp, ServedInv, NEW s \in Servers,
         ServerStep(s) \/ StartServer(s) \/ StopServer(s)
  PROVE  ServerJob(s)' /\ ServedFollowed(s)'
<1> USE IndexAssumption DEF Goto, disk, treeVars, Processes
<1>0. TypeOK /\ ServerJob(s) /\ ServedFollowed(s)
  BY DEF ServedInv
<1>1. CASE NothingParsed(s)
  <2>1. UNCHANGED <<Repository, served>> /\ pc'[s] = Back(s) /\ job'[s] = NoJob
    BY <1>0, <1>1 DEF NothingParsed, TypeOK, Repository
  <2>2. QED
    BY <1>0, <2>1, ServerIdle
<1>2. CASE Refresh(s) \/ StartServer(s)
  <2>1. /\ UNCHANGED <<Repository, job, served>>
        /\ pc[s] \in {"off", "serving"} /\ pc'[s] = "manifest"
    BY <1>0, <1>2 DEF Refresh, StartServer, TypeOK, Repository
  <2>2. ServerJob(s)'
    BY <1>0, <2>1 DEF ServerJob, Stamped, Foreign
  <2>3. QED
    BY <1>0, <2>1, <2>2, ServedUnmoved
<1>3. CASE StopServer(s)
  <2>1. /\ UNCHANGED job /\ pc[s] = "serving" /\ pc'[s] = "off" /\ served'[s] = Nothing
    BY <1>0, <1>3 DEF StopServer, TypeOK
  <2>2. ServerJob(s)'
    BY <1>0, <2>1 DEF ServerJob, Stamped, Foreign
  <2>3. QED
    BY <2>1, <2>2 DEF ServedFollowed, Nothing
<1>4. QED
  BY <1>1, <1>2, <1>3, ServerPrepares, ServerReads, ServerParses, ServerServes
     DEF ServerStep, BuildStep

\* No process changes the repository; a server leaves graph.json alone as well.
LEMMA ProcessesKeepRepository ==
  ASSUME NEW p \in Processes,
         \/ p \in Indexers /\ (IndexStep(p) \/ \E full \in FullRuns : StartIndex(p, full))
         \/ p \in Servers /\ (ServerStep(p) \/ StartServer(p) \/ StopServer(p))
         \/ Fail(p)
  PROVE  /\ UNCHANGED Repository
         /\ p \in Servers => UNCHANGED graph
<1> USE DEF Repository, disk, treeVars
<1>1. CASE BuildStep(p)
  BY <1>1 DEF BuildStep, LoadManifest, ReadRevision, LoadPrevious, ReadFile, Parse, NothingParsed
<1>2. CASE ~BuildStep(p)
  BY <1>2, IndexAssumption DEF IndexStep, ServerStep, StartIndex, ReportUpToDate, DecideRebuild,
     BeginSaveGraph, EndSaveGraph, SaveState, StartServer, TakeState, Serve, Refresh, StopServer,
     Fail
<1>3. QED
  BY <1>1, <1>2

\* An indexer names its graph as the manifest does, and saves no other graph.
LEMMA IndexerNamesGraph ==
  ASSUME ServerKeepsUp, ServedInv, NEW i \in Indexers,
         IndexStep(i) \/ \E full \in FullRuns : StartIndex(i, full)
  PROVE  /\ Foreign(graph)'
         /\ pc'[i] \in Built => Foreign(job[i].graph)'
         /\ UNCHANGED served
<1> USE IndexAssumption DEF Goto, disk, treeVars, Processes
<1>0. /\ TypeOK /\ Foreign(graph)
      /\ pc[i] \in Built => Foreign(job[i].graph)
  BY DEF ServedInv
<1>1. CASE Parse(i)
  <2>1. job' = [job EXCEPT ![i] = [job[i] EXCEPT !.graph = BuildGraph(i)]]
    BY <1>1 DEF Parse
  <2>2. job'[i].graph = BuildGraph(i) /\ pc[i] = "parse"
    BY <1>0, <1>1, <2>1 DEF Parse, TypeOK, Jobs
  <2>3. RepositoryName(i) # DirName
    BY <1>0, <2>2 DEF RepositoryName, ServerKeepsUp, TypeOK, PastManifest
  <2>4. Foreign(job[i].graph)'
    BY <2>2, <2>3 DEF Foreign, BuildGraph
  <2>5. QED
    BY <1>0, <1>1, <2>4 DEF Parse, Foreign
<1>2. CASE BeginSaveGraph(i) \/ EndSaveGraph(i)
  BY <1>0, <1>2 DEF BeginSaveGraph, EndSaveGraph, Built, Foreign, TypeOK
<1>3. ASSUME NEW f \in Files, ReadFile(i, f)
      PROVE  UNCHANGED <<graph, served>> /\ pc'[i] \notin Built
  BY <1>0, <1>3 DEF ReadFile, TypeOK, Built
<1>4. ASSUME \/ LoadManifest(i) \/ ReadRevision(i) \/ LoadPrevious(i) \/ NothingParsed(i)
             \/ ReportUpToDate(i) \/ DecideRebuild(i) \/ SaveState(i)
             \/ \E full \in FullRuns : StartIndex(i, full)
      PROVE  UNCHANGED <<graph, served>> /\ pc'[i] \notin Built
  BY <1>0, <1>4 DEF LoadManifest, ReadRevision, LoadPrevious, NothingParsed, Back, ReportUpToDate,
     DecideRebuild, SaveState, StartIndex, TypeOK, Built
<1>5. QED
  BY <1>0, <1>1, <1>2, <1>3, <1>4 DEF IndexStep, BuildStep, Foreign

\* A run that dies saves nothing, and a server that fails keeps what it served.
LEMMA ServedFail ==
  ASSUME ServedInv, NEW p \in Processes, Fail(p)
  PROVE  /\ UNCHANGED graph
         /\ \A i \in Indexers : pc'[i] \in Built => Foreign(job[i].graph)'
         /\ \A s \in Servers : ServerJob(s)' /\ ServedFollowed(s)'
<1> USE IndexAssumption DEF Processes
<1>0. /\ TypeOK
      /\ \A i \in Indexers : pc[i] \in Built => Foreign(job[i].graph)
      /\ \A s \in Servers : ServerJob(s) /\ ServedFollowed(s)
  BY DEF ServedInv
<1>1. /\ UNCHANGED <<graph, Repository, served>>
      /\ pc'[p] = Back(p) /\ job'[p] = NoJob
      /\ \A q \in Processes : q # p => pc'[q] = pc[q] /\ job'[q] = job[q]
  BY <1>0 DEF Fail, Repository, disk, treeVars, TypeOK
<1>2. \A i \in Indexers : pc'[i] \in Built => Foreign(job[i].graph)'
  BY <1>0, <1>1 DEF Back, Built, Foreign
<1>3. ASSUME NEW s \in Servers PROVE ServerJob(s)' /\ ServedFollowed(s)'
  <2>1. CASE s = p
    BY <1>0, <1>1, <2>1, ServerIdle
  <2>2. CASE s # p
    BY <1>0, <1>1, <2>2, ServedFrame
  <2>3. QED
    BY <2>1, <2>2
<1>4. QED
  BY <1>1, <1>2, <1>3

\* Every step of the system keeps the servers' invariant.
LEMMA ServedStep == ASSUME ServerKeepsUp, ServedInv, [Next]_vars PROVE ServedInv'
<1> USE IndexAssumption DEF Processes
<1>0. /\ TypeOK /\ TypeOK' /\ HistoryComplete /\ Foreign(graph)
      /\ \A i \in Indexers : pc[i] \in Built => Foreign(job[i].graph)
      /\ \A s \in Servers : ServerJob(s) /\ ServedFollowed(s)
  BY TypeStep DEF ServedInv
<1>1. CASE UNCHANGED vars
  <2>1. UNCHANGED <<Repository, graph, pc, job, served>>
    BY <1>1 DEF vars, treeVars, Repository
  <2>2. ASSUME NEW s \in Servers PROVE ServerJob(s)' /\ ServedFollowed(s)'
    BY <1>0, <2>1, ServedFrame
  <2>3. HistoryComplete'
    BY <1>0, <2>1 DEF Repository, HistoryComplete
  <2>4. QED
    BY <1>0, <2>1, <2>2, <2>3 DEF ServedInv, Foreign
<1>2. CASE TreeNext /\ UNCHANGED <<disk, pc, job, served, failures>>
  <2>1. HistoryComplete'
    BY <1>0, <1>2, HistoryStep DEF ServerKeepsUp
  <2>2. \A s \in Servers : ServerJob(s)' /\ ServedFollowed(s)'
    BY <1>2, ServedTreeStep
  <2>3. QED
    BY <1>0, <1>2, <2>1, <2>2 DEF ServedInv, Foreign, disk
<1>3. ASSUME NEW i \in Indexers, IndexStep(i) \/ \E full \in FullRuns : StartIndex(i, full)
      PROVE  ServedInv'
  <2>1. /\ UNCHANGED <<Repository, served>>
        /\ Foreign(graph)' /\ (pc'[i] \in Built => Foreign(job[i].graph)')
        /\ \A q \in Processes : q # i => pc'[q] = pc[q] /\ job'[q] = job[q]
    BY <1>0, <1>3, IndexerNamesGraph, ProcessesKeepRepository, OthersUnchanged
  <2>2. HistoryComplete'
    BY <1>0, <2>1 DEF Repository, HistoryComplete
  <2>3. \A s \in Servers : ServerJob(s)' /\ ServedFollowed(s)'
    BY <1>0, <2>1, ServedFrame
  <2>4. \A j \in Indexers : pc'[j] \in Built => Foreign(job[j].graph)'
    BY <1>0, <2>1 DEF Foreign
  <2>5. QED
    BY <1>0, <2>1, <2>2, <2>3, <2>4 DEF ServedInv
<1>4. ASSUME NEW s \in Servers, ServerStep(s) \/ StartServer(s) \/ StopServer(s)
      PROVE  ServedInv'
  <2>1. /\ UNCHANGED <<Repository, graph>>
        /\ \A q \in Processes : q # s => pc'[q] = pc[q] /\ job'[q] = job[q]
        /\ \A r \in Servers : r # s => served'[r] = served[r]
    <3>1. \A r \in Servers : r # s => served'[r] = served[r]
      BY <1>0, <1>4 DEF ServerStep, BuildStep, LoadManifest, ReadRevision, LoadPrevious, ReadFile,
         Parse, NothingParsed, TakeState, Serve, Refresh, StartServer, StopServer, TypeOK
    <3>2. QED
      BY <1>0, <1>4, <3>1, ProcessesKeepRepository, OthersUnchanged
  <2>2. HistoryComplete'
    BY <1>0, <2>1 DEF Repository, HistoryComplete
  <2>3. ASSUME NEW r \in Servers PROVE ServerJob(r)' /\ ServedFollowed(r)'
    <3>1. CASE r = s
      BY <3>1, <1>4, ServerMoves
    <3>2. CASE r # s
      BY <3>2, <1>0, <2>1, ServedFrame
    <3>3. QED
      BY <3>1, <3>2
  <2>4. QED
    BY <1>0, <2>1, <2>2, <2>3 DEF ServedInv, Foreign
<1>5. ASSUME NEW p \in Processes, Fail(p) PROVE ServedInv'
  <2>1. UNCHANGED Repository
    BY <1>5, ProcessesKeepRepository
  <2>2. HistoryComplete'
    BY <1>0, <2>1 DEF Repository, HistoryComplete
  <2>3. QED
    BY <1>0, <1>5, <2>2, ServedFail DEF ServedInv, Foreign
<1>6. QED
  BY <1>1, <1>2, <1>3, <1>4, <1>5 DEF Next

\* The servers' invariant holds of every behaviour in which they can keep up.
THEOREM ServedInvariant == ServerKeepsUp => (Spec => []ServedInv)
<1> SUFFICES ASSUME ServerKeepsUp PROVE Spec => []ServedInv
  OBVIOUS
<1>1. Init => ServedInv
  BY ServedInit
<1>2. ServedInv /\ [Next]_vars => ServedInv'
  BY ServedStep
<1>3. QED
  BY <1>1, <1>2, PTL DEF Spec

\* A tool call that refresh_if_stale lets through is answered from a graph of the
\* current sources under the current manifest, however the edits, commits, other
\* runs and failures fell between the steps of the build it comes from.
THEOREM ServerAnswersAreExact == ServerKeepsUp => (Spec => []ServedIsExact)
<1> SUFFICES ASSUME ServerKeepsUp PROVE Spec => []ServedIsExact
  OBVIOUS
<1>1. ASSUME ServedInv PROVE ServedIsExact
  <2> SUFFICES ASSUME NEW s \in Servers, Fresh(s)
               PROVE  served[s].graph.symbols = ExactSymbols
    BY DEF ServedIsExact
  <2>0. TypeOK /\ ServedFollowed(s)
    BY <1>1 DEF ServedInv
  <2>1. /\ served[s].graph # NoGraph /\ served[s].graph.revision = head
        /\ served[s].state = [manifest |-> manifest, diff |-> WorktreeFingerprint]
        /\ served[s].state \in TakenStates
    BY <2>0 DEF Fresh, ServerState, WorktreeState, ServerKeepsUp, ServedFollowed, Recorded
  <2>2. ASSUME NEW f \in Files PROVE ~MovedOn(f, served[s].state, served[s].graph.revision)
    <3>1. ASSUME tree[f] # commits[head][f]
          PROVE  \E x \in served[s].state.diff : x[1] = f /\ x[3] = tree[f]
      <4>1. <<f, commits[head][f], tree[f]>> \in served[s].state.diff
        BY <2>1, <3>1 DEF WorktreeFingerprint, ServerKeepsUp
      <4>2. /\ <<f, commits[head][f], tree[f]>>[1] = f
            /\ <<f, commits[head][f], tree[f]>>[3] = tree[f]
        OBVIOUS
      <4>3. QED
        BY <4>1, <4>2
    <3>2. QED
      BY <2>1, <3>1, NoStateAssumption DEF MovedOn
  <2>3. \A f \in Files : served[s].graph.symbols[f] = Records(Visible(f, tree[f], manifest))
    BY <2>0, <2>1, <2>2 DEF ServedFollowed
  <2>4. served[s].graph \in Graphs
    BY <2>0, <2>1 DEF TypeOK, Graph0
  <2>5. QED
    BY <2>3, <2>4 DEF Graphs, Trees, ExactSymbols
<1>2. QED
  BY <1>1, ServedInvariant, PTL

(***************************************************************************)
(* Privacy exclusions, for any processes, failures and returning texts: a  *)
(* build reads nothing its manifest excludes, and reuse adds nothing back. *)
(***************************************************************************)
HonoursExclusions(p) ==
  /\ pc[p] \notin PastManifest => \A f \in Files : job[p].read[f] = Absent
  /\ \A f \in Excludes[job[p].manifest] : pc[p] \in PastManifest => job[p].read[f] = Absent
  /\ pc[p] \in Built =>
       \A f \in Files : job[p].read[f] = Absent => job[p].graph.symbols[f] = Absent

\* A process that finished or gave up holds no text.
LEMMA IdleHonours ==
  ASSUME NEW p \in Processes, pc'[p] \notin PastManifest, job'[p] = NoJob
  PROVE  HonoursExclusions(p)'
<1>1. \A f \in Files : NoJob.read[f] = Absent BY DEF NoJob
<1>2. pc'[p] \notin Built BY DEF Built, PastManifest
<1>3. QED BY <1>1, <1>2 DEF HonoursExclusions

\* The build steps read only what the manifest allows.
LEMMA BuildStepHonours ==
  ASSUME TypeOK, NEW p \in Processes, HonoursExclusions(p), BuildStep(p)
  PROVE  HonoursExclusions(p)'
<1> USE IndexAssumption DEF Goto, HonoursExclusions, PastManifest, Built
<1>t. job[p] \in Jobs /\ pc \in [Processes -> {"idle", "off", "decide", "manifest", "revision",
        "stamp", "previous", "read", "parse", "built", "saving", "state", "serving"}]
      /\ job \in [Processes -> Jobs]
  BY DEF TypeOK
<1>1. CASE LoadManifest(p)
  <2>1. pc[p] = "manifest" /\ pc'[p] = "revision"
    BY <1>1, <1>t DEF LoadManifest
  <2>2. job'[p].read = job[p].read /\ job'[p].manifest = manifest /\ manifest \in Manifests
    BY <1>1, <1>t DEF LoadManifest, Jobs, TypeOK, TreeTypeOK
  <2>3. \A f \in Excludes[manifest] : f \in Files
    BY <2>2
  <2>4. QED
    BY <2>1, <2>2, <2>3
<1>2. CASE ReadRevision(p)
  <2>1. pc[p] = "revision" /\ pc'[p] \in {"stamp", "previous"}
    BY <1>2, <1>t DEF ReadRevision
  <2>2. job'[p].read = job[p].read /\ job'[p].manifest = job[p].manifest
    BY <1>2, <1>t DEF ReadRevision, Jobs
  <2>3. QED
    BY <2>1, <2>2
<1>3. CASE LoadPrevious(p)
  <2>1. pc[p] = "previous" /\ pc'[p] = "read"
    BY <1>3, <1>t DEF LoadPrevious
  <2>2. job'[p].read = job[p].read /\ job'[p].manifest = job[p].manifest
    BY <1>3, <1>t DEF LoadPrevious, Jobs
  <2>3. QED
    BY <2>1, <2>2
<1>4. ASSUME NEW f \in Files, ReadFile(p, f) PROVE HonoursExclusions(p)'
  <2>1. pc[p] = "read" /\ pc'[p] \in {"read", "parse"}
    BY <1>4, <1>t DEF ReadFile
  <2>2. /\ job'[p].manifest = job[p].manifest
        /\ job'[p].read = [job[p].read EXCEPT ![f] = Visible(f, tree[f], job[p].manifest)]
    BY <1>4, <1>t DEF ReadFile, Jobs
  <2>3. job[p].manifest \in Manifests /\ job[p].read \in [Files -> Texts]
    BY <2>1, <1>t DEF TypeOK, Jobs, Trees
  <2>4. \A g \in Excludes[job[p].manifest] :
          /\ g \in Files
          /\ job'[p].read[g] = IF g = f THEN Visible(f, tree[f], job[p].manifest) ELSE job[p].read[g]
    BY <2>2, <2>3
  <2>5. f \in Excludes[job[p].manifest] => Visible(f, tree[f], job[p].manifest) = Absent
    BY DEF Visible
  <2>6. QED
    BY <2>1, <2>2, <2>4, <2>5
<1>5. CASE Parse(p)
  <2>1. pc[p] = "parse" /\ pc'[p] = "built"
    BY <1>5, <1>t DEF Parse
  <2>2. /\ job'[p].read = job[p].read /\ job'[p].manifest = job[p].manifest
        /\ job'[p].graph = BuildGraph(p)
    BY <1>5, <1>t DEF Parse, Jobs
  <2>3. \A f \in Files : job[p].read[f] = Absent => BuildGraph(p).symbols[f] = Absent
    BY DEF BuildGraph, SymbolsOf, Records
  <2>4. QED
    BY <2>1, <2>2, <2>3
<1>6. CASE NothingParsed(p)
  <2>1. pc'[p] \in {"serving", "off", "idle"} /\ job'[p] = NoJob
    BY <1>6, <1>t DEF NothingParsed, Back
  <2>2. QED
    BY ONLY <2>1, IdleHonours DEF PastManifest
<1>7. QED
  BY <1>1, <1>2, <1>3, <1>4, <1>5, <1>6 DEF BuildStep

\* Nothing but the build steps gives a process a text to hold.
LEMMA OtherStepHonours ==
  ASSUME TypeOK, NEW p \in Processes, HonoursExclusions(p),
         \/ \E full \in FullRuns : StartIndex(p, full)
         \/ ReportUpToDate(p) \/ DecideRebuild(p) \/ SaveState(p)
         \/ BeginSaveGraph(p) \/ EndSaveGraph(p)
         \/ TakeState(p) \/ Serve(p) \/ Refresh(p) \/ StartServer(p) \/ StopServer(p)
         \/ Fail(p)
  PROVE  HonoursExclusions(p)'
<1> USE DEF Goto, PastManifest, Built
<1>t. job[p] \in Jobs /\ pc \in [Processes -> {"idle", "off", "decide", "manifest", "revision",
        "stamp", "previous", "read", "parse", "built", "saving", "state", "serving"}]
      /\ job \in [Processes -> Jobs]
  BY DEF TypeOK
<1>1. CASE ReportUpToDate(p) \/ SaveState(p) \/ Serve(p) \/ Fail(p)
  <2>1. pc'[p] \in {"serving", "off", "idle"} /\ job'[p] = NoJob
    BY <1>1, <1>t DEF ReportUpToDate, SaveState, Serve, Fail, Back
  <2>2. QED
    BY ONLY <2>1, IdleHonours DEF PastManifest
<1>2. CASE \/ \E full \in FullRuns : StartIndex(p, full)
           \/ DecideRebuild(p) \/ Refresh(p) \/ StartServer(p) \/ StopServer(p)
  <2>1. /\ pc[p] \in {"idle", "decide", "serving", "off"}
        /\ pc'[p] \in {"manifest", "decide", "off"}
        /\ job'[p].read = job[p].read
    <3>1. ASSUME NEW full \in FullRuns, StartIndex(p, full)
          PROVE  /\ pc[p] = "idle" /\ pc'[p] \in {"manifest", "decide"}
                 /\ job'[p].read = job[p].read
      BY <3>1, <1>t DEF StartIndex, Jobs
    <3>2. CASE DecideRebuild(p) \/ Refresh(p) \/ StartServer(p) \/ StopServer(p)
      BY <3>2, <1>t DEF DecideRebuild, Refresh, StartServer, StopServer
    <3>3. QED
      BY <1>2, <3>1, <3>2
  <2>2. QED
    BY <2>1 DEF HonoursExclusions
<1>3. CASE BeginSaveGraph(p) \/ EndSaveGraph(p)
  <2>1. pc[p] \in Built /\ pc'[p] \in Built /\ job' = job
    BY <1>3, <1>t DEF BeginSaveGraph, EndSaveGraph
  <2>2. QED
    BY <2>1 DEF HonoursExclusions
<1>4. CASE TakeState(p)
  <2>1. /\ pc[p] = "stamp" /\ pc'[p] = "previous"
        /\ job'[p].read = job[p].read /\ job'[p].manifest = job[p].manifest
    BY <1>4, <1>t DEF TakeState, Jobs
  <2>2. QED
    BY <2>1 DEF HonoursExclusions
<1>5. QED
  BY <1>1, <1>2, <1>3, <1>4

\* A process whose program counter and job did not change still honours exclusions.
LEMMA UnchangedHonours ==
  ASSUME NEW q \in Processes, HonoursExclusions(q), pc'[q] = pc[q], job'[q] = job[q]
  PROVE  HonoursExclusions(q)'
BY DEF HonoursExclusions

\* Every step keeps every process honouring the exclusions of its manifest.
LEMMA StepHonours ==
  ASSUME TypeOK, \A p \in Processes : HonoursExclusions(p), [Next]_vars
  PROVE  \A p \in Processes : HonoursExclusions(p)'
<1>1. CASE UNCHANGED vars \/ (TreeNext /\ UNCHANGED <<disk, pc, job, served, failures>>)
  BY <1>1, UnchangedHonours DEF vars
<1>2. ASSUME NEW p \in Processes,
             \/ BuildStep(p)
             \/ \E full \in FullRuns : StartIndex(p, full)
             \/ ReportUpToDate(p) \/ DecideRebuild(p) \/ SaveState(p)
             \/ BeginSaveGraph(p) \/ EndSaveGraph(p)
             \/ TakeState(p) \/ Serve(p) \/ Refresh(p) \/ StartServer(p) \/ StopServer(p)
             \/ Fail(p)
      PROVE  \A q \in Processes : HonoursExclusions(q)'
  <2>1. HonoursExclusions(p)'
    BY <1>2, BuildStepHonours, OtherStepHonours
  <2> USE DEF TypeOK, Goto
  <2>2. ASSUME NEW q \in Processes, q # p PROVE pc'[q] = pc[q] /\ job'[q] = job[q]
    <3>1. CASE BuildStep(p)
      BY <2>2, <3>1 DEF BuildStep, LoadManifest, ReadRevision, LoadPrevious, ReadFile,
         Parse, NothingParsed
    <3>2. CASE (\E full \in FullRuns : StartIndex(p, full)) \/ ReportUpToDate(p) \/ DecideRebuild(p)
      BY <2>2, <3>2 DEF StartIndex, ReportUpToDate, DecideRebuild
    <3>3. CASE SaveState(p) \/ BeginSaveGraph(p) \/ EndSaveGraph(p)
      BY <2>2, <3>3 DEF SaveState, BeginSaveGraph, EndSaveGraph
    <3>4. CASE TakeState(p) \/ Serve(p) \/ Refresh(p) \/ StartServer(p) \/ StopServer(p)
      BY <2>2, <3>4 DEF TakeState, Serve, Refresh, StartServer, StopServer
    <3>5. CASE Fail(p)
      BY <2>2, <3>5 DEF Fail
    <3>6. QED
      BY <1>2, <3>1, <3>2, <3>3, <3>4, <3>5
  <2>3. QED
    BY <2>1, <2>2, UnchangedHonours
<1>3. QED
  BY <1>1, <1>2 DEF Next, IndexStep, ServerStep, Processes

\* No graph is built, or saved, with records of a file its manifest excludes,
\* whatever the processes, the failures and the graphs records are reused from.
THEOREM GraphsHonourExclusions == Spec => []ExcludedStayOut
<1> DEFINE AllHonour == \A p \in Processes : HonoursExclusions(p)
<1>1. Init => AllHonour
  <2> SUFFICES ASSUME Init, NEW p \in Processes PROVE HonoursExclusions(p)
    OBVIOUS
  <2>1. pc[p] \in {"off", "idle"} /\ job[p] = NoJob
    BY DEF Init
  <2>2. QED
    BY <2>1 DEF HonoursExclusions, NoJob, PastManifest, Built
<1>2. TypeOK /\ AllHonour /\ [Next]_vars => AllHonour'
  BY StepHonours
<1>3. TypeOK /\ AllHonour => ExcludedStayOut
  <2> SUFFICES ASSUME TypeOK, AllHonour, NEW p \in Processes, pc[p] \in Built,
                      NEW f \in Excludes[job[p].manifest]
               PROVE  job[p].graph.symbols[f] = Absent
    BY DEF ExcludedStayOut, Built
  <2>1. job[p].manifest \in Manifests /\ f \in Files
    BY IndexAssumption DEF TypeOK, PastManifest, Built
  <2>2. QED
    BY <2>1 DEF HonoursExclusions, PastManifest, Built
<1> HIDE DEF AllHonour
<1>4. QED
  BY <1>1, <1>2, <1>3, TypeCorrect, PTL DEF Spec
============================================================================
