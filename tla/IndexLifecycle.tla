--------------------------- MODULE IndexLifecycle ---------------------------
(***************************************************************************)
(* How the symbol graph of a repository is built, saved and reused by      *)
(* processes that share one .tpt-weave directory while the working tree    *)
(* changes under them:                                                     *)
(*                                                                         *)
(*   - every `tpt-weave index` run (an indexer; commands/index.rs and      *)
(*     workspace.rs of tpt-weave-cli),                                     *)
(*   - every MCP server (workspace.rs and server.rs of tpt-weave-mcp),     *)
(*   - the query commands, which load graph.json (Workspace::load_index).  *)
(*                                                                         *)
(* A graph is abstracted to its repository name, its revision and, for     *)
(* each file, the text its symbol records were extracted from.             *)
(***************************************************************************)
EXTENDS WorkingTree

CONSTANTS
  Blank,        \* texts that parse but define no symbol
  Unparsable,   \* texts the parser rejects
  Names,        \* repository names
  DirName,      \* the name of the root directory
  RepoName,     \* the `repository` field of each manifest
  Excludes,     \* the files each manifest's privacy section excludes
  Indexers,     \* `tpt-weave index` processes
  Servers,      \* MCP server processes
  FullRuns,     \* values of the --full flag the runs are started with
  MaxFailures,  \* bound on runs that die or fail half-way
  NoGraph       \* no loadable graph: missing, torn or of another schema

ASSUME IndexAssumption ==
  /\ Blank \subseteq Texts /\ Unparsable \subseteq Texts
  /\ DirName \in Names
  /\ RepoName \in [Manifests -> Names]
  /\ Excludes \in [Manifests -> SUBSET Files]
  /\ NoManifest \in Manifests => RepoName[NoManifest] = DirName /\ Excludes[NoManifest] = {}
  /\ Indexers \cap Servers = {}
  /\ FullRuns \subseteq BOOLEAN
  /\ MaxFailures \in Nat

VARIABLES
  graph,     \* .tpt-weave/graph.json
  saved,     \* the .tpt-weave worktree-state record
  parsed,    \* .tpt-weave/parsed: keys with an entry
  pc,        \* where each process is
  job,       \* the local variables of its current build
  served,    \* the graph and state an MCP server holds in memory
  failures   \* runs that have failed so far

vars == <<treeVars, graph, saved, parsed, pc, job, served, failures>>

Processes == Indexers \cup Servers

Graphs    == [repository : Names, revision : Revisions, symbols : Trees]
Graph0    == Graphs \cup {NoGraph}

ASSUME NoGraphAssumption == NoGraph \notin Graphs

ParseKeys == Names \X Files \X Texts
Jobs      == [full : BOOLEAN, state : States, manifest : Manifests \cup {NoManifest},
              revision : Revisions, previous : Graph0, unread : SUBSET Files,
              read : Trees, graph : Graph0]
NoJob     == [full |-> FALSE, state |-> NoState, manifest |-> NoManifest,
              revision |-> NoRevision, previous |-> NoGraph, unread |-> Files,
              read |-> [f \in Files |-> Absent], graph |-> NoGraph]
Nothing   == [graph |-> NoGraph, state |-> NoState]

Init ==
  /\ TreeInit
  /\ graph = NoGraph
  /\ saved = NoState
  /\ parsed = {}
  /\ pc = [p \in Processes |-> IF p \in Servers THEN "off" ELSE "idle"]
  /\ job = [p \in Processes |-> NoJob]
  /\ served = [s \in Servers |-> Nothing]
  /\ failures = 0

(***************************************************************************)
(* What a parse of one text leaves in a graph: its symbol records, named   *)
(* by the text they come from, or Absent when it leaves none.              *)
(***************************************************************************)
Records(t) == IF t \in Blank \cup Unparsable THEN Absent ELSE t

\* collect_rust_files: privacy-excluded paths are skipped before reading.
Visible(f, t, m) == IF f \in Excludes[m] THEN Absent ELSE t

\* Mutant: the server names its graph as the manifest does.
NameFromManifest(p) == RepoName[job[p].manifest]

\* The CLI takes the name from the manifest, the MCP server from the directory.
RepositoryName(p) == IF p \in Servers THEN DirName ELSE RepoName[job[p].manifest]

CacheKey(p, f) == <<RepositoryName(p), f, job[p].read[f]>>

\* ParseCache::parse_files: the collected files with no entry are reparsed.
Changed(p) == {f \in Files : job[p].read[f] # Absent /\ CacheKey(p, f) \notin parsed}

CanReuse(p) ==
  /\ job[p].previous # NoGraph
  /\ job[p].previous.repository = RepositoryName(p)

\* Mutant: records are carried over for files that are no longer collected.
SymbolsOfMissingFiles(p, f) ==
  IF CanReuse(p) /\ f \notin Changed(p) /\ job[p].previous.symbols[f] # Absent
  THEN job[p].previous.symbols[f]
  ELSE Records(job[p].read[f])

\* build_inner: the records of an unchanged file come from the previous graph.
SymbolsOf(p, f) ==
  LET own == Records(job[p].read[f]) IN
  IF CanReuse(p) /\ f \notin Changed(p) /\ own # Absent
     /\ job[p].previous.symbols[f] # Absent
  THEN job[p].previous.symbols[f]
  ELSE own

BuildGraph(p) ==
  [repository |-> RepositoryName(p), revision |-> job[p].revision,
   symbols |-> [f \in Files |-> SymbolsOf(p, f)]]

\* Mutant: HEAD is not compared.
UpToDateOnAnyHead(state) ==
  graph # NoGraph /\ InGit /\ state # NoState /\ saved = state /\ ~newerManifest

\* commands/index.rs: the on-disk graph is reused when all three agree.
UpToDate(state) ==
  /\ graph # NoGraph
  /\ InGit /\ head = graph.revision
  /\ state # NoState /\ saved = state
  /\ ~newerManifest

(***************************************************************************)
(* The steps of one build, shared by the CLI and the MCP server.           *)
(***************************************************************************)
Goto(p, from, to) == pc[p] = from /\ pc' = [pc EXCEPT ![p] = to]

disk == <<graph, saved, parsed>>

\* Mutant: the manifest is not loaded.
SkipManifest(p) ==
  /\ Goto(p, "manifest", "revision")
  /\ UNCHANGED <<treeVars, disk, job, served, failures>>

LoadManifest(p) ==
  /\ Goto(p, "manifest", "revision")
  /\ job' = [job EXCEPT ![p].manifest = manifest]
  /\ UNCHANGED <<treeVars, disk, served, failures>>

ReadRevision(p) ==
  /\ Goto(p, "revision", IF p \in Servers THEN "stamp" ELSE "previous")
  /\ job' = [job EXCEPT ![p].revision = CurrentRevision]
  /\ UNCHANGED <<treeVars, disk, served, failures>>

LoadPrevious(p) ==
  /\ Goto(p, "previous", "read")
  /\ job' = [job EXCEPT ![p].previous = graph]
  /\ UNCHANGED <<treeVars, disk, served, failures>>

\* Mutant: excluded files are read.
ReadExcludedFile(p, f) ==
  /\ pc[p] = "read" /\ f \in job[p].unread
  /\ job' = [job EXCEPT ![p].unread = @ \ {f}, ![p].read[f] = tree[f]]
  /\ pc' = [pc EXCEPT ![p] = IF job'[p].unread = {} THEN "parse" ELSE "read"]
  /\ UNCHANGED <<treeVars, disk, served, failures>>

ReadFile(p, f) ==
  /\ pc[p] = "read" /\ f \in job[p].unread
  /\ job' = [job EXCEPT ![p].unread = @ \ {f},
                        ![p].read[f] = Visible(f, tree[f], job[p].manifest)]
  /\ pc' = [pc EXCEPT ![p] = IF job'[p].unread = {} THEN "parse" ELSE "read"]
  /\ UNCHANGED <<treeVars, disk, served, failures>>

\* Only a text that parses gets an entry, and a failed write is ignored.
Parse(p) ==
  /\ Goto(p, "parse", "built")
  /\ \E f \in Files : job[p].read[f] \notin Unparsable \cup {Absent}
  /\ \E stored \in SUBSET {f \in Changed(p) : job[p].read[f] \notin Unparsable} :
       parsed' = parsed \cup {CacheKey(p, f) : f \in stored}
  /\ job' = [job EXCEPT ![p].graph = BuildGraph(p)]
  /\ UNCHANGED <<treeVars, graph, saved, served, failures>>

Back(p) == IF p \in Servers /\ served[p].graph # NoGraph THEN "serving"
           ELSE IF p \in Servers THEN "off" ELSE "idle"

\* "no parseable Rust sources found": the run ends and saves nothing.
NothingParsed(p) ==
  /\ Goto(p, "parse", Back(p))
  /\ \A f \in Files : job[p].read[f] \in Unparsable \cup {Absent}
  /\ job' = [job EXCEPT ![p] = NoJob]
  /\ UNCHANGED <<treeVars, disk, served, failures>>

\* Any step may fail or the process may be killed; what is on disk stays.
Fail(p) ==
  /\ failures < MaxFailures
  /\ pc[p] \notin {"idle", "off", "serving"}
  /\ pc' = [pc EXCEPT ![p] = Back(p)]
  /\ job' = [job EXCEPT ![p] = NoJob]
  /\ failures' = failures + 1
  /\ UNCHANGED <<treeVars, disk, served>>

(***************************************************************************)
(* `tpt-weave index`.                                                      *)
(***************************************************************************)
StartIndex(i, full) ==
  /\ Goto(i, "idle", IF full THEN "manifest" ELSE "decide")
  /\ job' = [job EXCEPT ![i].full = full, ![i].state = WorktreeState]
  /\ UNCHANGED <<treeVars, disk, served, failures>>

ReportUpToDate(i) ==
  /\ UpToDate(job[i].state)
  /\ Goto(i, "decide", "idle")
  /\ job' = [job EXCEPT ![i] = NoJob]
  /\ UNCHANGED <<treeVars, disk, served, failures>>

DecideRebuild(i) ==
  /\ ~UpToDate(job[i].state)
  /\ Goto(i, "decide", "manifest")
  /\ UNCHANGED <<treeVars, disk, job, served, failures>>

\* fs::write truncates graph.json before it holds the new graph.
BeginSaveGraph(i) ==
  /\ i \in Indexers
  /\ Goto(i, "built", "saving")
  /\ graph' = NoGraph
  /\ newerManifest' = FALSE
  /\ UNCHANGED <<tree, manifest, commits, head, seen, seenManifests,
                 saved, parsed, job, served, failures>>

EndSaveGraph(i) ==
  /\ Goto(i, "saving", "state")
  /\ graph' = job[i].graph
  /\ newerManifest' = FALSE
  /\ UNCHANGED <<tree, manifest, commits, head, seen, seenManifests,
                 saved, parsed, job, served, failures>>

\* Mutant: the state recorded is that of the tree at the time of the save.
SaveLateState(i) ==
  /\ Goto(i, "state", "idle")
  /\ saved' = WorktreeState
  /\ job' = [job EXCEPT ![i] = NoJob]
  /\ UNCHANGED <<treeVars, graph, parsed, served, failures>>

\* Mutant: the state is not recorded.
SaveNoState(i) ==
  /\ Goto(i, "state", "idle")
  /\ job' = [job EXCEPT ![i] = NoJob]
  /\ UNCHANGED <<treeVars, disk, served, failures>>

SaveState(i) ==
  /\ Goto(i, "state", "idle")
  /\ saved' = job[i].state
  /\ job' = [job EXCEPT ![i] = NoJob]
  /\ UNCHANGED <<treeVars, graph, parsed, served, failures>>

(***************************************************************************)
(* The MCP server.                                                         *)
(***************************************************************************)
StartServer(s) ==
  /\ s \in Servers
  /\ Goto(s, "off", "manifest")
  /\ UNCHANGED <<treeVars, disk, job, served, failures>>

\* worktree_state of the server; outside git only the manifest is digested.
ServerState ==
  IF InGit THEN WorktreeState ELSE [manifest |-> manifest, diff |-> {}]

\* Mutant: the server records no state.
TakeNoState(s) ==
  /\ Goto(s, "stamp", "previous")
  /\ UNCHANGED <<treeVars, disk, job, served, failures>>

TakeState(s) ==
  /\ Goto(s, "stamp", "previous")
  /\ job' = [job EXCEPT ![s].state = ServerState]
  /\ UNCHANGED <<treeVars, disk, served, failures>>

Serve(s) ==
  /\ s \in Servers
  /\ Goto(s, "built", "serving")
  /\ served' = [served EXCEPT ![s] = [graph |-> job[s].graph, state |-> job[s].state]]
  /\ job' = [job EXCEPT ![s] = NoJob]
  /\ UNCHANGED <<treeVars, disk, failures>>

\* Mutant: only HEAD is compared.
FreshByHead(s) == pc[s] = "serving" /\ (InGit => head = served[s].graph.revision)

\* refresh_if_stale found nothing to do: the next tool call answers from memory.
Fresh(s) ==
  /\ pc[s] = "serving"
  /\ InGit => head = served[s].graph.revision /\ ServerState = served[s].state

\* A tool call on a stale workspace rebuilds first, under the server's lock.
Refresh(s) ==
  /\ ~Fresh(s)
  /\ Goto(s, "serving", "manifest")
  /\ UNCHANGED <<treeVars, disk, job, served, failures>>

StopServer(s) ==
  /\ Goto(s, "serving", "off")
  /\ served' = [served EXCEPT ![s] = Nothing]
  /\ UNCHANGED <<treeVars, disk, job, failures>>

BuildStep(p) ==
  \/ LoadManifest(p) \/ ReadRevision(p) \/ LoadPrevious(p)
  \/ \E f \in Files : ReadFile(p, f)
  \/ Parse(p) \/ NothingParsed(p)

IndexStep(i) ==
  \/ BuildStep(i)
  \/ ReportUpToDate(i) \/ DecideRebuild(i)
  \/ BeginSaveGraph(i) \/ EndSaveGraph(i) \/ SaveState(i)

ServerStep(s) ==
  BuildStep(s) \/ TakeState(s) \/ Serve(s) \/ Refresh(s)

Next ==
  \/ TreeNext /\ UNCHANGED <<disk, pc, job, served, failures>>
  \/ \E i \in Indexers : IndexStep(i) \/ \E full \in FullRuns : StartIndex(i, full)
  \/ \E s \in Servers : ServerStep(s) \/ StartServer(s) \/ StopServer(s)
  \/ \E p \in Processes : Fail(p)

Spec == Init /\ [][Next]_vars

(***************************************************************************)
(* Fairness: a run that was started goes on, and the commands and tool     *)
(* calls keep coming.  Nothing is assumed of edits, commits or failures.   *)
(***************************************************************************)
Fairness ==
  /\ \A i \in Indexers : WF_vars(IndexStep(i)) /\ WF_vars(StartIndex(i, FALSE))
  /\ \A s \in Servers : WF_vars(ServerStep(s))

LiveSpec == Spec /\ Fairness

(***************************************************************************)
(* Properties.                                                             *)
(***************************************************************************)
PastManifest == {"revision", "stamp", "previous", "read", "parse", "built",
                 "saving", "state"}

TypeOK ==
  /\ TreeTypeOK
  /\ graph \in Graph0
  /\ saved \in States
  /\ parsed \subseteq ParseKeys
  /\ pc \in [Processes -> {"idle", "off", "decide", "manifest", "revision", "stamp",
                           "previous", "read", "parse", "built", "saving", "state",
                           "serving"}]
  /\ job \in [Processes -> Jobs]
  /\ \A p \in Processes : pc[p] \in PastManifest => job[p].manifest \in Manifests
  /\ served \in [Servers -> [graph : Graph0, state : States]]
  /\ failures \in 0 .. MaxFailures

\* The symbols a build from nothing would extract right now.
ExactSymbols == [f \in Files |-> Records(Visible(f, tree[f], manifest))]

\* An index run started now and answering "index up to date" is right: the graph
\* it keeps holds exactly the symbols of the sources under the current manifest.
\* workspace.rs says of the recorded state that two graphs built from the same
\* HEAD with equal state were built from identical sources.
UpToDateIsExact == UpToDate(WorktreeState) => graph.symbols = ExactSymbols

\* A finished build describes the texts it read, also where it took the records
\* of a file from the previous graph (build_inner).
NoStaleRecords ==
  \A p \in Processes : pc[p] \in {"built", "saving", "state"} =>
    \A f \in Files : job[p].graph.symbols[f] = Records(job[p].read[f])

\* A tool call that refresh_if_stale lets through unrefreshed is answered from a
\* graph of the current sources under the current manifest.
ServedIsExact == \A s \in Servers : Fresh(s) => served[s].graph.symbols = ExactSymbols

\* A graph holds no record of a file that the manifest it was built under excludes,
\* whatever graph its records were reused from (collect_rust_files, build_inner).
ExcludedStayOut ==
  \A p \in Processes : pc[p] \in {"built", "saving", "state"} =>
    \A f \in Excludes[job[p].manifest] : job[p].graph.symbols[f] = Absent

\* Workspace::load_index, run now, accepts graph.json.
QueryAccepts ==
  graph # NoGraph /\ ~newerManifest /\ (InGit => head = graph.revision)

\* A query command answers from no file the manifest excludes (load_index refuses a
\* graph the manifest is newer than).
QueryHonoursManifest ==
  QueryAccepts => \A f \in Excludes[manifest] : graph.symbols[f] = Absent

\* Some source can be indexed under the current manifest.
Indexable == \E f \in Files : Visible(f, tree[f], manifest) \notin Unparsable \cup {Absent}

\* From some point on nobody touches the sources, the manifest or HEAD.
EditsStop == <>[][UNCHANGED <<tree, manifest, commits, head>>]_vars

\* ... and runs are no longer forced to rebuild by --full.
FullRunsStop == <>[](\A i \in Indexers : ~job[i].full)

\* Once edits and failures stop, `index` stops rebuilding: later runs answer
\* "up to date" (the recorded state and graph.json come to agree for good).
IndexSettles ==
  EditsStop /\ FullRunsStop => <>[](Indexable => UpToDate(WorktreeState))

\* Once edits and failures stop, a server that is called serves without rebuilding.
ServerSettles ==
  EditsStop => <>[](Indexable => \A s \in Servers : pc[s] = "serving" => Fresh(s))
============================================================================
