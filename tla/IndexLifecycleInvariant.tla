----------------------- MODULE IndexLifecycleInvariant -----------------------
(***************************************************************************)
(* Why "index up to date" can be trusted, where it can: one indexer in a   *)
(* git repository, no run that dies, no text or manifest that comes back,  *)
(* no ignored source, and no MCP server under the same repository name.    *)
(*                                                                         *)
(* The argument is that a text the indexer missed is a new text.  New      *)
(* texts are not in the parse cache, not in any commit made before, and    *)
(* not in any recorded working-tree state; so they are reparsed, and the   *)
(* graph that misses them is recognised as out of date.                    *)
(***************************************************************************)
EXTENDS IndexLifecycle

LoneIndexer ==
  /\ InGit /\ ~Revisiting /\ Ignored = {} /\ MaxFailures = 0
  /\ \E w \in Indexers : Indexers = {w}
  /\ Servers = {} \/ \A m \in Manifests : RepoName[m] # DirName

WriterNames == {RepoName[m] : m \in Manifests}

BeforeReading == {"idle", "decide", "manifest", "revision", "previous"}
HasState      == {"decide", "manifest", "revision", "previous", "read", "parse",
                  "built", "saving", "state"}
HasManifest   == {"revision", "previous", "read", "parse", "built", "saving", "state"}
HasRevision   == {"previous", "read", "parse", "built", "saving", "state"}
Built         == {"built", "saving", "state"}

\* Everything recorded anywhere was in the tree, or in the manifest, at some time.
StateSeen(st) ==
  st # NoState => /\ st.manifest \in seenManifests
                  /\ \A x \in st.diff : <<x[1], x[3]>> \in seen

HistoryComplete ==
  /\ \A f \in Files : <<f, tree[f]>> \in seen
  /\ \A c \in DOMAIN commits, f \in Files : <<f, commits[c][f]>> \in seen
  /\ head = Len(commits)
  /\ manifest \in seenManifests

AllSeen ==
  /\ HistoryComplete
  /\ \A k \in parsed : <<k[2], k[3]>> \in seen
  /\ StateSeen(saved)
  /\ \A w \in Indexers : StateSeen(job[w].state)
  /\ \A p \in Processes, f \in Files :
       job[p].read[f] = Absent \/ <<f, job[p].read[f]>> \in seen

\* How the local variables of the indexer relate to where it is.
JobConsistent(w) ==
  /\ pc[w] \in HasState \cup {"idle"}
  /\ pc[w] \in HasState => job[w].state \in TakenStates
  /\ pc[w] \in BeforeReading => job[w].unread = Files
  /\ pc[w] \in HasManifest => job[w].manifest \in Manifests
  /\ pc[w] \in HasRevision => job[w].revision \in DOMAIN commits
  /\ pc[w] \in {"read", "parse"} => job[w].previous = graph
  /\ pc[w] \in {"parse"} \cup Built => job[w].unread = {}
  /\ pc[w] \in Built =>
       /\ job[w].graph \in Graphs
       /\ job[w].graph.revision = job[w].revision
       /\ job[w].graph.repository = RepoName[job[w].manifest]
       /\ \A f \in Files : job[w].graph.symbols[f] = Records(job[w].read[f])
  /\ pc[w] = "saving" => graph = NoGraph
  /\ pc[w] = "state" => graph = job[w].graph
  /\ graph # NoGraph => graph.revision \in DOMAIN commits /\ graph.repository \in WriterNames

\* Since state st and commit rev were recorded, f has moved on to a text that
\* neither holds, or the manifest to one that st does not hold.
MovedOn(f, st, rev) ==
  st # NoState =>
    \/ manifest # st.manifest
    \/ /\ tree[f] # commits[rev][f]
       /\ \A x \in st.diff : ~(x[1] = f /\ x[3] = tree[f])

ManifestFollowed(w) ==
  pc[w] \in HasManifest =>
    \/ job[w].manifest = manifest
    \/ /\ manifest # job[w].state.manifest
       /\ saved # NoState => manifest # saved.manifest

WasRead(w, f) == pc[w] \in HasRevision /\ f \notin job[w].unread

ReadFollowed(w) ==
  \A f \in Files : WasRead(w, f) =>
    \/ job[w].read[f] = Visible(f, tree[f], manifest)
    \/ MovedOn(f, job[w].state, job[w].revision) /\ MovedOn(f, saved, job[w].revision)

\* A text the indexer missed has no cache entry, so the next run reparses it.
MissedIsUncached(w) ==
  \A f \in Files : WasRead(w, f) =>
    \/ job[w].read[f] = Visible(f, tree[f], job[w].manifest)
    \/ /\ f \notin Excludes[job[w].manifest]
       /\ \A n \in WriterNames : <<n, f, tree[f]>> \notin parsed

\* A cached text of a file is the one the on-disk graph has its records from.
Agrees(g, f, t) ==
  g # NoGraph /\ <<g.repository, f, t>> \in parsed /\ g.symbols[f] # Absent
    => g.symbols[f] = Records(t)

CacheAgrees(w) ==
  /\ pc[w] # "built" => \A f \in Files : Agrees(graph, f, tree[f])
  /\ pc[w] \in {"read", "parse"} =>
       \A f \in Files \ job[w].unread :
         job[w].read[f] # Absent => Agrees(job[w].previous, f, job[w].read[f])

\* Where the on-disk graph is wrong, the recorded state and revision tell.
GraphFollowed(w) ==
  pc[w] # "state" /\ graph # NoGraph =>
    \A f \in Files :
      \/ graph.symbols[f] = Records(Visible(f, tree[f], manifest))
      \/ MovedOn(f, saved, graph.revision)

\* What ties the indexer to the repository and to the saved graph.
IndexerInv(w) ==
  /\ JobConsistent(w) /\ ManifestFollowed(w) /\ ReadFollowed(w)
  /\ MissedIsUncached(w) /\ CacheAgrees(w) /\ GraphFollowed(w)

\* A server never reuses records: graph.json bears a name that is not its own.
ServerInv(s) ==
  /\ pc[s] \notin {"saving", "state"}
  /\ job[s].previous # NoGraph => job[s].previous.repository \in WriterNames
  /\ pc[s] = "built" =>
       \A f \in Files : job[s].graph.symbols[f] = Records(job[s].read[f])

IInv ==
  /\ TypeOK
  /\ AllSeen
  /\ \A w \in Indexers : IndexerInv(w)
  /\ \A s \in Servers : ServerInv(s)

(***************************************************************************)
(* Why what an MCP server answers from memory can be trusted, where it     *)
(* can: in a git repository where no text comes back and no source is      *)
(* ignored, under manifests that exclude the same files, and where nobody  *)
(* saves a graph under the server's own name.  Any number of servers and   *)
(* indexers may run, and any of them may die.                              *)
(*                                                                         *)
(* A server takes the revision first, then the state, and reads the files  *)
(* last, so a text it missed is in neither, and its graph is stale.        *)
(***************************************************************************)
ServerKeepsUp ==
  /\ InGit /\ ~Revisiting /\ Ignored = {}
  /\ Indexers = {} \/ \A m \in Manifests : RepoName[m] # DirName
  /\ \A m, n \in Manifests : Excludes[m] = Excludes[n]

Stamped == {"previous", "read", "parse", "built"}

\* No graph that a server could take records from.
Foreign(g) == g # NoGraph => g.repository # DirName

\* A state and a revision taken from the repository at some time.
Recorded(st, rev) == st \in TakenStates /\ StateSeen(st) /\ rev \in DOMAIN commits

\* What is left of f in `text` is what a build would read now, or f has moved on.
Follows(f, text, st, rev) == text = Visible(f, tree[f], manifest) \/ MovedOn(f, st, rev)

ServerJob(s) ==
  /\ pc[s] \in {"off", "manifest", "revision", "stamp", "serving"} \cup Stamped
  /\ pc[s] \in {"off", "manifest", "revision", "stamp", "serving", "previous"} =>
       job[s].unread = Files
  /\ pc[s] = "stamp" => job[s].revision \in DOMAIN commits
  /\ pc[s] \in {"parse", "built"} => job[s].unread = {}
  /\ Foreign(job[s].previous)
  /\ pc[s] \in Stamped =>
       /\ Recorded(job[s].state, job[s].revision)
       /\ \A f \in Files \ job[s].unread :
            Follows(f, job[s].read[f], job[s].state, job[s].revision)
  /\ pc[s] = "built" =>
       /\ job[s].graph \in Graphs /\ job[s].graph.revision = job[s].revision
       /\ \A f \in Files : job[s].graph.symbols[f] = Records(job[s].read[f])

ServedFollowed(s) ==
  /\ pc[s] = "serving" => served[s].graph # NoGraph
  /\ served[s].graph # NoGraph =>
       /\ Recorded(served[s].state, served[s].graph.revision)
       /\ \A f \in Files :
            \/ served[s].graph.symbols[f] = Records(Visible(f, tree[f], manifest))
            \/ MovedOn(f, served[s].state, served[s].graph.revision)

ServedInv ==
  /\ TypeOK
  /\ HistoryComplete
  /\ Foreign(graph)
  /\ \A i \in Indexers : pc[i] \in Built => Foreign(job[i].graph)
  /\ \A s \in Servers : ServerJob(s) /\ ServedFollowed(s)
============================================================================
