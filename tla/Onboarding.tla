----------------------------- MODULE Onboarding -----------------------------
(***************************************************************************)
(* The commands of tpt-weave-cli that set a repository up and say whether  *)
(* it is in order: `init`, `index`, `adopt`, `doctor`, and `query` for     *)
(* those that only load the index.  Processes run them side by side over   *)
(* the files of one repository, people edit those files and commit, and a  *)
(* process may be killed between any two steps.                            *)
(*                                                                         *)
(* Sources are left out (IndexLifecycle is about them): whether they are   *)
(* what the last index saw is a choice of UpToDate.  A file that is        *)
(* written is empty between its truncation and its contents.  The package  *)
(* metadata is taken to load.                                              *)
(***************************************************************************)
EXTENDS Integers, Sequences, FiniteSets, SequencesExt

CONSTANTS
  Procs,     \* the processes
  Heads,     \* what HEAD may be at first: -1 outside git, 0 without a commit, a commit
  Ignores,   \* what .gitignore may hold at first
  MaxStarts, \* bound: commands started
  MaxEdits,  \* bound: edits and commits
  MaxKills   \* bound: processes killed

\* The lines of .gitignore: those `init` adds, and a person's.
Entries == <<"comment", "entry">>
Lines   == ToSet(Entries) \cup {"user"}

\* How often a line is in a file.
Times(l, lines) == Cardinality({i \in DOMAIN lines : lines[i] = l})

ASSUME OnboardingAssumption ==
  /\ Heads \subseteq Int /\ Heads # {} /\ \A h \in Heads : h >= -1
  /\ Ignores \subseteq Seq(Lines) /\ Ignores # {}
  /\ {MaxStarts, MaxEdits, MaxKills} \subseteq Nat

\* What a manifest can be: the one `init` writes, a person's, a person's that
\* decides remotely without its key in the environment, one that does not load.
Manifests == {"absent", "default", "custom", "keyless", "broken"}
Commands  == {"init", "force", "index", "full", "adopt", "doctor", "query"}
Indexing  == {"index", "full", "adopt"}

VARIABLES
  manifest, \* manifest.toml
  ignore,   \* .gitignore
  graph,    \* graph.json: absent, torn, of an old schema, or good; and its revision
  newer,    \* manifest.toml was modified after graph.json
  saved,    \* the manifest that worktree-state was taken with, or "none"
  report,   \* whether baseline-report.json exists
  registry, \* registry.json: broken, or valid or absent
  head,     \* HEAD
  cmd,      \* the command each process runs or ran last
  pc,       \* where it is in it
  text,     \* the .gitignore it is going to write
  seen,     \* the manifest its working-tree state was taken with
  at,       \* the revision its build read
  exit,     \* its exit code; -1 before, 9 when it was killed
  moved,    \* whether another changed a file since its command began
  starts, edits, kills,
  own,      \* history: the manifest people last wrote, and their lines of .gitignore
  raced     \* history: a process wrote after others had changed a file, or was killed

files   == <<manifest, ignore, graph, newer, saved, report, registry, head>>
process == <<cmd, pc, text, seen, at, exit>>
bounds  == <<starts, edits, kills>>
vars    == <<files, process, moved, bounds, own, raced>>

Init ==
  /\ manifest \in {"absent", "custom"} /\ ignore \in Ignores
  /\ graph \in [is : {"absent", "old"}, head : {-1}]
  /\ newer = FALSE /\ saved = "none" /\ report = FALSE
  /\ registry = "ok" /\ head \in Heads
  /\ cmd = [p \in Procs |-> "none"] /\ pc = [p \in Procs |-> "idle"]
  /\ text = [p \in Procs |-> <<>>] /\ seen = [p \in Procs |-> "none"]
  /\ at = [p \in Procs |-> -1] /\ exit = [p \in Procs |-> -1]
  /\ moved = [p \in Procs |-> FALSE]
  /\ starts = 0 /\ edits = 0 /\ kills = 0
  /\ own = [manifest |-> manifest, lines |-> [l \in Lines |-> Times(l, ignore)]]
  /\ raced = FALSE

-----------------------------------------------------------------------------
(* What the repository is worth to the commands that load it.              *)

Loads == manifest # "broken"

\* load_index: the first check that fails decides.  Outside git and without
\* a commit there is no HEAD to compare.
LoadCode ==
  IF manifest = "broken" THEN 1
  ELSE IF graph.is = "absent" \/ newer THEN 4
  ELSE IF graph.is = "torn" THEN 1
  ELSE IF graph.is = "old" THEN 4
  ELSE IF head > 0 /\ head # graph.head THEN 4
  ELSE IF registry = "broken" THEN 1
  ELSE 0

\* The checks of `doctor`, each with the code it fails with or 0.
ManifestCheck == IF manifest \in {"absent", "broken"} THEN 3 ELSE 0
GitCheck      == IF head = 0 THEN 1 ELSE 0

\* Mutant of IndexCheck: an index that is there is taken for fresh.
IndexExists   == IF graph.is = "absent" THEN 4 ELSE 0

IndexCheck    == IF graph.is # "good" THEN 4
                 ELSE IF head = 0 THEN 1
                 ELSE IF head > 0 /\ head # graph.head THEN 4
                 ELSE 0
ProviderCheck == CASE manifest \in {"absent", "broken"} -> 3
                   [] manifest = "keyless"              -> 1
                   [] OTHER                             -> 0

\* The worst failure: not found before stale before internal.
DoctorCode ==
  LET codes == {ManifestCheck, GitCheck, IndexCheck, ProviderCheck}
  IN IF 3 \in codes THEN 3 ELSE IF 4 \in codes THEN 4 ELSE IF 1 \in codes THEN 1 ELSE 0

-----------------------------------------------------------------------------
(* The steps of a command.                                                 *)

Goto(p, l) == pc' = [pc EXCEPT ![p] = l] /\ UNCHANGED <<cmd, exit>>
Exit(p, c) == /\ pc' = [pc EXCEPT ![p] = "idle"] /\ exit' = [exit EXCEPT ![p] = c]
              /\ UNCHANGED cmd

\* A step that writes nothing, and one that leaves the process its memory.
Reads      == UNCHANGED <<files, own>>
Remembers  == UNCHANGED <<text, seen, at>>
WriteManifest(m) == manifest' = m /\ newer' = (graph.is # "absent")
WriteGraph(g)    == graph' = g /\ newer' = FALSE

\* Where `init` ends and `adopt` goes on.
AfterInit(p) == IF cmd[p] = "adopt" THEN Goto(p, "state") ELSE Exit(p, 0)

\* Mutant of CheckManifest: a manifest that loads is all `init` is for.
StopAtManifest(p) ==
  /\ pc[p] = "init"
  /\ \/ (manifest = "absent" \/ cmd[p] = "force") /\ Goto(p, "manifest")
     \/ manifest # "absent" /\ cmd[p] # "force" /\ Loads /\ AfterInit(p)
     \/ manifest # "absent" /\ cmd[p] # "force" /\ ~Loads /\ Exit(p, 1)
  /\ Reads /\ Remembers

\* init::run looks for the manifest, loads it or goes on to write one.
CheckManifest(p) ==
  /\ pc[p] = "init"
  /\ \/ (manifest = "absent" \/ cmd[p] = "force") /\ Goto(p, "manifest")
     \/ manifest # "absent" /\ cmd[p] # "force" /\ Loads /\ Goto(p, "ignore")
     \/ manifest # "absent" /\ cmd[p] # "force" /\ ~Loads /\ Exit(p, 1)
  /\ Reads /\ Remembers

TruncateManifest(p) ==
  /\ pc[p] = "manifest" /\ Goto(p, "torn manifest")
  /\ WriteManifest("broken")
  /\ own' = IF cmd[p] = "force" THEN [own EXCEPT !.manifest = "default"] ELSE own
  /\ UNCHANGED <<ignore, graph, saved, report, registry, head>> /\ Remembers

SaveManifest(p) ==
  /\ pc[p] = "torn manifest" /\ Goto(p, "ignore")
  /\ WriteManifest("default")
  /\ UNCHANGED <<ignore, graph, saved, report, registry, head, own>> /\ Remembers

Missing(lines) ==
  LET Wanted(e) == IF e \in ToSet(lines) THEN <<>> ELSE <<e>>
  IN Wanted("comment") \o Wanted("entry")

\* Mutant of ReadIgnore: the lines are appended to a fresh file.
ReadNothing(p) ==
  /\ pc[p] = "ignore"
  /\ IF Missing(ignore) = <<>> THEN AfterInit(p) /\ UNCHANGED text
     ELSE Goto(p, "write ignore") /\ text' = [text EXCEPT ![p] = Missing(ignore)]
  /\ Reads /\ UNCHANGED <<seen, at>>

\* ensure_gitignore: the file is written as a whole, if a line is missing.
ReadIgnore(p) ==
  /\ pc[p] = "ignore"
  /\ IF Missing(ignore) = <<>> THEN AfterInit(p) /\ UNCHANGED text
     ELSE Goto(p, "write ignore") /\ text' = [text EXCEPT ![p] = ignore \o Missing(ignore)]
  /\ Reads /\ UNCHANGED <<seen, at>>

TruncateIgnore(p) ==
  /\ pc[p] = "write ignore" /\ Goto(p, "torn ignore")
  /\ ignore' = <<>>
  /\ UNCHANGED <<manifest, graph, newer, saved, report, registry, head, own>> /\ Remembers

\* What another process wrote since the truncation stays behind this one's lines.
SaveIgnore(p) ==
  /\ pc[p] = "torn ignore" /\ AfterInit(p)
  /\ ignore' = text[p] \o SubSeq(ignore, Len(text[p]) + 1, Len(ignore))
  /\ text' = [text EXCEPT ![p] = <<>>]
  /\ UNCHANGED <<manifest, graph, newer, saved, report, registry, head, own, seen, at>>

\* index::run takes the working-tree state; there is none outside git.
Now == IF head >= 0 THEN manifest ELSE "none"

\* Mutant of UpToDate: a graph of another revision will do.
UpToDateAtAnyHead(p) == /\ cmd[p] = "index"
                        /\ graph.is = "good" /\ head > 0
                        /\ saved = manifest /\ ~newer

UpToDate(p) == /\ cmd[p] = "index"
               /\ graph.is = "good" /\ head > 0 /\ head = graph.head
               /\ saved = manifest /\ ~newer

TakeState(p) ==
  /\ pc[p] = "state"
  /\ \/ UpToDate(p) /\ Exit(p, 0)
        /\ UNCHANGED seen
     \/ /\ Goto(p, "build") \* the sources may have changed
        /\ seen' = [seen EXCEPT ![p] = Now]
  /\ Reads /\ UNCHANGED <<text, at>>

LoadManifest(p) ==
  /\ pc[p] = "build"
  /\ IF Loads THEN Goto(p, "revision") ELSE Exit(p, 1)
  /\ Reads /\ Remembers

\* The revision, and then the registry.
ReadRevision(p) ==
  /\ pc[p] = "revision"
  /\ IF head = 0 \/ registry = "broken" THEN Exit(p, 1) /\ UNCHANGED at
     ELSE Goto(p, "save") /\ at' = [at EXCEPT ![p] = head]
  /\ Reads /\ UNCHANGED <<text, seen>>

TruncateGraph(p) ==
  /\ pc[p] = "save" /\ Goto(p, "torn graph")
  /\ WriteGraph([is |-> "torn", head |-> -1])
  /\ UNCHANGED <<manifest, ignore, saved, report, registry, head, own>> /\ Remembers

SaveGraph(p) ==
  /\ pc[p] = "torn graph" /\ Goto(p, "save state")
  /\ WriteGraph([is |-> "good", head |-> at[p]])
  /\ UNCHANGED <<manifest, ignore, saved, report, registry, head, own>> /\ Remembers

SaveState(p) ==
  /\ pc[p] = "save state"
  /\ IF cmd[p] = "adopt" THEN Goto(p, "register") ELSE Exit(p, 0)
  /\ saved' = seen[p] /\ seen' = [seen EXCEPT ![p] = "none"] /\ at' = [at EXCEPT ![p] = -1]
  /\ UNCHANGED <<manifest, ignore, graph, newer, report, registry, head, own, text>>

\* Mutant of Register: a graph that does not load is a usage error.
RegisterOrUsage(p) ==
  /\ pc[p] = "register"
  /\ IF graph.is = "good" THEN Goto(p, "benchmark") ELSE Exit(p, 2)
  /\ Reads /\ Remembers

\* adopt::register reads the graph back.
Register(p) ==
  /\ pc[p] = "register"
  /\ CASE graph.is \in {"absent", "old"} -> Exit(p, 4)
       [] graph.is = "torn"              -> Exit(p, 1)
       [] graph.is = "good"              -> Goto(p, "benchmark")
  /\ Reads /\ Remembers

Benchmark(p) ==
  /\ pc[p] = "benchmark"
  /\ IF LoadCode = 0 THEN Goto(p, "doctor") /\ report' = TRUE
     ELSE Exit(p, LoadCode) /\ UNCHANGED report
  /\ UNCHANGED <<manifest, ignore, graph, newer, saved, registry, head, own>> /\ Remembers

Doctor(p) == pc[p] = "doctor" /\ Exit(p, DoctorCode) /\ Reads /\ Remembers
Query(p)  == pc[p] = "query" /\ Exit(p, LoadCode) /\ Reads /\ Remembers

\* Where a process writes a file.
Writing == {"manifest", "torn manifest", "write ignore", "torn ignore", "save", "torn graph",
            "save state"}

FirstStep(c) == CASE c \in {"init", "force", "adopt"} -> "init"
                  [] c \in {"index", "full"}          -> "state"
                  [] OTHER                            -> c

InitStep(p)  == \/ CheckManifest(p) \/ TruncateManifest(p) \/ SaveManifest(p)
                \/ ReadIgnore(p) \/ TruncateIgnore(p) \/ SaveIgnore(p)
IndexStep(p) == \/ TakeState(p) \/ LoadManifest(p) \/ ReadRevision(p)
                \/ TruncateGraph(p) \/ SaveGraph(p) \/ SaveState(p)
AdoptStep(p) == Register(p) \/ Benchmark(p)
Step(p)      == InitStep(p) \/ IndexStep(p) \/ AdoptStep(p) \/ Doctor(p) \/ Query(p)

-----------------------------------------------------------------------------
(* People, the operating system, and all together.                         *)

\* A change of a file is a disturbance to every process but its author.
Disturb(others) ==
  IF files' = files THEN UNCHANGED moved
  ELSE moved' = [p \in Procs |-> moved[p] \/ p \in others]

ProcessStep(p) ==
  /\ Step(p) /\ Disturb(Procs \ {p})
  /\ raced' = (raced \/ (moved[p] /\ pc[p] \in Writing))
  /\ UNCHANGED bounds

Start(p) ==
  /\ pc[p] = "idle" /\ starts < MaxStarts /\ starts' = starts + 1
  /\ \E c \in Commands : /\ cmd' = [cmd EXCEPT ![p] = c]
                         /\ pc' = [pc EXCEPT ![p] = FirstStep(c)]
  /\ exit' = [exit EXCEPT ![p] = -1] /\ moved' = [moved EXCEPT ![p] = FALSE]
  /\ Reads /\ Remembers /\ UNCHANGED <<edits, kills, raced>>

Kill(p) ==
  /\ pc[p] # "idle" /\ kills < MaxKills /\ kills' = kills + 1
  /\ Exit(p, 9) /\ raced' = TRUE
  /\ text' = [text EXCEPT ![p] = <<>>] /\ seen' = [seen EXCEPT ![p] = "none"]
  /\ at' = [at EXCEPT ![p] = -1]
  /\ Reads /\ UNCHANGED <<moved, starts, edits>>

Edit ==
  /\ edits < MaxEdits /\ edits' = edits + 1
  /\ \/ /\ \E m \in {"custom", "keyless", "broken"} \ {manifest} :
             WriteManifest(m) /\ own' = [own EXCEPT !.manifest = m]
        /\ UNCHANGED <<ignore, registry, head>>
     \/ /\ ignore' = Append(ignore, "user") /\ own' = [own EXCEPT !.lines["user"] = @ + 1]
        /\ UNCHANGED <<manifest, newer, registry, head>>
     \/ /\ registry' \in {"ok", "broken"} \ {registry}
        /\ UNCHANGED <<manifest, newer, ignore, head, own>>
     \/ /\ head >= 0 /\ head' = head + 1
        /\ UNCHANGED <<manifest, newer, ignore, registry, own>>
  /\ UNCHANGED <<graph, saved, report, process, starts, kills, raced>>
  /\ Disturb(Procs)

Next == Edit \/ \E p \in Procs : Start(p) \/ ProcessStep(p) \/ Kill(p)

Spec == Init /\ [][Next]_vars

-----------------------------------------------------------------------------
Places == {"idle", "init", "manifest", "torn manifest", "ignore", "write ignore", "torn ignore",
           "state", "build", "revision", "save", "torn graph", "save state",
           "register", "benchmark", "doctor", "query"}

(* Type correctness. *)
TypeOK ==
  /\ manifest \in Manifests /\ ignore \in Seq(Lines)
  /\ graph \in [is : {"absent", "torn", "old", "good"}, head : Int]
  /\ {newer, report, raced} \subseteq BOOLEAN
  /\ saved \in Manifests \cup {"none"}
  /\ registry \in {"ok", "broken"} /\ head \in Int
  /\ cmd \in [Procs -> Commands \cup {"none"}]
  /\ pc \in [Procs -> Places]
  /\ text \in [Procs -> Seq(Lines)] /\ seen \in [Procs -> Manifests \cup {"none"}]
  /\ at \in [Procs -> Int] /\ exit \in [Procs -> {-1, 0, 1, 3, 4, 9}]
  /\ moved \in [Procs -> BOOLEAN]
  /\ own \in [manifest : Manifests, lines : [Lines -> Nat]]
  /\ {starts, edits, kills} \subseteq Nat

\* The command of p ran to its end and nobody else has changed a file since it began.
Alone(p) == pc[p] = "idle" /\ ~moved[p] /\ exit[p] \in {0, 1, 3, 4}

(* What keeps `adopt` from succeeding is outside its reach. *)
Blocked == manifest \in {"broken", "keyless"} \/ registry = "broken" \/ head = 0

(* Whatever killed or outdated commands left behind, an `adopt` that runs  *)
(* alone fails only for what it cannot mend, and otherwise leaves a        *)
(* repository that `doctor` and every query accept, with .tpt-weave        *)
(* ignored and a baseline report.                                          *)
AdoptRepairs ==
  \A p \in Procs : Alone(p) /\ cmd[p] = "adopt" =>
    /\ exit[p] = 0 <=> ~Blocked
    /\ exit[p] = 0 => /\ DoctorCode = 0 /\ LoadCode = 0 /\ report
                      /\ Missing(ignore) = <<>>

(* An `index` that runs alone and exits 0, rebuilt or not, leaves an index *)
(* that queries accept, if they can read the manifest and the registry.    *)
IndexRepairs ==
  \A p \in Procs : Alone(p) /\ cmd[p] \in {"index", "full"} /\ exit[p] = 0 =>
    (Loads /\ registry # "broken" => LoadCode = 0)

(* The checks of `doctor` are enough for load_index but for two it does    *)
(* not make: the age of the manifest and the registry.                     *)
DoctorVouches == DoctorCode = 0 /\ ~newer /\ registry # "broken" => LoadCode = 0

(* The manifest is the one people last wrote, if they wrote one, and each  *)
(* line is in the file as often as they wrote it, but for the lines `init` *)
(* adds once.                                                              *)
ManifestKept == own.manifest \in {"absent", "default"} \/ manifest = own.manifest

LinesKept(lines) ==
  \A l \in Lines : \/ Times(l, lines) = own.lines[l]
                   \/ l \in ToSet(Entries) /\ own.lines[l] = 0 /\ Times(l, lines) = 1

(* Unless commands raced with others or were killed, no command but        *)
(* `init --force` takes from people a line of .gitignore or a manifest,    *)
(* and none adds its own lines twice.                                      *)
WorkIsKept ==
  ~raced /\ (\A p \in Procs : pc[p] \notin {"torn manifest", "torn ignore"}) =>
    ManifestKept /\ LinesKept(ignore)
=============================================================================
