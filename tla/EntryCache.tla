----------------------------- MODULE EntryCache -----------------------------
(***************************************************************************)
(* tpt-weave-cache: a directory of JSON files, one for each digest of a    *)
(* key, that processes read, write and sweep without a lock.  A process    *)
(* may be killed between any two steps.                                    *)
(*                                                                         *)
(* Writing truncates the file first.  A handle that is open when its file  *)
(* is removed writes into a file without a name, and one that is not the   *)
(* only writer leaves what the longer of the two put there.                *)
(***************************************************************************)
EXTENDS Naturals, FiniteSets, Functions

CONSTANTS
  Procs,
  Keys,      \* records [schema, revision, kind, query]; revision "none": of no revision
  Digest,    \* the digest of each key; unequal keys may share one
  Values,
  Schema,    \* the schema of this program
  Revisions, \* the revisions a sweep may keep
  Foreign,   \* the entries older programs left
  MaxCalls,  \* bound: calls of all processes
  Absent, Torn, Nothing

PathFor(k) == <<k.kind, Digest[k]>>
Paths   == {PathFor(k) : k \in Keys}
Entries == [key : Keys, value : Values]

\* What the instances assume.
EntryCacheAssumption ==
  /\ Foreign \subseteq Entries
  /\ MaxCalls \in Nat
  /\ Absent # Torn /\ Absent \notin Entries /\ Torn \notin Entries
  /\ Nothing \notin Keys /\ Nothing \notin Revisions /\ Nothing \notin Values

VARIABLES
  file,    \* what each path holds
  pc,      \* where each process is
  key,     \* the key it gets or puts
  value,   \* the value it puts, and the one a get returned
  buffer,  \* what it read
  named,   \* whether the file it writes still has its name
  alone,   \* whether it is the only one to write that file
  keep,    \* the revision its sweep keeps; Nothing: a clear
  todo,    \* the paths its sweep has not looked at
  at,      \* the path it looks at
  calls,
  puts,    \* history: what was ever put
  clean    \* history: no put since the sweep of the process began

sweeping == <<keep, todo, at>>
vars == <<file, pc, key, value, buffer, named, alone, sweeping, calls, puts, clean>>

Present == {f \in Paths : file[f] # Absent}

Init ==
  /\ file \in {g \in [Paths -> {Absent} \cup Foreign] :
                 \A f \in Paths : g[f] # Absent => PathFor(g[f].key) = f}
  /\ pc = [p \in Procs |-> "idle"]
  /\ key = [p \in Procs |-> Nothing] /\ value = [p \in Procs |-> Nothing]
  /\ buffer = [p \in Procs |-> Absent]
  /\ named = [p \in Procs |-> FALSE] /\ alone = [p \in Procs |-> FALSE]
  /\ keep = [p \in Procs |-> Nothing] /\ todo = [p \in Procs |-> {}]
  /\ at = [p \in Procs |-> Nothing]
  /\ calls = 0 /\ puts = Foreign /\ clean = [p \in Procs |-> FALSE]

Begin(p) == pc[p] = "idle" /\ calls < MaxCalls /\ calls' = calls + 1
Goto(p, l) == pc' = [pc EXCEPT ![p] = l]

\* Unlinking a file: whoever has it open goes on writing it without a name.
Remove(f) ==
  /\ file' = [file EXCEPT ![f] = Absent]
  /\ named' = [q \in Procs |-> named[q] /\ ~(pc[q] = "write" /\ PathFor(key[q]) = f)]

-----------------------------------------------------------------------------
(* FilesystemCache::get reads the file in whole and then judges it.        *)

Get(p) ==
  /\ Begin(p) /\ Goto(p, "judge")
  /\ \E k \in Keys : /\ key' = [key EXCEPT ![p] = k]
                     /\ buffer' = [buffer EXCEPT ![p] = file[PathFor(k)]]
  /\ value' = [value EXCEPT ![p] = Nothing]
  /\ UNCHANGED <<file, named, alone, sweeping, puts, clean>>

IsEntry(b) == b \notin {Absent, Torn}

\* Mutant of Matches: the digest is taken to tell keys apart.
IsEntryAtAll(p) == IsEntry(buffer[p])

Matches(p) == IsEntry(buffer[p]) /\ buffer[p].key = key[p]

Hit(p) ==
  /\ pc[p] = "judge" /\ Matches(p) /\ Goto(p, "idle")
  /\ value' = [value EXCEPT ![p] = buffer[p].value]
  /\ UNCHANGED <<file, key, buffer, named, alone, sweeping, calls, puts, clean>>

\* What cannot be used is removed: the file that is there by now.
Miss(p) ==
  /\ pc[p] = "judge" /\ ~Matches(p) /\ Goto(p, "idle")
  /\ IF buffer[p] = Absent THEN UNCHANGED <<file, named>> ELSE Remove(PathFor(key[p]))
  /\ UNCHANGED <<key, value, buffer, alone, sweeping, calls, puts, clean>>

-----------------------------------------------------------------------------
(* FilesystemCache::put.                                                   *)

Writers(f) == {q \in Procs : pc[q] = "write" /\ named[q] /\ PathFor(key[q]) = f}

OpenForPut(p) ==
  /\ Begin(p) /\ Goto(p, "write")
  /\ \E k \in {j \in Keys : j.schema = Schema}, v \in Values :
       LET f == PathFor(k) IN
         /\ key' = [key EXCEPT ![p] = k] /\ value' = [value EXCEPT ![p] = v]
         /\ file' = [file EXCEPT ![f] = Torn]
         /\ alone' = [q \in Procs |-> IF q = p THEN Writers(f) = {}
                                      ELSE alone[q] /\ q \notin Writers(f)]
         /\ puts' = puts \cup {[key |-> k, value |-> v]}
  /\ named' = [named EXCEPT ![p] = TRUE]
  /\ clean' = [q \in Procs |-> FALSE]
  /\ UNCHANGED <<buffer, sweeping>>

Write(p) ==
  /\ pc[p] = "write" /\ Goto(p, "idle")
  /\ IF ~named[p] THEN UNCHANGED file
     ELSE file' \in {[file EXCEPT ![PathFor(key[p])] = b] :
                       b \in {[key |-> key[p], value |-> value[p]]}
                             \cup (IF alone[p] THEN {} ELSE {Torn})}
  /\ UNCHANGED <<key, value, buffer, named, alone, sweeping, calls, puts, clean>>

-----------------------------------------------------------------------------
(* FilesystemCache::invalidate and clear list the files and then take them *)
(* one by one.                                                             *)

\* Mutant of Kept: the schema is left to `get`.
KeptOfAnySchema(b, r) == IsEntry(b) /\ b.key.revision \in {"none", r}

Kept(b, r) == /\ IsEntry(b)
              /\ b.key.schema = Schema
              /\ b.key.revision \in {"none", r}

List(p) ==
  /\ Begin(p) /\ Goto(p, "sweep")
  /\ \E r \in Revisions \cup {Nothing} : keep' = [keep EXCEPT ![p] = r]
  /\ todo' = [todo EXCEPT ![p] = Present]
  /\ clean' = [clean EXCEPT ![p] = {q \in Procs : pc[q] = "write"} = {}]
  /\ UNCHANGED <<file, key, value, buffer, named, alone, at, puts>>

Look(p) ==
  /\ pc[p] = "sweep"
  /\ \E f \in todo[p] :
       /\ at' = [at EXCEPT ![p] = f] /\ todo' = [todo EXCEPT ![p] = @ \ {f}]
       /\ buffer' = [buffer EXCEPT ![p] = file[f]]
  /\ Goto(p, "drop")
  /\ UNCHANGED <<file, key, value, named, alone, keep, calls, puts, clean>>

Drop(p) ==
  /\ pc[p] = "drop" /\ Goto(p, "sweep")
  /\ IF keep[p] # Nothing /\ (buffer[p] = Absent \/ Kept(buffer[p], keep[p]))
     THEN UNCHANGED <<file, named>> ELSE Remove(at[p])
  /\ UNCHANGED <<key, value, buffer, alone, sweeping, calls, puts, clean>>

Swept(p) ==
  /\ pc[p] = "sweep" /\ todo[p] = {} /\ Goto(p, "swept")
  /\ UNCHANGED <<file, key, value, buffer, named, alone, sweeping, calls, puts, clean>>

\* The process goes on to other things.
GoOn(p) ==
  /\ pc[p] = "swept" /\ Goto(p, "idle")
  /\ UNCHANGED <<file, key, value, buffer, named, alone, sweeping, calls, puts, clean>>

Kill(p) ==
  /\ pc[p] # "idle" /\ Goto(p, "idle")
  /\ value' = [value EXCEPT ![p] = Nothing]
  /\ named' = [named EXCEPT ![p] = FALSE]
  /\ UNCHANGED <<file, key, buffer, alone, sweeping, calls, puts, clean>>

Next == \E p \in Procs :
  \/ Get(p) \/ Hit(p) \/ Miss(p) \/ OpenForPut(p) \/ Write(p)
  \/ List(p) \/ Look(p) \/ Drop(p) \/ Swept(p) \/ GoOn(p) \/ Kill(p)

Spec == Init /\ [][Next]_vars

-----------------------------------------------------------------------------
(* Type correctness. *)
TypeOK ==
  /\ file \in [Paths -> Entries \cup {Absent, Torn}]
  /\ pc \in [Procs -> {"idle", "judge", "write", "sweep", "drop", "swept"}]
  /\ key \in [Procs -> Keys \cup {Nothing}] /\ value \in [Procs -> Values \cup {Nothing}]
  /\ buffer \in [Procs -> Entries \cup {Absent, Torn}]
  /\ named \in [Procs -> BOOLEAN] /\ alone \in [Procs -> BOOLEAN]
  /\ keep \in [Procs -> Revisions \cup {Nothing}]
  /\ todo \in [Procs -> SUBSET Paths] /\ at \in [Procs -> Paths \cup {Nothing}]
  /\ calls \in Nat /\ puts \subseteq Entries /\ clean \in [Procs -> BOOLEAN]

(* A get returns only what was once put under the very key it was asked    *)
(* for, whatever shares the digest, is half written, or is swept.          *)
HitIsPut ==
  \A p \in Procs : pc[p] = "idle" /\ key[p] # Nothing /\ value[p] # Nothing =>
    [key |-> key[p], value |-> value[p]] \in puts

(* When a sweep ends during which nothing was put, no entry of another     *)
(* schema or revision and no broken file is left, and a clear leaves none. *)
SweepIsClean ==
  \A p \in Procs : pc[p] = "swept" /\ clean[p] =>
    \A f \in Present : /\ keep[p] # Nothing /\ file[f] # Torn
                       /\ file[f].key.schema = Schema
                       /\ file[f].key.revision \in {"none", keep[p]}
=============================================================================
