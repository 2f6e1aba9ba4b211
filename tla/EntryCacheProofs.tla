-------------------------- MODULE EntryCacheProofs --------------------------
(***************************************************************************)
(* Proofs about EntryCache, for every set of processes, keys and values,   *)
(* and for every digest of the keys.                                       *)
(*                                                                         *)
(* HitIsPut rests on one history: whatever a file or a buffer holds was    *)
(* put, or was left by an older program.  SweepIsClean rests on what a     *)
(* sweep still owes: while nothing is put, a file that is there is still   *)
(* to be looked at, is the one being looked at, or is kept.                *)
(***************************************************************************)
EXTENDS EntryCache, TLAPS

\* The arguments of the call a process is in.
Busy(p) ==
  /\ pc[p] \in {"judge", "write"} => key[p] \in Keys
  /\ pc[p] = "write" => value[p] \in Values
  /\ pc[p] = "drop" => at[p] \in Paths

FilesPut   == \A f \in Paths : file[f] \in Entries => file[f] \in puts
BuffersPut == \A p \in Procs : buffer[p] \in Entries => buffer[p] \in puts
HeldPut    == \A p \in Procs : key[p] # Nothing /\ value[p] # Nothing =>
                [key |-> key[p], value |-> value[p]] \in puts

\* What the sweep of p has not settled yet.
Owed(p, f) ==
  \/ f \in todo[p]
  \/ pc[p] = "drop" /\ f = at[p] /\ buffer[p] = file[f]
  \/ keep[p] # Nothing /\ Kept(file[f], keep[p])

Quiet(p) == clean[p] => \A q \in Procs : pc[q] # "write"

Orderly(p) ==
  /\ clean[p] /\ pc[p] \in {"sweep", "drop", "swept"} => \A f \in Present : Owed(p, f)
  /\ pc[p] = "swept" => todo[p] = {}

PutInv   == FilesPut /\ BuffersPut /\ HeldPut
SweepInv == \A p \in Procs : Quiet(p) /\ Orderly(p)

IInv == TypeOK /\ (\A p \in Procs : Busy(p)) /\ PutInv /\ SweepInv

LEMMA PathType ==
  ASSUME NEW k \in Keys
  PROVE  PathFor(k) \in Paths
BY DEF Paths

LEMMA InitInv ==
  ASSUME EntryCacheAssumption, Init
  PROVE  IInv
<1>1. TypeOK
  BY DEF EntryCacheAssumption, Init, TypeOK
<1>2. \A p \in Procs : Busy(p)
  BY DEF Init, Busy
<1>3. PutInv
  BY DEF EntryCacheAssumption, Init, PutInv, FilesPut, BuffersPut, HeldPut
<1>4. SweepInv
  BY DEF Init, SweepInv, Quiet, Orderly
<1> QED
  BY <1>1, <1>2, <1>3, <1>4 DEF IInv

\* A step that leaves its process outside a sweep, removes files unless it ends a put,
\* and touches no other process keeps SweepInv.
LEMMA CalmStep ==
  ASSUME IInv, NEW p \in Procs,
         pc' = [pc EXCEPT ![p] = pc'[p]], pc'[p] \in {"idle", "judge"},
         UNCHANGED <<sweeping, clean>>,
         \A f \in Paths : file'[f] \in {file[f], Absent} \/ pc[p] = "write",
         \A q \in Procs \ {p} : buffer'[q] = buffer[q]
  PROVE  SweepInv'
<1>1. \A q \in Procs : Quiet(q)'
  BY DEF IInv, SweepInv, TypeOK, Quiet, sweeping
<1>2. ASSUME NEW q \in Procs
      PROVE  Orderly(q)'
  <2>1. CASE q = p
    BY <2>1 DEF IInv, TypeOK, Orderly
  <2>2. CASE q # p
    <3>1. pc'[q] = pc[q] /\ todo'[q] = todo[q] /\ keep'[q] = keep[q] /\ at'[q] = at[q]
          /\ clean'[q] = clean[q] /\ buffer'[q] = buffer[q]
      BY <2>2 DEF IInv, TypeOK, sweeping
    <3>2. ASSUME clean[q], pc[q] \in {"sweep", "drop", "swept"}, NEW f \in Present'
          PROVE  Owed(q, f)'
      <4>1. pc[p] # "write"
        BY <3>2 DEF IInv, SweepInv, Quiet
      <4>2. file'[f] = file[f] /\ f \in Present
        BY <4>1, <3>2 DEF Present
      <4>3. Owed(q, f)
        BY <3>2, <4>2 DEF IInv, SweepInv, Orderly
      <4> QED
        BY <3>1, <4>2, <4>3 DEF Owed
    <3>3. pc[q] = "swept" => todo[q] = {}
      BY DEF IInv, SweepInv, Orderly
    <3> QED
      BY <3>1, <3>2, <3>3 DEF Orderly
  <2> QED
    BY <2>1, <2>2
<1> QED
  BY <1>1, <1>2 DEF SweepInv

LEMMA GetInv ==
  ASSUME EntryCacheAssumption, IInv, NEW p \in Procs, Get(p)
  PROVE  IInv'
<1>1. PICK k \in Keys : /\ key' = [key EXCEPT ![p] = k]
                        /\ buffer' = [buffer EXCEPT ![p] = file[PathFor(k)]]
  BY DEF Get
<1>2. /\ pc[p] = "idle" /\ pc' = [pc EXCEPT ![p] = "judge"]
      /\ value' = [value EXCEPT ![p] = Nothing]
      /\ calls' \in Nat
      /\ UNCHANGED <<file, named, alone, sweeping, puts, clean>>
  BY DEF Get, Begin, Goto, IInv, TypeOK
<1>3. PathFor(k) \in Paths
  BY PathType
<1>4. TypeOK'
  BY <1>1, <1>2, <1>3 DEF IInv, TypeOK, sweeping
<1>5. \A q \in Procs : Busy(q)'
  BY <1>1, <1>2 DEF IInv, TypeOK, Busy, sweeping
<1>6. PutInv'
  BY <1>1, <1>2, <1>3 DEF IInv, TypeOK, PutInv, FilesPut, BuffersPut, HeldPut
<1>7. SweepInv'
  BY <1>1, <1>2, CalmStep DEF IInv, TypeOK
<1> QED
  BY <1>4, <1>5, <1>6, <1>7 DEF IInv

\* A hit passes on what was read, which was put under the key it bears.
LEMMA HitInv ==
  ASSUME EntryCacheAssumption, IInv, NEW p \in Procs, Hit(p)
  PROVE  IInv'
<1>1. /\ pc[p] = "judge" /\ pc' = [pc EXCEPT ![p] = "idle"]
      /\ buffer[p] \notin {Absent, Torn} /\ buffer[p].key = key[p]
      /\ value' = [value EXCEPT ![p] = buffer[p].value]
      /\ UNCHANGED <<file, key, buffer, named, alone, sweeping, calls, puts, clean>>
  BY DEF Hit, Matches, IsEntry, Goto
<1>2. buffer[p] \in Entries /\ buffer[p] \in puts
  BY <1>1 DEF IInv, TypeOK, PutInv, BuffersPut
<1>3. buffer[p] = [key |-> key[p], value |-> buffer[p].value] /\ buffer[p].value \in Values
  BY <1>1, <1>2 DEF Entries
<1>4. TypeOK'
  BY <1>1, <1>3 DEF IInv, TypeOK, sweeping
<1>5. \A q \in Procs : Busy(q)'
  BY <1>1 DEF IInv, TypeOK, Busy, sweeping
<1>6. PutInv'
  BY <1>1, <1>2, <1>3 DEF IInv, TypeOK, PutInv, FilesPut, BuffersPut, HeldPut
<1>7. SweepInv'
  BY <1>1, CalmStep DEF IInv, TypeOK
<1> QED
  BY <1>4, <1>5, <1>6, <1>7 DEF IInv

LEMMA MissInv ==
  ASSUME EntryCacheAssumption, IInv, NEW p \in Procs, Miss(p)
  PROVE  IInv'
<1>1. /\ pc[p] = "judge" /\ pc' = [pc EXCEPT ![p] = "idle"]
      /\ UNCHANGED <<key, value, buffer, alone, sweeping, calls, puts, clean>>
  BY DEF Miss, Goto
<1>2. /\ file' \in {file, [file EXCEPT ![PathFor(key[p])] = Absent]}
      /\ named' \in [Procs -> BOOLEAN]
  BY DEF Miss, Remove, IInv, TypeOK
<1>3. \A f \in Paths : file'[f] \in {file[f], Absent}
  BY <1>2 DEF IInv, TypeOK
<1>4. file' \in [Paths -> Entries \cup {Absent, Torn}]
  BY <1>2 DEF IInv, TypeOK
<1>5. TypeOK'
  BY <1>1, <1>2, <1>4 DEF IInv, TypeOK, sweeping
<1>6. \A q \in Procs : Busy(q)'
  BY <1>1 DEF IInv, TypeOK, Busy, sweeping
<1>7. PutInv'
  BY <1>1, <1>3 DEF EntryCacheAssumption, IInv, TypeOK, PutInv, FilesPut, BuffersPut, HeldPut
<1>8. SweepInv'
  BY <1>1, <1>3, CalmStep DEF IInv, TypeOK
<1> QED
  BY <1>5, <1>6, <1>7, <1>8 DEF IInv

\* From here on no sweep is undisturbed.
LEMMA OpenForPutInv ==
  ASSUME EntryCacheAssumption, IInv, NEW p \in Procs, OpenForPut(p)
  PROVE  IInv'
<1>1. PICK k \in Keys, v \in Values :
        /\ key' = [key EXCEPT ![p] = k] /\ value' = [value EXCEPT ![p] = v]
        /\ file' = [file EXCEPT ![PathFor(k)] = Torn]
        /\ alone' = [q \in Procs |-> IF q = p THEN Writers(PathFor(k)) = {}
                                     ELSE alone[q] /\ q \notin Writers(PathFor(k))]
        /\ puts' = puts \cup {[key |-> k, value |-> v]}
  BY DEF OpenForPut
<1>2. /\ pc[p] = "idle" /\ pc' = [pc EXCEPT ![p] = "write"] /\ calls' \in Nat
      /\ named' = [named EXCEPT ![p] = TRUE]
      /\ clean' = [q \in Procs |-> FALSE]
      /\ UNCHANGED <<buffer, sweeping>>
  BY DEF OpenForPut, Begin, Goto, IInv, TypeOK
<1>3. PathFor(k) \in Paths /\ [key |-> k, value |-> v] \in Entries
  BY PathType DEF Entries
<1>4. TypeOK'
  <2>1. alone' \in [Procs -> BOOLEAN]
    BY <1>1 DEF IInv, TypeOK
  <2> QED
    BY <1>1, <1>2, <1>3, <2>1 DEF IInv, TypeOK, sweeping
<1>5. \A q \in Procs : Busy(q)'
  BY <1>1, <1>2 DEF IInv, TypeOK, Busy, sweeping
<1>6. PutInv'
  BY <1>1, <1>2, <1>3 DEF EntryCacheAssumption, IInv, TypeOK, PutInv, FilesPut, BuffersPut, HeldPut
<1>7. SweepInv'
  BY <1>2 DEF IInv, TypeOK, SweepInv, Quiet, Orderly, sweeping
<1> QED
  BY <1>4, <1>5, <1>6, <1>7 DEF IInv

LEMMA WriteInv ==
  ASSUME EntryCacheAssumption, IInv, NEW p \in Procs, Write(p)
  PROVE  IInv'
<1> DEFINE e == [key |-> key[p], value |-> value[p]]
<1>1. /\ pc[p] = "write" /\ pc' = [pc EXCEPT ![p] = "idle"]
      /\ UNCHANGED <<key, value, buffer, named, alone, sweeping, calls, puts, clean>>
  BY DEF Write, Goto
<1>2. key[p] \in Keys /\ value[p] \in Values /\ key[p] # Nothing /\ value[p] # Nothing
  BY <1>1 DEF IInv, Busy, EntryCacheAssumption
<1>3. e \in Entries /\ e \in puts
  BY <1>2 DEF Entries, IInv, PutInv, HeldPut
<1>4. file' \in {file} \cup {[file EXCEPT ![PathFor(key[p])] = b] : b \in {e, Torn}}
  BY DEF Write
<1>5. file' \in [Paths -> Entries \cup {Absent, Torn}]
  BY <1>3, <1>4 DEF IInv, TypeOK
<1>6. \A f \in Paths : file'[f] \in {file[f], e, Torn}
  BY <1>4 DEF IInv, TypeOK
<1>7. TypeOK'
  BY <1>1, <1>5 DEF IInv, TypeOK, sweeping
<1>8. \A q \in Procs : Busy(q)'
  BY <1>1 DEF IInv, TypeOK, Busy, sweeping
<1>9. PutInv'
  BY <1>1, <1>3, <1>6 DEF EntryCacheAssumption, IInv, TypeOK, PutInv, FilesPut, BuffersPut, HeldPut
<1>10. SweepInv'
  BY <1>1, CalmStep DEF IInv, TypeOK
<1> QED
  BY <1>7, <1>8, <1>9, <1>10 DEF IInv

\* The sweep begins with every file that is there.
LEMMA ListInv ==
  ASSUME EntryCacheAssumption, IInv, NEW p \in Procs, List(p)
  PROVE  IInv'
<1>1. PICK r \in Revisions \cup {Nothing} : keep' = [keep EXCEPT ![p] = r]
  BY DEF List
<1>2. /\ pc[p] = "idle" /\ pc' = [pc EXCEPT ![p] = "sweep"] /\ calls' \in Nat
      /\ todo' = [todo EXCEPT ![p] = Present]
      /\ clean' = [clean EXCEPT ![p] = {q \in Procs : pc[q] = "write"} = {}]
      /\ UNCHANGED <<file, key, value, buffer, named, alone, at, puts>>
  BY DEF List, Begin, Goto, IInv, TypeOK
<1>3. TypeOK'
  <2>1. clean' \in [Procs -> BOOLEAN]
    BY <1>2 DEF IInv, TypeOK
  <2>2. todo' \in [Procs -> SUBSET Paths]
    BY <1>2 DEF IInv, TypeOK, Present
  <2> QED
    BY <1>1, <1>2, <2>1, <2>2 DEF IInv, TypeOK
<1>4. \A q \in Procs : Busy(q)'
  BY <1>2 DEF IInv, TypeOK, Busy
<1>5. PutInv'
  BY <1>2 DEF IInv, TypeOK, PutInv, FilesPut, BuffersPut, HeldPut
<1>6. ASSUME NEW q \in Procs
      PROVE  Quiet(q)' /\ Orderly(q)'
  <2>1. CASE q = p
    BY <1>2, <2>1 DEF IInv, TypeOK, Quiet, Orderly, Owed, Present
  <2>2. CASE q # p
    BY <1>1, <1>2, <2>2 DEF IInv, TypeOK, SweepInv, Quiet, Orderly, Owed, Present
  <2> QED
    BY <2>1, <2>2
<1> QED
  BY <1>3, <1>4, <1>5, <1>6 DEF IInv, SweepInv

\* The file looked at leaves the list and is in the buffer instead.
LEMMA LookInv ==
  ASSUME EntryCacheAssumption, IInv, NEW p \in Procs, Look(p)
  PROVE  IInv'
<1>1. PICK f \in todo[p] : /\ at' = [at EXCEPT ![p] = f]
                          /\ todo' = [todo EXCEPT ![p] = @ \ {f}]
                          /\ buffer' = [buffer EXCEPT ![p] = file[f]]
  BY DEF Look
<1>2. /\ pc[p] = "sweep" /\ pc' = [pc EXCEPT ![p] = "drop"]
      /\ UNCHANGED <<file, key, value, named, alone, keep, calls, puts, clean>>
  BY DEF Look, Goto
<1>3. f \in Paths
  BY <1>1 DEF IInv, TypeOK
<1>4. TypeOK'
  BY <1>1, <1>2, <1>3 DEF IInv, TypeOK
<1>5. \A q \in Procs : Busy(q)'
  BY <1>1, <1>2, <1>3 DEF IInv, TypeOK, Busy
<1>6. PutInv'
  BY <1>1, <1>2, <1>3 DEF IInv, TypeOK, PutInv, FilesPut, BuffersPut, HeldPut
<1>7. ASSUME NEW q \in Procs
      PROVE  Quiet(q)' /\ Orderly(q)'
  <2>1. Quiet(q)'
    BY <1>2 DEF IInv, TypeOK, SweepInv, Quiet
  <2>2. CASE q = p
    BY <1>1, <1>2, <2>1, <2>2 DEF IInv, TypeOK, SweepInv, Orderly, Owed, Present
  <2>3. CASE q # p
    BY <1>1, <1>2, <2>1, <2>3 DEF IInv, TypeOK, SweepInv, Orderly, Owed, Present
  <2> QED
    BY <2>1, <2>2, <2>3
<1> QED
  BY <1>4, <1>5, <1>6, <1>7 DEF IInv, SweepInv

\* What the sweep looked at is gone, or is to be kept.
LEMMA DropInv ==
  ASSUME EntryCacheAssumption, IInv, NEW p \in Procs, Drop(p)
  PROVE  IInv'
<1>1. /\ pc[p] = "drop" /\ pc' = [pc EXCEPT ![p] = "sweep"] /\ at[p] \in Paths
      /\ UNCHANGED <<key, value, buffer, alone, sweeping, calls, puts, clean>>
  BY DEF Drop, Goto, IInv, Busy
<1>2. /\ named' \in [Procs -> BOOLEAN]
      /\ \/ /\ file' = file
            /\ keep[p] # Nothing /\ (buffer[p] = Absent \/ Kept(buffer[p], keep[p]))
         \/ file' = [file EXCEPT ![at[p]] = Absent]
  BY DEF Drop, Remove, IInv, TypeOK
<1>3. /\ file' \in [Paths -> Entries \cup {Absent, Torn}]
      /\ \A f \in Paths : file'[f] \in {file[f], Absent}
  BY <1>1, <1>2 DEF IInv, TypeOK
<1>4. TypeOK'
  BY <1>1, <1>2, <1>3 DEF IInv, TypeOK, sweeping
<1>5. \A q \in Procs : Busy(q)'
  BY <1>1 DEF IInv, TypeOK, Busy, sweeping
<1>6. PutInv'
  BY <1>1, <1>3 DEF EntryCacheAssumption, IInv, TypeOK, PutInv, FilesPut, BuffersPut, HeldPut
<1>7. \A f \in Present' : f \in Present /\ file'[f] = file[f]
  BY <1>3 DEF Present
<1>8. ASSUME NEW q \in Procs
      PROVE  Quiet(q)' /\ Orderly(q)'
  <2>1. Quiet(q)'
    BY <1>1 DEF IInv, TypeOK, SweepInv, Quiet
  <2>2. CASE q = p
    <3>1. ASSUME clean[p], NEW f \in Present'
          PROVE  Owed(p, f)'
      <4>1. Owed(p, f)
        BY <1>1, <1>7, <3>1 DEF IInv, SweepInv, Orderly
      <4>2. f = at[p] /\ buffer[p] = file[f] => keep[p] # Nothing /\ Kept(file[f], keep[p])
        BY <1>1, <1>2, <1>7, <3>1 DEF IInv, TypeOK, Present
      <4> QED
        BY <1>1, <1>7, <4>1, <4>2 DEF Owed, sweeping
    <3> QED
      BY <1>1, <2>1, <2>2, <3>1 DEF IInv, TypeOK, Orderly
  <2>3. CASE q # p
    BY <1>1, <1>7, <2>1, <2>3 DEF IInv, TypeOK, SweepInv, Orderly, Owed, sweeping
  <2> QED
    BY <2>1, <2>2, <2>3
<1> QED
  BY <1>4, <1>5, <1>6, <1>8 DEF IInv, SweepInv

LEMMA SweptInv ==
  ASSUME EntryCacheAssumption, IInv, NEW p \in Procs, Swept(p)
  PROVE  IInv'
<1>1. /\ pc[p] = "sweep" /\ todo[p] = {} /\ pc' = [pc EXCEPT ![p] = "swept"]
      /\ UNCHANGED <<file, key, value, buffer, named, alone, sweeping, calls, puts, clean>>
  BY DEF Swept, Goto
<1>2. TypeOK'
  BY <1>1 DEF IInv, TypeOK, sweeping
<1>3. \A q \in Procs : Busy(q)'
  BY <1>1 DEF IInv, TypeOK, Busy, sweeping
<1>4. PutInv'
  BY <1>1 DEF IInv, TypeOK, PutInv, FilesPut, BuffersPut, HeldPut
<1>5. SweepInv'
  BY <1>1 DEF IInv, TypeOK, SweepInv, Quiet, Orderly, Owed, Present, sweeping
<1> QED
  BY <1>2, <1>3, <1>4, <1>5 DEF IInv

LEMMA LeaveInv ==
  ASSUME EntryCacheAssumption, IInv, NEW p \in Procs, GoOn(p) \/ Kill(p)
  PROVE  IInv'
<1>1. /\ pc' = [pc EXCEPT ![p] = "idle"]
      /\ value' \in {value, [value EXCEPT ![p] = Nothing]}
      /\ named' \in {named, [named EXCEPT ![p] = FALSE]}
      /\ UNCHANGED <<file, key, buffer, alone, sweeping, calls, puts, clean>>
  BY DEF GoOn, Kill, Goto
<1>2. TypeOK'
  BY <1>1 DEF IInv, TypeOK, sweeping
<1>3. \A q \in Procs : Busy(q)'
  BY <1>1 DEF IInv, TypeOK, Busy, sweeping
<1>4. PutInv'
  BY <1>1 DEF IInv, TypeOK, PutInv, FilesPut, BuffersPut, HeldPut
<1>5. SweepInv'
  BY <1>1, CalmStep DEF IInv, TypeOK
<1> QED
  BY <1>2, <1>3, <1>4, <1>5 DEF IInv

\* The invariant is inductive.
LEMMA StepInv ==
  ASSUME EntryCacheAssumption, IInv, [Next]_vars
  PROVE  IInv'
<1>1. CASE UNCHANGED vars
  BY <1>1 DEF vars, sweeping, IInv, TypeOK, Busy, PutInv, FilesPut, BuffersPut, HeldPut,
              SweepInv, Quiet, Orderly, Owed, Present
<1>2. CASE Next
  <2>1. PICK p \in Procs :
          \/ Get(p) \/ Hit(p) \/ Miss(p) \/ OpenForPut(p) \/ Write(p)
          \/ List(p) \/ Look(p) \/ Drop(p) \/ Swept(p) \/ GoOn(p) \/ Kill(p)
    BY <1>2 DEF Next
  <2> QED
    BY <2>1, GetInv, HitInv, MissInv, OpenForPutInv, WriteInv,
       ListInv, LookInv, DropInv, SweptInv, LeaveInv
<1> QED
  BY <1>1, <1>2

\* The inductive invariant of the entry cache.
THEOREM CacheInvariant == EntryCacheAssumption /\ Spec => []IInv
<1> SUFFICES ASSUME EntryCacheAssumption PROVE Spec => []IInv
  OBVIOUS
<1>1. Init => IInv
  BY InitInv
<1>2. IInv /\ [Next]_vars => IInv'
  BY StepInv
<1> QED
  BY <1>1, <1>2, PTL DEF Spec

\* The variables of the entry cache keep their types.
THEOREM CacheTypeCorrect == EntryCacheAssumption /\ Spec => []TypeOK
<1>1. IInv => TypeOK
  BY DEF IInv
<1> QED
  BY <1>1, CacheInvariant, PTL

\* FilesystemCache::get returns only what was put under the key it was asked for.
THEOREM CacheHitIsPut == EntryCacheAssumption /\ Spec => []HitIsPut
<1>1. IInv => HitIsPut
  BY DEF IInv, PutInv, HeldPut, HitIsPut
<1> QED
  BY <1>1, CacheInvariant, PTL

\* FilesystemCache::invalidate and clear leave nothing they should take when nothing is
\* put meanwhile.
THEOREM CacheSweepIsClean == EntryCacheAssumption /\ Spec => []SweepIsClean
<1>1. ASSUME IInv, NEW p \in Procs, pc[p] = "swept", clean[p], NEW f \in Present
      PROVE  /\ keep[p] # Nothing /\ file[f] # Torn
             /\ file[f].key.schema = Schema
             /\ file[f].key.revision \in {"none", keep[p]}
  <2>1. todo[p] = {} /\ Owed(p, f)
    BY <1>1 DEF IInv, SweepInv, Orderly
  <2> QED
    BY <1>1, <2>1 DEF Owed, Kept, IsEntry
<1>2. IInv => SweepIsClean
  BY <1>1 DEF SweepIsClean
<1> QED
  BY <1>2, CacheInvariant, PTL
=============================================================================
