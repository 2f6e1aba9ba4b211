------------------------------ MODULE RawStore ------------------------------
(***************************************************************************)
(* tpt-weave-tools' store of raw tool output: a file for each digest of an *)
(* output, written once, that a reduction points to and that is read back  *)
(* on demand.  Processes share it without a lock and may be killed.        *)
(***************************************************************************)
EXTENDS Naturals, FiniteSets

CONSTANTS
  Procs,
  Outputs,  \* the outputs of tools, as they are stored
  Hash,     \* FNV-1a of each
  MaxStores, \* bound: outputs stored
  Absent, Torn

\* What the instances assume.
RawStoreAssumption ==
  /\ Hash \in [Outputs -> Nat] /\ MaxStores \in Nat
  /\ Absent # Torn /\ Absent \notin Outputs /\ Torn \notin Outputs

VARIABLES
  file,   \* what each path holds
  pc,     \* where each process is
  output, \* the output it stores
  read,   \* what its expansion returned
  stores,
  broken  \* history: the paths a process was killed at while it wrote

vars == <<file, pc, output, read, stores, broken>>

\* Mutant of FileFor: the digest is cut short.
ShortName(o) == Hash[o] % 2

FileFor(o) == Hash[o]
Files == {FileFor(o) : o \in Outputs}

Init ==
  /\ file = [f \in Files |-> Absent]
  /\ pc = [p \in Procs |-> "idle"]
  /\ output = [p \in Procs |-> Absent] /\ read = [p \in Procs |-> Absent]
  /\ stores = 0 /\ broken = {}

Goto(p, l) == pc' = [pc EXCEPT ![p] = l]

\* RawStore::store looks for the file and writes it only when it is not there.
Store(p) ==
  /\ pc[p] = "idle" /\ stores < MaxStores /\ stores' = stores + 1
  /\ \E o \in Outputs :
       /\ output' = [output EXCEPT ![p] = o]
       /\ Goto(p, IF file[FileFor(o)] = Absent THEN "create" ELSE "stored")
  /\ read' = [read EXCEPT ![p] = Absent]
  /\ UNCHANGED <<file, broken>>

Create(p) ==
  /\ pc[p] = "create" /\ Goto(p, "write")
  /\ file' = [file EXCEPT ![FileFor(output[p])] = Torn]
  /\ UNCHANGED <<output, read, stores, broken>>

\* Over what another process wrote of another output, the longer of the two shows.
Write(p) ==
  /\ pc[p] = "write" /\ Goto(p, "stored")
  /\ LET f == FileFor(output[p])
     IN file' \in {[file EXCEPT ![f] = b] :
                     b \in {output[p]} \cup (IF file[f] \in {Torn, output[p]} THEN {} ELSE {Torn})}
  /\ UNCHANGED <<output, read, stores, broken>>

\* RawStore::expand of the path the store returned.
Expand(p) ==
  /\ pc[p] = "stored" /\ Goto(p, "idle")
  /\ read' = [read EXCEPT ![p] = file[FileFor(output[p])]]
  /\ UNCHANGED <<file, output, stores, broken>>

Kill(p) ==
  /\ pc[p] # "idle" /\ Goto(p, "idle")
  /\ broken' = broken \cup (IF pc[p] = "write" THEN {FileFor(output[p])} ELSE {})
  /\ UNCHANGED <<file, output, read, stores>>

Next == \E p \in Procs :
  Store(p) \/ Create(p) \/ Write(p) \/ Expand(p) \/ Kill(p)

Spec == Init /\ [][Next]_vars

-----------------------------------------------------------------------------
(* Type correctness. *)
TypeOK ==
  /\ file \in [Files -> Outputs \cup {Absent, Torn}]
  /\ pc \in [Procs -> {"idle", "create", "write", "stored"}]
  /\ output \in [Procs -> Outputs \cup {Absent}]
  /\ read \in [Procs -> Outputs \cup {Absent, Torn}]
  /\ stores \in Nat /\ broken \subseteq Files

Collides(o) == \E q \in Outputs \ {o} : Hash[q] = Hash[o]

Writing(f) == \E q \in Procs : pc[q] = "write" /\ FileFor(output[q]) = f

(* What an expansion returns is the output the process stored, unless the  *)
(* file is being written at that moment, a process was killed while it     *)
(* wrote it, or another output has the same digest.                        *)
ReturnsTheOutput(p) ==
  Expand(p) => \/ read'[p] = output[p]
               \/ Writing(FileFor(output[p])) \/ FileFor(output[p]) \in broken
               \/ Collides(output[p])

ExpansionIsTheOutput == [][\A p \in Procs : ReturnsTheOutput(p)]_vars
=============================================================================
