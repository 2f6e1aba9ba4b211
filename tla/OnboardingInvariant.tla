------------------------- MODULE OnboardingInvariant -------------------------
(***************************************************************************)
(* Why the commands of Onboarding may be trusted.                          *)
(*                                                                         *)
(* AdoptRepairs and IndexRepairs speak of a command that has ended and     *)
(* that nobody disturbed.  Progress is what such a command has achieved at *)
(* each of its steps; another process or person can break it only by       *)
(* changing a file, and then the command is no longer undisturbed.         *)
(*                                                                         *)
(* WorkIsKept speaks of files that no process is writing.  A process that  *)
(* writes undisturbed holds what people wrote in its memory meanwhile; if  *)
(* several are at it, the first to write disturbs the others.              *)
(***************************************************************************)
EXTENDS Onboarding

-----------------------------------------------------------------------------
(* What the proofs need of the types.                                      *)

Graphs == [is : {"absent", "torn", "old", "good"}, head : Int]

Shape ==
  /\ head \in Int /\ graph \in Graphs /\ manifest \in Manifests
  /\ ignore \in Seq(Lines) /\ text \in [Procs -> Seq(Lines)]
  /\ pc \in [Procs -> Places] /\ cmd \in [Procs -> Commands \cup {"none"}]
  /\ at \in [Procs -> Int] /\ exit \in [Procs -> Int]

\* Which command is where, and what it is going to write.
IndexSteps  == {"state", "build", "revision", "save", "torn graph", "save state"}
IgnoreSteps == {"ignore", "write ignore", "torn ignore"}
InitSteps   == {"init", "manifest", "torn manifest"} \cup IgnoreSteps

Control(p) ==
  /\ pc[p] \in InitSteps => cmd[p] \in {"init", "force", "adopt"}
  /\ pc[p] \in IndexSteps => cmd[p] \in Indexing
  /\ pc[p] = "doctor" => cmd[p] \in {"doctor", "adopt"}
  /\ pc[p] = "query" => cmd[p] = "query"
  /\ pc[p] \in {"register", "benchmark"} => cmd[p] = "adopt"
  /\ pc[p] \in {"write ignore", "torn ignore"} => Missing(text[p]) = <<>>

\* What an undisturbed process has achieved.
Usable    == manifest \in {"default", "custom", "keyless"}
Prepared  == Usable /\ Missing(ignore) = <<>>
Buildable == head # 0 /\ registry # "broken"
Built     == graph.is = "good" /\ graph.head = head /\ ~newer

Adopted(p) ==
  /\ pc[p] \in IgnoreSteps => Usable
  /\ pc[p] \in IndexSteps \cup {"register", "benchmark", "doctor"} => Prepared
  /\ pc[p] \in {"save state", "register", "benchmark", "doctor"} => Built /\ Buildable
  /\ pc[p] = "doctor" => report
  /\ pc[p] = "idle" /\ exit[p] \in {0, 1, 3, 4} =>
       /\ exit[p] = 0 <=> ~Blocked
       /\ exit[p] = 0 => Prepared /\ Built /\ report

Progress(p) ==
  /\ pc[p] = "torn ignore" => ignore = <<>>
  /\ pc[p] \in {"save", "torn graph"} => Buildable /\ at[p] = head
  /\ pc[p] = "save state" => Built
  /\ pc[p] = "idle" /\ cmd[p] \in {"index", "full"} /\ exit[p] = 0 => Built
  /\ cmd[p] = "adopt" => Adopted(p)

IInv == /\ Shape /\ moved \in [Procs -> BOOLEAN]
        /\ \A p \in Procs : Control(p) /\ (~moved[p] => Progress(p))

-----------------------------------------------------------------------------
(* What people wrote, while commands write the same files.                 *)

Nobody(l)  == \A p \in Procs : pc[p] # l
Only(p, l) == pc[p] = l /\ \A q \in Procs : pc[q] = l => q = p

ManifestWork ==
  /\ Nobody("torn manifest") => ManifestKept
  /\ \A p \in Procs : ~moved[p] =>
       /\ pc[p] = "manifest" /\ cmd[p] # "force" => manifest = "absent"
       /\ pc[p] = "torn manifest" => manifest = "broken"
       /\ Only(p, "torn manifest") => own.manifest \in {"absent", "default"}

IgnoreWork ==
  /\ Nobody("torn ignore") => LinesKept(ignore)
  /\ \A p \in Procs : ~moved[p] =>
       /\ pc[p] = "write ignore" => text[p] = ignore \o Missing(ignore)
       /\ Only(p, "torn ignore") => LinesKept(text[p])

Work == ~raced => ManifestWork /\ IgnoreWork
=============================================================================
