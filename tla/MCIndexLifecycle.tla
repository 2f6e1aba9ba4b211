-------------------------- MODULE MCIndexLifecycle --------------------------
(***************************************************************************)
(* Instances of IndexLifecycle for TLC.  The manifests are the missing     *)
(* one, which excludes nothing, and written ones; a written manifest may   *)
(* name the repository after its directory or give it a name of its own.   *)
(***************************************************************************)
EXTENDS IndexLifecycleInvariant, TLC

CONSTANTS m1, m2, dir, named, f1

OneName   == [m \in Manifests |-> dir]
OwnName   == [m \in Manifests |-> IF m = NoManifest THEN dir ELSE named]
HideFirst == [m \in Manifests |-> IF m = m1 THEN {f1} ELSE {}]
HideNone  == [m \in Manifests |-> {}]

Never  == {FALSE}
Either == {TRUE, FALSE}
Always == {TRUE}

Symmetry == Permutations(Texts \ ({Absent} \cup Blank \cup Unparsable))
============================================================================
