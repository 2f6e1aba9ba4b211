----------------------------- MODULE MCSession -----------------------------
(***************************************************************************)
(* Small instances of Onboarding, EntryCache and RawStore for TLC: the     *)
(* files that the processes of one repository share.  The three keep their *)
(* files apart, so a behaviour is one of the three, and the rest stays as  *)
(* it was at first.                                                        *)
(***************************************************************************)
EXTENDS OnboardingInvariant

CONSTANTS Keys, Digest, Values, Schema, Revisions, Foreign, MaxCalls, Absent, Torn, Nothing,
          Outputs, Hash, MaxStores

VARIABLES
  part, \* which of the three moves
  entry, caller, key, value, buffer, named, alone, keep, todo, looks, calls, puts, clean,
  raw, storer, output, read, stores, broken

Cache == INSTANCE EntryCache WITH file <- entry, pc <- caller, at <- looks
Raw   == INSTANCE RawStore WITH file <- raw, pc <- storer

ASSUME SessionAssumption == Cache!EntryCacheAssumption /\ Raw!RawStoreAssumption

cache == <<entry, caller, key, value, buffer, named, alone, keep, todo, looks, calls, puts, clean>>
store == <<raw, storer, output, read, stores, broken>>

SessionInit ==
  /\ part \in {"onboarding", "cache", "raw"}
  /\ Init /\ Cache!Init /\ Raw!Init
  /\ part # "onboarding" => manifest = "absent" /\ graph.is = "absent" /\ head = 1
  /\ part # "cache" => Cache!Present = {}

SessionNext ==
  \/ part = "onboarding" /\ Next /\ UNCHANGED <<part, cache, store>>
  \/ part = "cache" /\ Cache!Next /\ UNCHANGED <<part, vars, store>>
  \/ part = "raw" /\ Raw!Next /\ UNCHANGED <<part, vars, cache>>

SessionSpec == SessionInit /\ [][SessionNext]_<<part, vars, cache, store>>

(* Type correctness of the three. *)
SessionTypeOK == TypeOK /\ Cache!TypeOK /\ Raw!TypeOK

(* What a get returns was put under its key (see EntryCache). *)
HitIsPut == Cache!HitIsPut

(* An undisturbed sweep leaves nothing it should take (see EntryCache). *)
SweepIsClean == Cache!SweepIsClean

(* An expansion returns what was stored (see RawStore). *)
ExpansionIsTheOutput == [][\A p \in Procs : Raw!ReturnsTheOutput(p)]_store

Symmetry == Permutations(Procs)

MCHeads   == {-1, 0, 1}
MCIgnores == {<<"user">>}

(* Two keys of this program share a digest; one was left by an older one. *)
KeyOf(schema, revision, query) ==
  [schema |-> schema, revision |-> revision, kind |-> "skeleton", query |-> query]
MCKeys    == {KeyOf(2, "r1", "f"), KeyOf(2, "r2", "f"), KeyOf(2, "none", "f"), KeyOf(1, "r1", "f")}
MCDigest  == [k \in MCKeys |-> CASE k.schema = 1        -> 1
                                 [] k.revision = "none" -> 2
                                 [] OTHER               -> 3]
MCForeign == {[key |-> KeyOf(1, "r1", "f"), value |-> "v"]}

(* Two of the three outputs share a digest. *)
MCHash == [o \in {"x", "y", "z"} |-> CASE o = "x" -> 2 [] o = "y" -> 4 [] o = "z" -> 2]
=============================================================================
