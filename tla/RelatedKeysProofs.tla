-------------------------- MODULE RelatedKeysProofs --------------------------
(***************************************************************************)
(* Proofs about RelatedKeys, for every graph, subject and neighbourhood.   *)
(*                                                                         *)
(* AlmostClosed speaks of the end only.  It is carried there by PassInv,   *)
(* which says how much of the closure a pass that has reported no change   *)
(* so far has established for the symbols it has visited.                  *)
(***************************************************************************)
EXTENDS RelatedKeys, TLAPS

PassInv ==
  /\ \A e \in implements : kind[e[1]] = "impl" /\ kind[e[2]] = "trait"
  /\ ~reported => \A m \in related \ snapshot :
                   /\ TraitImplsOf(m) \subseteq related
                   /\ \/ Noticed(m) \subseteq related
                      \/ m \notin seed /\ \E t \in related : <<m, t>> \in implements
  /\ done => snapshot = {} /\ ~reported

IInv == RelatedTypeOK /\ OnlyRelated /\ PassInv

\* What a visit inserts is made of symbols.
LEMMA NoticedType ==
  ASSUME RelatedTypeOK, NEW m \in Keys
  PROVE  Noticed(m) \subseteq Keys /\ TraitImplsOf(m) \subseteq Keys
BY DEF RelatedTypeOK, Noticed, Children, TraitsOf, TraitImplsOf, Keys, NoParent

\* The three parts of the invariant hold before the first visit.
LEMMA InitInv == RelatedInit => IInv
<1> SUFFICES ASSUME RelatedInit PROVE IInv
  OBVIOUS
<1>1. PICK subject \in Keys, near \in Neighbours :
        seed = {subject} \cup near \cup TraitImplsOf(subject)
  BY DEF RelatedInit
<1>2. seed \subseteq Keys
  BY <1>1 DEF Neighbours, TraitImplsOf
<1>3. /\ alsoIn \subseteq Keys \X Keys
      /\ implements \subseteq Keys \X Keys
      /\ parent \in [Keys -> Keys \cup {NoParent}]
      /\ \A e \in implements : kind[e[1]] = "impl" /\ kind[e[2]] = "trait"
  BY DEF RelatedInit, OtherImpls, ImplEdges, Parents
<1>4. RelatedTypeOK
  BY <1>2, <1>3 DEF RelatedInit, RelatedTypeOK
<1>5. OnlyRelated
  BY DEF RelatedInit, OnlyRelated
<1>6. PassInv
  BY <1>3 DEF RelatedInit, PassInv
<1> QED
  BY <1>4, <1>5, <1>6 DEF IInv

\* A visit keeps the invariant: it inserts what the rules give, and while it reports
\* no change it inserts implementations only.
LEMMA VisitInv ==
  ASSUME IInv, NEW m \in Keys, Visit(m)
  PROVE  IInv'
<1>1. /\ m \in snapshot /\ m \in related
      /\ snapshot' = snapshot \ {m}
      /\ related' = related \cup Noticed(m) \cup TraitImplsOf(m)
      /\ reported' = (reported \/ ~(Noticed(m) \subseteq related))
      /\ UNCHANGED <<kind, parent, alsoIn, implements, seed, done>>
  BY DEF IInv, RelatedTypeOK, Visit, graph
<1>2. /\ \A n \in Keys : Noticed(n)' = Noticed(n)
      /\ \A n \in Keys : TraitImplsOf(n)' = TraitImplsOf(n)
  BY <1>1 DEF Noticed, Children, TraitsOf, TraitImplsOf
<1>3. RelatedTypeOK'
  BY <1>1, NoticedType DEF IInv, RelatedTypeOK
<1>4. OnlyRelated'
  <2> SUFFICES ASSUME NEW S \in SUBSET Keys, seed \subseteq S, Closed(S)
               PROVE  related' \subseteq S
    BY <1>1, <1>2 DEF OnlyRelated, Closed
  <2>1. related \subseteq S
    BY DEF IInv, OnlyRelated
  <2> QED
    BY <1>1, <2>1 DEF Closed
<1>5. PassInv'
  <2>1. \A e \in implements' : kind'[e[1]] = "impl" /\ kind'[e[2]] = "trait"
    BY <1>1 DEF IInv, PassInv
  <2>2. ASSUME ~reported', NEW n \in related' \ snapshot'
        PROVE  /\ TraitImplsOf(n) \subseteq related'
               /\ \/ Noticed(n) \subseteq related'
                  \/ n \notin seed /\ \E t \in related' : <<n, t>> \in implements
    <3>1. ~reported /\ Noticed(m) \subseteq related /\ related \subseteq related'
      BY <1>1, <2>2
    <3>2. CASE n = m
      BY <1>1, <3>2
    <3>3. CASE n \in related \ snapshot
      BY <3>1, <3>3 DEF IInv, PassInv
    <3>4. CASE n \notin related
      <4>1. n \in TraitImplsOf(m)
        BY <1>1, <2>2, <3>1, <3>4
      <4>2. <<n, m>> \in implements
        BY <4>1 DEF TraitImplsOf
      <4>3. kind[n] = "impl"
        BY <4>2 DEF IInv, PassInv
      <4>4. TraitImplsOf(n) = {}
        BY <4>3 DEF TraitImplsOf, IInv, PassInv
      <4>5. n \notin seed
        BY <3>4 DEF IInv, RelatedTypeOK
      <4> QED
        BY <1>1, <4>2, <4>4, <4>5, <3>1
    <3> QED
      BY <1>1, <2>2, <3>2, <3>3, <3>4
  <2>3. done' => snapshot' = {} /\ ~reported'
    BY <1>1 DEF IInv, PassInv
  <2> QED
    <3>1. \A n \in related' : n \in Keys
      BY <1>3 DEF RelatedTypeOK
    <3>2. ASSUME ~reported', NEW n \in related' \ snapshot'
          PROVE  /\ TraitImplsOf(n)' \subseteq related'
                 /\ \/ Noticed(n)' \subseteq related'
                    \/ n \notin seed' /\ \E t \in related' : <<n, t>> \in implements'
      BY <1>1, <1>2, <2>2, <3>1, <3>2
    <3> QED
      BY <2>1, <2>3, <3>2 DEF PassInv
<1> QED
  BY <1>3, <1>4, <1>5 DEF IInv

\* The invariant is inductive.
LEMMA StepInv == IInv /\ [RelatedNext]_relatedVars => IInv'
<1> SUFFICES ASSUME IInv, [RelatedNext]_relatedVars PROVE IInv'
  OBVIOUS
<1>1. CASE \E m \in Keys : Visit(m)
  BY <1>1, VisitInv
<1>2. CASE NextPass \/ Finish \/ UNCHANGED relatedVars
  <2>1. UNCHANGED <<kind, parent, alsoIn, implements, seed, related>>
    BY <1>2 DEF NextPass, Finish, relatedVars, graph
  <2>2. /\ \A n \in Keys : Noticed(n)' = Noticed(n)
        /\ \A n \in Keys : TraitImplsOf(n)' = TraitImplsOf(n)
    BY <2>1 DEF Noticed, Children, TraitsOf, TraitImplsOf
  <2>3. OnlyRelated'
    <3> SUFFICES ASSUME NEW S \in SUBSET Keys, (seed \subseteq S)', Closed(S)'
                 PROVE  (related \subseteq S)'
      BY DEF OnlyRelated
    <3>1. Closed(S)
      BY <2>2 DEF Closed
    <3> QED
      BY <2>1, <3>1 DEF IInv, OnlyRelated
  <2>4. RelatedTypeOK'
    BY <1>2, <2>1 DEF NextPass, Finish, relatedVars, IInv, RelatedTypeOK
  <2>5. PassInv'
    <3>1. related \subseteq Keys
      BY DEF IInv, RelatedTypeOK
    <3>2. ~reported' /\ snapshot' # related => snapshot' = snapshot /\ ~reported
      BY <1>2 DEF NextPass, Finish, relatedVars
    <3>3. ASSUME ~reported', NEW n \in related' \ snapshot'
          PROVE  /\ TraitImplsOf(n)' \subseteq related'
                 /\ \/ Noticed(n)' \subseteq related'
                    \/ n \notin seed' /\ \E t \in related' : <<n, t>> \in implements'
      BY <2>1, <2>2, <3>1, <3>2, <3>3 DEF IInv, PassInv
    <3>4. done' => snapshot' = {} /\ ~reported'
      BY <1>2 DEF NextPass, Finish, relatedVars, IInv, PassInv
    <3> QED
      BY <2>1, <3>3, <3>4 DEF IInv, PassInv
  <2> QED
    BY <2>3, <2>4, <2>5 DEF IInv
<1> QED
  BY <1>1, <1>2 DEF RelatedNext

\* The inductive invariant of the closure loop.
THEOREM RelatedInvariant == RelatedSpec => []IInv
BY InitInv, StepInv, PTL DEF RelatedSpec

\* The variables of the closure loop keep their types.
THEOREM RelatedTypeCorrect == RelatedSpec => []RelatedTypeOK
<1>1. IInv => RelatedTypeOK
  BY DEF IInv
<1> QED
  BY <1>1, RelatedInvariant, PTL

\* Everything delivered with a subject follows from the seed by the structural rules.
THEOREM RelatedOnlyRelated == RelatedSpec => []OnlyRelated
<1>1. IInv => OnlyRelated
  BY DEF IInv
<1> QED
  BY <1>1, RelatedInvariant, PTL

\* When the loop ends only implementations that came with their trait, and were not in the
\* seed, may lack their parent and members.
THEOREM RelatedAlmostClosed == RelatedSpec => []AlmostClosed
<1>1. IInv => AlmostClosed
  BY DEF IInv, PassInv, AlmostClosed
<1> QED
  BY <1>1, RelatedInvariant, PTL
=============================================================================
