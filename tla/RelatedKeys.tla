---------------------------- MODULE RelatedKeys -----------------------------
(***************************************************************************)
(* related_keys (tpt-weave-context, expand.rs): the symbols delivered with *)
(* a subject when it is expanded.  The seed is the subject and its direct  *)
(* neighbours; passes over a snapshot of the set found so far then add     *)
(* parents, members, implemented traits and implementations, until a pass  *)
(* reports no change.                                                      *)
(*                                                                         *)
(* A symbol is its canonical key.  Methods of one name in several impls of *)
(* one type share a key (`Type::method`): `parent` is the parent in the    *)
(* first record under the key, the one graph.symbol(key) returns, and      *)
(* `alsoIn` pairs the key with the impls of its other records.             *)
(***************************************************************************)
EXTENDS Integers, FiniteSets

CONSTANTS
  SymbolCount,   \* symbols are numbered in the order of their canonical keys
  MaxNeighbours  \* bound on the direct neighbours of the subject

ASSUME RelatedAssumption == SymbolCount \in Nat \ {0} /\ MaxNeighbours \in Nat

Keys     == 1 .. SymbolCount
Kinds    == {"module", "trait", "impl", "item"}
NoParent == 0

VARIABLES
  kind, parent, alsoIn,     \* the symbol table of the graph
  implements,               \* its TraitImpl edges, <<impl, trait>>
  seed,                     \* what is collected before the loop
  related, snapshot,        \* the variables of the closure loop
  reported,                 \* its flag `changed`, which not every insertion sets
  done

graph       == <<kind, parent, alsoIn, implements, seed>>
relatedVars == <<graph, related, snapshot, reported, done>>

Parents(k) ==
  {p \in [Keys -> Keys \cup {NoParent}] :
     \A s \in Keys : p[s] # NoParent =>
       /\ p[s] # s
       /\ IF k[s] = "item" THEN k[p[s]] # "item" ELSE k[p[s]] = "module"
       \* modules nest: no module is its own ancestor
       /\ k[s] = "module" => p[p[s]] # s}

OtherImpls(k, p) ==
  SUBSET {e \in Keys \X Keys :
            /\ k[e[1]] = "item" /\ p[e[1]] # NoParent /\ k[p[e[1]]] = "impl"
            /\ k[e[2]] = "impl" /\ e[2] # p[e[1]]}

ImplEdges(k) == SUBSET {e \in Keys \X Keys : k[e[1]] = "impl" /\ k[e[2]] = "trait"}

Children(m)     == {s \in Keys : parent[s] = m \/ <<s, m>> \in alsoIn}
TraitsOf(m)     == {t \in Keys : <<m, t>> \in implements}
TraitImplsOf(m) == {i \in Keys : <<i, m>> \in implements}

\* Callers, callees, type relations and the impl blocks of a type are any few symbols.
Neighbours == {S \in SUBSET Keys : Cardinality(S) <= MaxNeighbours}

RelatedInit ==
  /\ kind \in [Keys -> Kinds]
  /\ parent \in Parents(kind)
  /\ alsoIn \in OtherImpls(kind, parent)
  /\ implements \in ImplEdges(kind)
  /\ \E subject \in Keys, near \in Neighbours :
       seed = {subject} \cup near \cup TraitImplsOf(subject)
  /\ related = seed
  /\ snapshot = seed
  /\ reported = FALSE
  /\ done = FALSE

\* What a visit of m inserts and reports as a change.
Noticed(m) == ({parent[m]} \ {NoParent}) \cup Children(m) \cup TraitsOf(m)

\* Mutant of Visit: every implementation counts as one of m's.
VisitAllImpls(m) ==
  /\ m \in snapshot /\ \A n \in snapshot : m <= n
  /\ snapshot' = snapshot \ {m}
  /\ related' = related \cup Noticed(m) \cup {e[1] : e \in implements}
  /\ reported' = (reported \/ ~(Noticed(m) \subseteq related))
  /\ UNCHANGED <<graph, done>>

\* Mutant of Visit: only the outcome of the last visit is kept.
VisitForgetful(m) ==
  /\ m \in snapshot /\ \A n \in snapshot : m <= n
  /\ snapshot' = snapshot \ {m}
  /\ related' = related \cup Noticed(m) \cup TraitImplsOf(m)
  /\ reported' = ~(Noticed(m) \subseteq related)
  /\ UNCHANGED <<graph, done>>

\* One iteration over the snapshot, which is visited in key order.
Visit(m) ==
  /\ m \in snapshot /\ \A n \in snapshot : m <= n
  /\ snapshot' = snapshot \ {m}
  /\ related' = related \cup Noticed(m) \cup TraitImplsOf(m)
  /\ reported' = (reported \/ ~(Noticed(m) \subseteq related))
  /\ UNCHANGED <<graph, done>>

\* Mutant of NextPass: the pass runs over the whole symbol table.
PassOverAll ==
  /\ ~done /\ snapshot = {} /\ reported
  /\ snapshot' = Keys
  /\ reported' = FALSE
  /\ UNCHANGED <<graph, related, done>>

\* Mutant of NextPass: the flag is not reset.
PassStillChanged ==
  /\ ~done /\ snapshot = {} /\ reported
  /\ snapshot' = related
  /\ UNCHANGED <<graph, related, reported, done>>

NextPass ==
  /\ ~done /\ snapshot = {} /\ reported
  /\ snapshot' = related
  /\ reported' = FALSE
  /\ UNCHANGED <<graph, related, done>>

Finish ==
  /\ ~done /\ snapshot = {} /\ ~reported
  /\ done' = TRUE
  /\ UNCHANGED <<graph, related, snapshot, reported>>

RelatedNext == (\E m \in Keys : Visit(m)) \/ NextPass \/ Finish
RelatedSpec == RelatedInit /\ [][RelatedNext]_relatedVars

(***************************************************************************)
(* Properties.                                                             *)
(***************************************************************************)
\* The type of the state; the snapshot never runs ahead of what was found.
RelatedTypeOK ==
  /\ kind \in [Keys -> Kinds]
  /\ parent \in [Keys -> Keys \cup {NoParent}]
  /\ alsoIn \subseteq Keys \X Keys
  /\ implements \subseteq Keys \X Keys
  /\ seed \subseteq related /\ related \subseteq Keys
  /\ snapshot \subseteq related
  /\ reported \in BOOLEAN /\ done \in BOOLEAN

Closed(S) == \A m \in S : Noticed(m) \subseteq S /\ TraitImplsOf(m) \subseteq S

\* Nothing unrelated is delivered: everything found lies in every set that holds
\* the seed and is closed under the four structural rules.
OnlyRelated ==
  \A S \in SUBSET Keys : seed \subseteq S /\ Closed(S) => related \subseteq S

\* When the loop ends, every trait found has brought all its implementations, and every symbol
\* has brought its parent, its members and its traits, but for an implementation that came with
\* its trait and not with the seed (see ClosureIsFull), though each pass works on a snapshot.
AlmostClosed ==
  done => \A m \in related :
            /\ TraitImplsOf(m) \subseteq related
            /\ \/ Noticed(m) \subseteq related
               \/ m \notin seed /\ \E t \in related : <<m, t>> \in implements

\* "Fixpoint closure", "until nothing new appears", and of the implementations of a trait:
\* "their members arrive via the child rule above".  A pass that only found implementations
\* reports no change, so what they would bring is missing when it was the last.
ClosureIsFull == done => Closed(related)

\* The loop ends ("structure is shallow, so this terminates fast").
RelatedTerminates == <>done

=============================================================================
