----------------------- MODULE ContextSelectionProofs -----------------------
(***************************************************************************)
(* For any candidates, budget and level, the selection of ContextSelection *)
(* stays within its budget, loses no refund and repeats no delivered file. *)
(***************************************************************************)
EXTENDS ContextSelection, FiniteSetTheorems, TLAPS

Inv == TypeOK /\ WithinBudget /\ DroppedIsCovered /\ Settled

\* Bounds of the saturating arithmetic of u32 token counts.
LEMMA SaturatingBounds ==
  ASSUME NEW a \in 0 .. U32Max, NEW b \in 0 .. U32Max
  PROVE  /\ SaturatingAdd(a, b) \in 0 .. U32Max
         /\ SaturatingSub(a, b) \in 0 .. U32Max
         /\ SaturatingSub(a, b) <= a
BY SelectionAssumption DEF SaturatingAdd, SaturatingSub

\* The candidates of the initial states are well formed.
LEMMA InitialCandidates ==
  ASSUME Init
  PROVE  /\ candidates \in [Slots -> Candidates]
         /\ \A c \in Slots : candidates[c].source = "symbol" =>
                               candidates[candidates[c].file].source = "file"
<1>1. PICK source \in Orders, tokens \in [Slots -> Estimates] :
        \E file \in Files(source), readable \in SUBSET {c \in Slots : source[c] = "file"} :
          candidates = [c \in Slots |->
            [source |-> source[c], tokens |-> tokens[c], file |-> file[c],
             level |-> LevelOf(source[c], maxLevel, c \in readable)]]
      BY DEF Init
<1>2. PICK file \in Files(source), readable \in SUBSET {c \in Slots : source[c] = "file"} :
          candidates = [c \in Slots |->
            [source |-> source[c], tokens |-> tokens[c], file |-> file[c],
             level |-> LevelOf(source[c], maxLevel, c \in readable)]]
      BY <1>1
<1>3. source \in [Slots -> Sources] /\ file \in [Slots -> Slots]
      BY DEF Orders, Files
<1>4. \A c \in Slots : source[c] = "symbol" => source[file[c]] = "file"
      BY DEF Files
<1>5. maxLevel \in Levels BY SelectionAssumption DEF Init, Levels
<1>6. \A c \in Slots : LevelOf(source[c], maxLevel, c \in readable) \in Levels
      BY <1>5 DEF LevelOf, EffectiveLevel, Levels, Metadata, Symbols, Signatures
<1>7. candidates \in [Slots -> Candidates] BY <1>2, <1>3, <1>6 DEF Candidates
<1>8. \A c \in Slots : candidates[c].source = source[c] /\ candidates[c].file = file[c]
      BY <1>2
<1>9. QED BY <1>3, <1>4, <1>7, <1>8

\* The initial states satisfy the invariant.
LEMMA InitEstablishesInv == Init => Inv
<1> SUFFICES ASSUME Init PROVE Inv OBVIOUS
<1>1. candidates \in [Slots -> Candidates]
      /\ \A c \in Slots : candidates[c].source = "symbol" =>
                            candidates[candidates[c].file].source = "file"
      BY InitialCandidates
<1>2. TypeOK
      <2>1. /\ budget \in Budgets /\ maxLevel \in MaxLevels /\ taken = {} /\ excluded = {}
            /\ used = 0 /\ changed = FALSE /\ phase = "overview" /\ next = 1
            BY DEF Init
      <2>2. N \in Nat /\ U32Max \in Nat BY SelectionAssumption
      <2>3. next \in 1 .. N + 1 /\ used \in 0 .. U32Max BY <2>1, <2>2
      <2>4. QED BY <1>1, <2>1, <2>3 DEF TypeOK
<1>3. WithinBudget BY SelectionAssumption DEF Init, WithinBudget
<1>4. DroppedIsCovered BY DEF Init, DroppedIsCovered
<1>5. Settled BY DEF Init, Settled
<1>6. QED BY <1>2, <1>3, <1>4, <1>5 DEF Inv

\* Token estimates are u32 values.
LEMMA CandidateTokens ==
  ASSUME candidates \in [Slots -> Candidates]
  PROVE  \A c \in Slots : candidates[c].tokens \in 0 .. U32Max
<1>1. \A c \in Slots : candidates[c].tokens \in Estimates BY DEF Candidates
<1>2. QED BY <1>1, SelectionAssumption

\* Every step of select_within_budget keeps the types.
LEMMA StepKeepsTypes == Inv /\ [Next]_vars => TypeOK'
<1> SUFFICES ASSUME Inv, [Next]_vars PROVE TypeOK' OBVIOUS
<1> USE SelectionAssumption DEF Inv, TypeOK, WithinBudget, request, Slots
<1>0. /\ N \in Nat /\ N >= 1 /\ U32Max \in Nat
      /\ \A c \in Slots : candidates[c].tokens \in 0 .. U32Max
      BY CandidateTokens
<1>1. CASE AdmitOverview
      <2>1. candidates[Overview].tokens \in 0 .. U32Max /\ Overview \in Slots
            BY <1>0 DEF Overview
      <2>2. QED BY <1>1, <2>1, <1>0 DEF AdmitOverview
<1>2. CASE Admit
      <2>1. SaturatingAdd(used, candidates[next].tokens) \in 0 .. U32Max
            BY <1>2, <1>0, SaturatingBounds DEF Admit
      <2>2. QED BY <1>2, <2>1 DEF Admit
<1>3. CASE PassOver BY <1>3 DEF PassOver
<1>4. CASE EndGreedy BY <1>4 DEF EndGreedy
<1>5. CASE DropAnchor
      <2>1. SaturatingSub(used, candidates[next].tokens) \in 0 .. U32Max
            BY <1>5, <1>0, SaturatingBounds DEF DropAnchor
      <2>2. QED BY <1>5, <2>1 DEF DropAnchor
<1>6. CASE Keep BY <1>6 DEF Keep
<1>7. CASE EndDedup
      <2>1. phase' \in {"greedy", "done"} /\ changed' \in BOOLEAN
            BY <1>7 DEF EndDedup
      <2>2. next' \in 1 .. N + 1 BY <1>0, <1>7 DEF EndDedup
      <2>3. UNCHANGED <<request, taken, excluded, used>> BY <1>7 DEF EndDedup
      <2>4. QED BY <2>1, <2>2, <2>3
<1>8. CASE UNCHANGED vars BY <1>8 DEF vars
<1>9. QED BY <1>1, <1>2, <1>3, <1>4, <1>5, <1>6, <1>7, <1>8 DEF Next

\* Admissions are checked against the budget and refunds only lower the total.
LEMMA StepKeepsBudget == Inv /\ [Next]_vars => WithinBudget'
<1> SUFFICES ASSUME Inv, [Next]_vars PROVE WithinBudget' OBVIOUS
<1> USE DEF Inv, TypeOK, WithinBudget, request
<1>0. used \in Int /\ budget \in Int /\ budget >= 0
      BY SelectionAssumption
<1>1. CASE AdmitOverview BY <1>0, <1>1 DEF AdmitOverview
<1>2. CASE Admit BY <1>2 DEF Admit, Admits, Fits
<1>3. CASE PassOver BY <1>3 DEF PassOver
<1>4. CASE EndGreedy BY <1>4 DEF EndGreedy
<1>5. CASE DropAnchor
      <2>1. candidates[next].tokens \in 0 .. U32Max /\ used \in 0 .. U32Max
            BY <1>5, CandidateTokens DEF DropAnchor
      <2>2. /\ SaturatingSub(used, candidates[next].tokens) <= used
            /\ SaturatingSub(used, candidates[next].tokens) \in 0 .. U32Max
            BY ONLY <2>1, SaturatingBounds
      <2>3. QED BY <1>0, <1>5, <2>2 DEF DropAnchor
<1>6. CASE Keep BY <1>6 DEF Keep
<1>7. CASE EndDedup BY <1>7 DEF EndDedup
<1>8. CASE UNCHANGED vars BY <1>8 DEF vars
<1>9. QED BY <1>1, <1>2, <1>3, <1>4, <1>5, <1>6, <1>7, <1>8 DEF Next

\* A file candidate, once taken, stays: only anchors are ever dropped.
LEMMA StepKeepsCovered == Inv /\ [Next]_vars => DroppedIsCovered'
<1> SUFFICES ASSUME Inv, [Next]_vars PROVE DroppedIsCovered' OBVIOUS
<1> USE DEF Inv, TypeOK, DroppedIsCovered, request
<1>1. CASE AdmitOverview BY <1>1 DEF AdmitOverview, Settled
<1>2. CASE Admit BY <1>2 DEF Admit, Admits
<1>3. CASE PassOver BY <1>3 DEF PassOver
<1>4. CASE EndGreedy BY <1>4 DEF EndGreedy
<1>5. CASE DropAnchor
      <2>1. /\ excluded \subseteq Slots /\ next \in Slots
            /\ candidates[next].source = "symbol"
            /\ candidates[next].file \in taken
            /\ candidates[candidates[next].file].level >= Signatures
            BY <1>5 DEF DropAnchor, Subsumed
      <2>2. \A c \in excluded' : candidates[c].source = "symbol" /\ candidates[c].file # next
            BY <1>5, <2>1 DEF DropAnchor
      <2>3. QED BY <1>5, <2>1, <2>2 DEF DropAnchor
<1>6. CASE Keep BY <1>6 DEF Keep
<1>7. CASE EndDedup BY <1>7 DEF EndDedup
<1>8. CASE UNCHANGED vars BY <1>8 DEF vars
<1>9. QED BY <1>1, <1>2, <1>3, <1>4, <1>5, <1>6, <1>7, <1>8 DEF Next

\* A pass that changes nothing has looked at every candidate before it ends.
LEMMA StepKeepsSettled == Inv /\ [Next]_vars => Settled'
<1> SUFFICES ASSUME Inv, [Next]_vars PROVE Settled' OBVIOUS
<1> USE DEF Inv, TypeOK, Settled, request
<1>0. N \in Nat /\ next \in Nat /\ Slots = 1 .. N
      BY SelectionAssumption DEF Slots
<1>1. CASE AdmitOverview
      <2>1. next' = 1 /\ phase' = "greedy" BY <1>1 DEF AdmitOverview
      <2>2. QED BY <1>0, <1>1, <2>1 DEF AdmitOverview
<1>2. CASE Admit BY <1>2 DEF Admit
<1>3. CASE PassOver
      <2>1. /\ next \in Slots /\ next' = next + 1 /\ phase = "greedy" /\ phase' = "greedy"
            /\ changed' = changed
            /\ \A c : LeftOutForGood(c)' <=> LeftOutForGood(c)
            BY <1>3 DEF PassOver, LeftOutForGood, Fits
      <2>2. LeftOutForGood(next) BY <1>3 DEF PassOver, Admits, LeftOutForGood
      <2>3. QED BY <1>0, <2>1, <2>2
<1>4. CASE EndGreedy
      <2>1. /\ next = N + 1 /\ next' = 1 /\ phase = "greedy" /\ phase' = "dedup"
            /\ changed' = changed
            /\ \A c : LeftOutForGood(c)' <=> LeftOutForGood(c)
            BY <1>4 DEF EndGreedy, LeftOutForGood, Fits
      <2>2. QED BY <1>0, <2>1
<1>5. CASE DropAnchor BY <1>5 DEF DropAnchor
<1>6. CASE Keep
      <2>1. /\ next \in Slots /\ next' = next + 1 /\ phase = "dedup" /\ phase' = "dedup"
            /\ changed' = changed /\ ~Subsumed(next)
            /\ \A c : /\ LeftOutForGood(c)' <=> LeftOutForGood(c)
                      /\ Subsumed(c)' <=> Subsumed(c)
            BY <1>6 DEF Keep, LeftOutForGood, Fits, Subsumed
      <2>2. QED BY <1>0, <2>1
<1>7. CASE EndDedup
      <2>1. /\ next = N + 1 /\ next' = 1 /\ phase = "dedup"
            /\ \A c : /\ LeftOutForGood(c)' <=> LeftOutForGood(c)
                      /\ Subsumed(c)' <=> Subsumed(c)
            BY <1>7 DEF EndDedup, LeftOutForGood, Fits, Subsumed
      <2>2. CASE changed
            <3>1. phase' = "greedy" BY <1>7, <2>2 DEF EndDedup
            <3>2. QED BY <1>0, <2>1, <3>1
      <2>3. CASE ~changed
            <3>1. phase' = "done" BY <1>7, <2>3 DEF EndDedup
            <3>2. QED BY <1>0, <2>1, <2>3, <3>1
      <2>4. QED BY <2>2, <2>3
<1>8. CASE UNCHANGED vars BY <1>8 DEF vars, LeftOutForGood, Fits, Subsumed
<1>9. QED BY <1>1, <1>2, <1>3, <1>4, <1>5, <1>6, <1>7, <1>8 DEF Next

(***************************************************************************)
(* The running total.  Below u32::MAX nothing saturates, so an admission   *)
(* adds, and a drop refunds, the tokens of one candidate exactly.          *)
(***************************************************************************)
TokensOf(c) == {c} \X (1 .. candidates[c].tokens)

\* The tokens of one candidate are as many as its estimate says.
LEMMA TokensOfOne ==
  ASSUME TypeOK, NEW c \in Slots
  PROVE  /\ IsFiniteSet(TokensOf(c))
         /\ Cardinality(TokensOf(c)) = candidates[c].tokens
<1>1. candidates[c].tokens \in Nat
      BY CandidateTokens, SelectionAssumption DEF TypeOK
<1>2. IsFiniteSet({c}) /\ Cardinality({c}) = 1 BY FS_Singleton
<1>3. \A n \in Nat : IsFiniteSet(1 .. n) /\ Cardinality(1 .. n) = n
      <2> SUFFICES ASSUME NEW n \in Nat PROVE IsFiniteSet(1 .. n) /\ Cardinality(1 .. n) = n
            OBVIOUS
      <2>1. /\ IsFiniteSet(1 .. n)
            /\ Cardinality(1 .. n) = IF 1 > n THEN 0 ELSE n - 1 + 1
            BY FS_Interval
      <2>2. QED BY <2>1
<1>4. /\ IsFiniteSet(1 .. candidates[c].tokens)
      /\ Cardinality(1 .. candidates[c].tokens) = candidates[c].tokens
      BY <1>1, <1>3
<1>5. /\ IsFiniteSet(TokensOf(c))
      /\ Cardinality(TokensOf(c)) = 1 * candidates[c].tokens
      <2>1. /\ IsFiniteSet({c} \X (1 .. candidates[c].tokens))
            /\ Cardinality({c} \X (1 .. candidates[c].tokens)) =
                 Cardinality({c}) * Cardinality(1 .. candidates[c].tokens)
            BY <1>2, <1>4, FS_Product
      <2>2. QED BY <1>2, <1>4, <2>1 DEF TokensOf
<1>6. QED BY <1>1, <1>5

\* The delivered tokens are those of the selected candidates, finitely many.
LEMMA DeliveredTokensAre ==
  ASSUME TypeOK
  PROVE  /\ DeliveredTokens = UNION {TokensOf(c) : c \in taken}
         /\ IsFiniteSet(DeliveredTokens)
<1>1. \A c \in taken : candidates[c].tokens \in 0 .. U32Max
      BY CandidateTokens DEF TypeOK
<1>2. DeliveredTokens = UNION {TokensOf(c) : c \in taken}
      BY <1>1, SelectionAssumption DEF DeliveredTokens, TokensOf
<1>3. IsFiniteSet(taken) /\ IsFiniteSet(1 .. U32Max)
      <2>1. 1 \in Int /\ N \in Int /\ U32Max \in Int BY SelectionAssumption
      <2>2. IsFiniteSet(1 .. N) /\ IsFiniteSet(1 .. U32Max) BY <2>1, FS_Interval
      <2>3. taken \in SUBSET (1 .. N) BY DEF TypeOK, Slots
      <2>4. QED BY <2>2, <2>3, FS_Subset
<1>4. IsFiniteSet(taken \X (1 .. U32Max)) BY <1>3, FS_Product
<1>5. QED BY <1>2, <1>4, FS_Subset DEF DeliveredTokens

\* The tokens of a candidate outside the selection are no part of the delivered ones.
LEMMA TokensAreApart ==
  ASSUME TypeOK, NEW c \in Slots \ taken
  PROVE  DeliveredTokens \cap TokensOf(c) = {}
BY DEF DeliveredTokens, TokensOf

\* Below u32::MAX every step of the selection keeps the total exact.
LEMMA StepKeepsUsedExact == Inv /\ UsedIsExact /\ [Next]_vars => UsedIsExact'
<1> SUFFICES ASSUME Inv, UsedIsExact, [Next]_vars PROVE UsedIsExact' OBVIOUS
<1> UNCHANGED budget
      BY DEF Next, vars, request, AdmitOverview, Admit, PassOver, EndGreedy, DropAnchor, Keep, EndDedup
<1> SUFFICES ASSUME budget < U32Max PROVE used' = Cardinality(DeliveredTokens')
      BY DEF UsedIsExact
<1>0. /\ TypeOK /\ TypeOK' /\ used <= budget
      /\ used = Cardinality(DeliveredTokens) /\ IsFiniteSet(DeliveredTokens)
      /\ used \in Nat /\ budget \in Nat /\ U32Max \in Nat
      BY StepKeepsTypes, DeliveredTokensAre, SelectionAssumption
         DEF Inv, WithinBudget, UsedIsExact, TypeOK
<1>1. CASE AdmitOverview
      <2>1. taken = {} /\ used = Cardinality({})
            BY <1>0, <1>1 DEF AdmitOverview, Inv, Settled, DeliveredTokens
      <2>2. UNCHANGED candidates /\ Overview \in Slots
            BY <1>1, SelectionAssumption DEF AdmitOverview, request, Overview, Slots
      <2>3. CASE candidates[Overview].tokens <= budget
            <3>1. taken' = {Overview} /\ used' = candidates[Overview].tokens
                  BY <1>1, <2>3 DEF AdmitOverview
            <3>2. DeliveredTokens' = TokensOf(Overview)
                  BY <1>0, <2>2, <3>1, DeliveredTokensAre, CandidateTokens
                     DEF DeliveredTokens, TokensOf, TypeOK
            <3>3. QED BY <1>0, <2>2, <3>1, <3>2, TokensOfOne
      <2>4. CASE ~(candidates[Overview].tokens <= budget)
            <3>1. taken' = {} /\ used' = 0 BY <1>1, <2>4 DEF AdmitOverview
            <3>2. DeliveredTokens' = {} BY <3>1 DEF DeliveredTokens
            <3>3. QED BY <3>1, <3>2, FS_EmptySet
      <2>5. QED BY <2>3, <2>4
<1>2. CASE Admit
      <2>1. /\ next \in Slots \ taken /\ taken' = taken \cup {next} /\ UNCHANGED candidates
            /\ SaturatingAdd(used, candidates[next].tokens) <= budget
            /\ used' = SaturatingAdd(used, candidates[next].tokens)
            BY <1>2 DEF Admit, Admits, Fits, request
      <2>2. candidates[next].tokens \in 0 .. U32Max BY <1>0, <2>1, CandidateTokens DEF TypeOK
      <2>3. used' = used + candidates[next].tokens
            BY <1>0, <2>1, <2>2 DEF SaturatingAdd
      <2>4. DeliveredTokens' = DeliveredTokens \cup TokensOf(next)
            BY <1>0, <2>1, <2>2 DEF DeliveredTokens, TokensOf
      <2>5. DeliveredTokens \cap TokensOf(next) = {} /\ Cardinality({}) = 0
            BY <1>0, <2>1, TokensAreApart, FS_EmptySet
      <2>6. IsFiniteSet(TokensOf(next)) /\ Cardinality(TokensOf(next)) = candidates[next].tokens
            BY <1>0, <2>1, TokensOfOne
      <2>7. Cardinality(DeliveredTokens \cup TokensOf(next)) =
              Cardinality(DeliveredTokens) + Cardinality(TokensOf(next)) - 0
            <3>1. Cardinality(DeliveredTokens \cup TokensOf(next)) =
                    Cardinality(DeliveredTokens) + Cardinality(TokensOf(next))
                      - Cardinality(DeliveredTokens \cap TokensOf(next))
                  BY <1>0, <2>6, FS_Union
            <3>2. QED BY <2>5, <3>1
      <2>8. QED BY <1>0, <2>2, <2>3, <2>4, <2>6, <2>7
<1>3. CASE DropAnchor
      <2>1. /\ next \in Slots /\ next \in taken /\ taken' = taken \ {next} /\ UNCHANGED candidates
            /\ used' = SaturatingSub(used, candidates[next].tokens)
            BY <1>3 DEF DropAnchor, Subsumed, request
      <2>2. candidates[next].tokens \in 0 .. U32Max BY <1>0, <2>1, CandidateTokens DEF TypeOK
      <2>3. DeliveredTokens' = DeliveredTokens \ TokensOf(next)
            BY <1>0, <2>1, <2>2 DEF DeliveredTokens, TokensOf
      <2>4. TokensOf(next) \in SUBSET DeliveredTokens
            BY <1>0, <2>1, <2>2 DEF DeliveredTokens, TokensOf
      <2>5. IsFiniteSet(TokensOf(next)) /\ Cardinality(TokensOf(next)) = candidates[next].tokens
            BY <1>0, <2>1, TokensOfOne
      <2>6. candidates[next].tokens <= used
            BY <1>0, <2>4, <2>5, FS_Subset
      <2>7. DeliveredTokens \cap TokensOf(next) = TokensOf(next)
            BY <2>4
      <2>8. Cardinality(DeliveredTokens') = used - candidates[next].tokens
            <3>1. Cardinality(DeliveredTokens \ TokensOf(next)) =
                    Cardinality(DeliveredTokens) - Cardinality(DeliveredTokens \cap TokensOf(next))
                  BY <1>0, FS_Difference
            <3>2. QED BY <1>0, <2>3, <2>5, <2>7, <3>1
      <2>9. used' = used - candidates[next].tokens
            BY <1>0, <2>1, <2>2, <2>6 DEF SaturatingSub
      <2>10. QED BY <2>8, <2>9
<1>4. CASE PassOver \/ EndGreedy \/ Keep \/ EndDedup \/ UNCHANGED vars
      <2>1. UNCHANGED <<candidates, taken, used>>
            BY <1>4 DEF PassOver, EndGreedy, Keep, EndDedup, vars, request
      <2>2. QED BY <1>0, <2>1 DEF DeliveredTokens
<1>5. QED BY <1>1, <1>2, <1>3, <1>4 DEF Next

\* The selection algorithm keeps its types, its budget, the cover of every anchor it
\* dropped and what its passes have established, whatever the candidates are.
THEOREM SelectionInvariant == Spec => []Inv
<1>1. Inv /\ [Next]_vars => Inv'
      BY StepKeepsTypes, StepKeepsBudget, StepKeepsCovered, StepKeepsSettled DEF Inv
<1>2. QED BY InitEstablishesInv, <1>1, PTL DEF Spec

\* The variables of a selection keep their types.
THEOREM SelectionTypeCorrect == Spec => []TypeOK
<1>1. Inv => TypeOK BY DEF Inv
<1>2. QED BY SelectionInvariant, <1>1, PTL

\* What the greedy and the dedup pass have established at every moment, up to "stable".
THEOREM SelectionSettled == Spec => []Settled
<1>1. Inv => Settled BY DEF Inv
<1>2. QED BY SelectionInvariant, <1>1, PTL

\* The running token total never exceeds the budget of the request.
THEOREM SelectionWithinBudget == Spec => []WithinBudget
<1>1. Inv => WithinBudget BY DEF Inv
<1>2. QED BY SelectionInvariant, <1>1, PTL

\* Below u32::MAX the running total is what the delivered selection costs: the
\* admissions and refunds of however many passes leave no error in it.
THEOREM SelectionUsedIsExact == Spec => []UsedIsExact
<1>1. Init => Inv /\ UsedIsExact
      <2> SUFFICES ASSUME Init PROVE used = Cardinality(DeliveredTokens)
            BY InitEstablishesInv DEF UsedIsExact
      <2>1. used = 0 /\ DeliveredTokens = {} BY DEF Init, DeliveredTokens
      <2>2. QED BY <2>1, FS_EmptySet
<1>2. Inv /\ UsedIsExact /\ [Next]_vars => Inv' /\ UsedIsExact'
      BY StepKeepsTypes, StepKeepsBudget, StepKeepsCovered, StepKeepsSettled, StepKeepsUsedExact
         DEF Inv
<1>3. QED BY <1>1, <1>2, PTL DEF Spec

\* Nothing that would still fit is left out, except an anchor dropped as redundant.
THEOREM SelectionMaximal == Spec => []Maximal
<1>1. Inv => Maximal BY DEF Inv, Settled, Maximal, LeftOutForGood
<1>2. QED BY SelectionInvariant, <1>1, PTL

\* No delivered anchor repeats a delivered file.
THEOREM SelectionHasNoDuplicates == Spec => []NoDuplicates
<1>1. Inv => NoDuplicates
      <2> SUFFICES ASSUME Inv, phase = "done", NEW a \in taken, NEW f \in taken,
                          candidates[a].source = "symbol", candidates[a].file = f,
                          candidates[f].level >= Signatures
                   PROVE  FALSE
            BY DEF NoDuplicates
      <2>1. a \in Slots /\ ~Subsumed(a) BY DEF Inv, TypeOK, Settled
      <2>2. QED BY <2>1 DEF Subsumed
<1>2. QED BY SelectionInvariant, <1>1, PTL

\* An anchor dropped as redundant stays covered by its delivered file.
THEOREM SelectionCoversDropped == Spec => []DroppedIsCovered
<1>1. Inv => DroppedIsCovered BY DEF Inv
<1>2. QED BY SelectionInvariant, <1>1, PTL
=============================================================================
