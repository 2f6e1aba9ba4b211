-------------------------- MODULE ContextSelection --------------------------
(***************************************************************************)
(* The last stage of Retriever::retrieve (tpt-weave-context): choosing,    *)
(* from the scored candidates, those delivered within the token budget.    *)
(* select_within_budget admits candidates greedily in delivery order, then *)
(* drops the symbol anchors whose file is delivered anyway, and repeats    *)
(* both until nothing changes.                                             *)
(***************************************************************************)
EXTENDS Integers, FiniteSets

CONSTANTS
  N,          \* number of candidates
  U32Max,     \* largest token count a u32 holds
  Estimates,  \* token estimates candidates may have
  Budgets,    \* budgets of a request
  MaxLevels   \* levels a request may ask for

ASSUME SelectionAssumption ==
  /\ N \in Nat \ {0}
  /\ U32Max \in Nat
  /\ Estimates \subseteq 0 .. U32Max /\ Budgets \subseteq 0 .. U32Max
  /\ MaxLevels \subseteq 0 .. 5

Metadata   == 0   \* ContextLevel, in declaration order
Symbols    == 1
Signatures == 2
Levels     == 0 .. 5

Slots    == 1 .. N
Overview == N     \* its score, normalise(1), is the lowest and sorts last on a tie

VARIABLES
  candidates,  \* the scored candidates in delivery order
  budget,      \* request.budget_tokens
  maxLevel,    \* request.max_level
  taken, excluded, used, changed,   \* the variables of select_within_budget
  phase,       \* where it is: "overview", "greedy", "dedup", "done"
  next         \* the index of the running pass

request == <<candidates, budget, maxLevel>>
vars    == <<request, taken, excluded, used, changed, phase, next>>

Sources == {"repository", "file", "symbol", "dependency"}

Candidates == [source : Sources, tokens : Estimates, level : Levels, file : Slots]

\* effective_level: what a file is rendered at when its text is unavailable.
EffectiveLevel(level, hasSource) ==
  CASE hasSource -> level
    [] ~hasSource /\ level \in {Metadata, Symbols} -> Symbols
    [] OTHER -> Signatures

\* Sorting by score, then by source key: the overview comes last, and the symbol
\* anchors, which all have one score, come together.
Orders ==
  {s \in [Slots -> Sources] :
     /\ \A c \in Slots : s[c] = "repository" <=> c = Overview
     /\ \A a, b, c \in Slots :
          a < b /\ b < c /\ s[a] = "symbol" /\ s[c] = "symbol" => s[b] = "symbol"}

\* Every symbol anchor names its file's candidate: a matched symbol scores its file.
Files(s) ==
  {f \in [Slots -> Slots] :
     \A c \in Slots : IF s[c] = "symbol" THEN s[f[c]] = "file" ELSE f[c] = c}

\* Only file candidates follow the level of the request.
LevelOf(source, level, hasSource) ==
  CASE source = "repository" -> Metadata
    [] source = "file" -> EffectiveLevel(level, hasSource)
    [] OTHER -> Signatures

Init ==
  /\ maxLevel \in MaxLevels
  /\ \E source \in Orders, tokens \in [Slots -> Estimates] :
       \E file \in Files(source), readable \in SUBSET {c \in Slots : source[c] = "file"} :
         candidates = [c \in Slots |->
           [source |-> source[c], tokens |-> tokens[c], file |-> file[c],
            level |-> LevelOf(source[c], maxLevel, c \in readable)]]
  /\ budget \in Budgets
  /\ taken = {} /\ excluded = {} /\ used = 0
  /\ changed = FALSE /\ phase = "overview" /\ next = 1

SaturatingAdd(a, b) == IF a + b > U32Max THEN U32Max ELSE a + b
SaturatingSub(a, b) == IF a < b THEN 0 ELSE a - b

\* Mutant: a candidate is compared with the whole budget.
FitsAlone(c) == candidates[c].tokens <= budget

Fits(c) == SaturatingAdd(used, candidates[c].tokens) <= budget

\* Mutant: a file at exactly Signatures does not cover its anchors.
SubsumedByDeeper(c) ==
  /\ c \in taken
  /\ candidates[c].source = "symbol"
  /\ candidates[c].file \in taken
  /\ candidates[candidates[c].file].level > Signatures

\* Mutant: the file need not have been selected.
SubsumedByCandidate(c) ==
  /\ c \in taken
  /\ candidates[c].source = "symbol"
  /\ candidates[candidates[c].file].level >= Signatures

\* The file of a symbol anchor is delivered with at least its signatures.
Subsumed(c) ==
  /\ c \in taken
  /\ candidates[c].source = "symbol"
  /\ candidates[c].file \in taken
  /\ candidates[candidates[c].file].level >= Signatures

(***************************************************************************)
(* The steps.                                                              *)
(***************************************************************************)
AdmitOverview ==
  /\ phase = "overview"
  /\ phase' = "greedy"
  /\ LET fits == candidates[Overview].tokens <= budget IN
       /\ taken' = IF fits THEN {Overview} ELSE {}
       /\ used'  = IF fits THEN candidates[Overview].tokens ELSE 0
  /\ UNCHANGED <<request, excluded, changed, next>>

Admits(c) == c \notin taken \cup excluded /\ Fits(c)

Admit ==
  /\ phase = "greedy" /\ next \in Slots
  /\ Admits(next)
  /\ taken' = taken \cup {next}
  /\ used' = SaturatingAdd(used, candidates[next].tokens)
  /\ changed' = TRUE
  /\ next' = next + 1
  /\ UNCHANGED <<request, excluded, phase>>

PassOver ==
  /\ phase = "greedy" /\ next \in Slots
  /\ ~Admits(next)
  /\ next' = next + 1
  /\ UNCHANGED <<request, taken, excluded, used, changed, phase>>

EndGreedy ==
  /\ phase = "greedy" /\ next = N + 1
  /\ phase' = "dedup" /\ next' = 1
  /\ UNCHANGED <<request, taken, excluded, used, changed>>

\* Mutant: the anchor's tokens are not refunded.
DropWithoutRefund ==
  /\ phase = "dedup" /\ next \in Slots
  /\ Subsumed(next)
  /\ taken' = taken \ {next}
  /\ excluded' = excluded \cup {next}
  /\ changed' = TRUE
  /\ next' = next + 1
  /\ UNCHANGED <<request, used, phase>>

\* Mutant: the anchor may be admitted again.
DropForNow ==
  /\ phase = "dedup" /\ next \in Slots
  /\ Subsumed(next)
  /\ taken' = taken \ {next}
  /\ used' = SaturatingSub(used, candidates[next].tokens)
  /\ changed' = TRUE
  /\ next' = next + 1
  /\ UNCHANGED <<request, excluded, phase>>

DropAnchor ==
  /\ phase = "dedup" /\ next \in Slots
  /\ Subsumed(next)
  /\ taken' = taken \ {next}
  /\ excluded' = excluded \cup {next}
  /\ used' = SaturatingSub(used, candidates[next].tokens)
  /\ changed' = TRUE
  /\ next' = next + 1
  /\ UNCHANGED <<request, phase>>

\* Mutant: the pass runs one past the last candidate.
KeepPastEnd ==
  /\ phase = "dedup" /\ next \in 1 .. N + 1
  /\ ~Subsumed(next)
  /\ next' = next + 1
  /\ UNCHANGED <<request, taken, excluded, used, changed, phase>>

Keep ==
  /\ phase = "dedup" /\ next \in Slots
  /\ ~Subsumed(next)
  /\ next' = next + 1
  /\ UNCHANGED <<request, taken, excluded, used, changed, phase>>

\* Mutant: there is one round only.
EndAfterOneRound ==
  /\ phase = "dedup" /\ next = N + 1
  /\ phase' = "done" /\ next' = 1
  /\ changed' = FALSE
  /\ UNCHANGED <<request, taken, excluded, used>>

EndDedup ==
  /\ phase = "dedup" /\ next = N + 1
  /\ phase' = IF changed THEN "greedy" ELSE "done"
  /\ next' = 1
  /\ changed' = FALSE
  /\ UNCHANGED <<request, taken, excluded, used>>

Next == AdmitOverview \/ Admit \/ PassOver \/ EndGreedy \/ DropAnchor \/ Keep \/ EndDedup

Spec == Init /\ [][Next]_vars

(***************************************************************************)
(* Properties.                                                             *)
(***************************************************************************)
TypeOK ==
  /\ candidates \in [Slots -> Candidates]
  /\ \A c \in Slots : candidates[c].source = "symbol" => candidates[candidates[c].file].source = "file"
  /\ budget \in Budgets
  /\ maxLevel \in MaxLevels
  /\ taken \subseteq Slots /\ excluded \subseteq Slots
  /\ used \in 0 .. U32Max
  /\ changed \in BOOLEAN
  /\ phase \in {"overview", "greedy", "dedup", "done"}
  /\ next \in 1 .. N + 1

\* The running total never exceeds the budget, through admissions, saturation
\* and the refunds of dropped anchors (select_within_budget).
WithinBudget == used <= budget

\* The tokens of the selected candidates, each with its place in its candidate.
DeliveredTokens ==
  {d \in taken \X (1 .. U32Max) : d[2] <= candidates[d[1]].tokens}

\* The running total is what the selected candidates really cost, so the delivered
\* context keeps to the budget; only a budget of u32::MAX lets the sum saturate.
UsedIsExact == budget < U32Max => used = Cardinality(DeliveredTokens)

\* A refund is never lost: nothing left out of the delivered selection would
\* still fit, except an anchor that was dropped on purpose.
Maximal == phase = "done" => \A c \in Slots \ (taken \cup excluded) : ~Fits(c)

\* No delivered symbol anchor repeats what a delivered file already shows.
NoDuplicates ==
  phase = "done" =>
    ~\E a, f \in taken : /\ candidates[a].source = "symbol" /\ candidates[a].file = f
                         /\ candidates[f].level >= Signatures

\* An anchor dropped in an early pass stays covered by its file to the end, though
\* later passes change the selection.
DroppedIsCovered ==
  \A c \in excluded : /\ c \notin taken
                      /\ candidates[c].source = "symbol"
                      /\ candidates[c].file \in taken
                      /\ candidates[candidates[c].file].level >= Signatures

\* What a pass that changed nothing has established so far; the inductive form of
\* Maximal and NoDuplicates.
LeftOutForGood(c) == c \in taken \cup excluded \/ ~Fits(c)

Settled ==
  /\ phase = "overview" => taken = {} /\ excluded = {} /\ next = 1
  /\ phase = "greedy" /\ ~changed => \A c \in Slots : c < next => LeftOutForGood(c)
  /\ phase = "dedup" /\ ~changed =>
       \A c \in Slots : LeftOutForGood(c) /\ (c < next => ~Subsumed(c))
  /\ phase = "done" => \A c \in Slots : LeftOutForGood(c) /\ ~Subsumed(c)

\* "Iterates until stable" ends.
Terminates == <>(phase = "done")
============================================================================
