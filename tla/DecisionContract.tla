-------------------------- MODULE DecisionContract --------------------------
(***************************************************************************)
(* What DecisionEngine::decide promises its caller, whatever the provider  *)
(* does: one judgement for every question, one log record for every        *)
(* judgement, and a judgement the policy can account for.  A process may   *)
(* die in the middle of a decision; its log is in memory and dies with it. *)
(***************************************************************************)
EXTENDS DecisionSchema

CONSTANTS Clients,     \* the processes, each with an engine of its own
          Categories,  \* the categories they ask about
          Policies,    \* the policies they may be configured with
          Percents,    \* the confidences a judgement may carry
          NoQuestion   \* no decision is pending

VARIABLES policy,  \* the policy of each engine, fixed at its construction
          asked,   \* the category being decided, or NoQuestion
          log      \* the judgements the engine has recorded
vars == <<policy, asked, log>>

ErrorKinds ==
  {"Privacy", "Transport", "Timeout", "Http", "InvalidResponse", "OutsideChoices"}

Judgements(c, choices, confidences, source, errors) ==
  [category : {c}, choice : choices, confidence : confidences,
   source : {source}, error : errors]

(* The judgements of category c that policy p accounts for: the forced choice
   where there is one; otherwise a provider's confident answer, the safe choice
   in place of a doubtful one, or a fallback that names its reason. *)
Accountable(p, c) ==
  IF Forced(p, c) # {}
    THEN Judgements(c, Forced(p, c), {100}, "SafetyOverride", {"none"})
    ELSE UNION {
      Judgements(c, Offered(c), {x \in Percents : x >= p.minConfidence},
                 "Provider", {"none"}),
      Judgements(c, {SafeChoice[c]}, {x \in Percents : x < p.minConfidence},
                 "LowConfidence", {"none"}),
      Judgements(c, Offered(c), {FallbackConfidence}, "Fallback", ErrorKinds)}

Init ==
  /\ policy \in [Clients -> Policies]
  /\ asked = [p \in Clients |-> NoQuestion]
  /\ log = [p \in Clients |-> <<>>]

Ask(p) ==
  /\ asked[p] = NoQuestion
  /\ \E c \in Categories : asked' = [asked EXCEPT ![p] = c]
  /\ UNCHANGED <<policy, log>>

Answer(p) ==
  /\ asked[p] # NoQuestion
  /\ \E j \in Accountable(policy[p], asked[p]) :
       log' = [log EXCEPT ![p] = Append(@, j)]
  /\ asked' = [asked EXCEPT ![p] = NoQuestion]
  /\ UNCHANGED policy

Die(p) ==
  /\ asked[p] # NoQuestion
  /\ asked' = [asked EXCEPT ![p] = NoQuestion]
  /\ log' = [log EXCEPT ![p] = <<>>]
  /\ UNCHANGED policy

Next == \E p \in Clients : Ask(p) \/ Answer(p) \/ Die(p)

(* Every question is answered, unless the process dies first. *)
Spec == Init /\ [][Next]_vars /\ \A p \in Clients : WF_vars(Answer(p))
=============================================================================
