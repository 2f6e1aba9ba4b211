------------------------------ MODULE Decisions ------------------------------
(***************************************************************************)
(* The decision engine of crates/tpt-weave-decisions over the OpenRouter   *)
(* provider of crates/tpt-weave-openrouter, or over the deterministic      *)
(* provider.  Several processes work in one repository: each has an engine *)
(* and a log of its own, and all of them append to one audit file.         *)
(*                                                                         *)
(* An OpenRouter provider exists only where remote decisions are allowed   *)
(* (new_with_privacy returns an error otherwise), so the first return of   *)
(* its decide is never taken.  Redaction, request bodies, latency and      *)
(* token counts are left out.                                              *)
(***************************************************************************)
EXTENDS DecisionSchema, Functions

CONSTANTS
  Clients,      \* the processes
  Categories,   \* the categories they ask about
  Subjects,     \* what they ask about
  Policies,     \* the policies an engine may be built with
  Providers,    \* the providers an engine may be built with
  Hash,         \* FNV-1a of question and context
  MaxRetries,   \* jev.max_retries
  Statuses,     \* the statuses other than success the service answers with
  Confidences,  \* the confidences it reports, as percentages
  AuditWrites,  \* the write calls that make up one audit record
  MaxAsks,      \* bound: decisions started by all processes together
  NoQuestion,
  NoResult

Requests == [category : DecisionCategory, subject : Subjects]

ASSUME DecisionsAssumption ==
  /\ Categories \subseteq DecisionCategory
  /\ Policies \subseteq
       [minConfidence : 0 .. 100,
        overrides : Seq([category : DecisionCategory, choice : STRING])]
  /\ Providers \subseteq {"deterministic", "openrouter", "unaudited"}
  /\ Hash \in [Requests -> Nat]
  /\ MaxRetries \in Nat
  /\ Confidences \subseteq Int
  /\ AuditWrites \in Nat \ {0}
  /\ NoQuestion \notin DecisionCategory

VARIABLES
  policy,    \* the policy of each engine
  provider,  \* the provider of each engine
  pc,        \* where each process is in DecisionEngine::decide
  request,   \* the request being decided, or NoQuestion
  written,   \* the pieces of its audit record that are in the file
  attempts,  \* the posts made for it
  result,    \* what the provider returned for it
  log,       \* DecisionLog of each engine
  asks,      \* how many decisions each process has started
  audit,     \* privacy-audit.jsonl, one element for each write call
  posted     \* history: the decisions of which a request left the process

engine == <<policy, provider>>
vars == <<policy, provider, pc, request, written, attempts, result, log, asks,
          audit, posted>>

Clamp(x) == IF x < 0 THEN 0 ELSE IF x > 100 THEN 100 ELSE x

(* The confidences a provider's answer or a judgement carries. *)
Percents ==
  {Clamp(x) : x \in Confidences} \cup {DefaultConfidence, FallbackConfidence, 0, 100}

Contract == INSTANCE DecisionContract WITH
  asked <- [p \in Clients |-> IF pc[p] = "idle" THEN NoQuestion
                                                ELSE request[p].category]

Init ==
  /\ policy \in [Clients -> Policies]
  /\ provider \in [Clients -> Providers]
  /\ pc = [p \in Clients |-> "idle"]
  /\ request = [p \in Clients |-> NoQuestion]
  /\ written = [p \in Clients |-> 0]
  /\ attempts = [p \in Clients |-> 0]
  /\ result = [p \in Clients |-> NoResult]
  /\ log = [p \in Clients |-> <<>>]
  /\ asks = [p \in Clients |-> 0]
  /\ audit = <<>>
  /\ posted = {}

-----------------------------------------------------------------------------
(* Policy and fallback *)

Outcome(choice, confidence) ==
  [choice |-> choice, confidence |-> confidence, error |-> "none"]
Failure(kind) == [choice |-> "none", confidence |-> 0, error |-> kind]

(* DeterministicFallbackProvider::choose *)
Choose(r) ==
  LET choices == Choices[r.category]
  IN  choices[(Hash[r] % Len(choices)) + 1]

Judgement(c, choice, confidence, source, error) ==
  [category |-> c, choice |-> choice, confidence |-> confidence,
   source |-> source, error |-> error]

(* DecisionPolicy::apply: an override first, then the threshold. *)
Apply(pol, c, outcome) ==
  IF Forced(pol, c) # {}
    THEN Judgement(c, CHOOSE x \in Forced(pol, c) : TRUE, 100, "SafetyOverride", "none")
  ELSE IF outcome.confidence < pol.minConfidence
    THEN Judgement(c, SafeChoice[c], outcome.confidence, "LowConfidence", "none")
  ELSE Judgement(c, outcome.choice, outcome.confidence, "Provider", "none")

(* DecisionPolicy::fallback *)
Fallback(r, error) ==
  Judgement(r.category, Choose(r), FallbackConfidence, "Fallback", error)

(* Mutant of Judged: an override is looked up for answers only. *)
JudgedWithoutLateOverride(pol, r, res) ==
  IF res.error # "none" THEN Fallback(r, res.error)
  ELSE IF res.choice \notin Offered(r.category) THEN Fallback(r, "OutsideChoices")
  ELSE Apply(pol, r.category, res)

(* What decide makes of the provider's result: an answer outside the choices
   counts as a failure, and an override wins over a fallback, too. *)
Judged(pol, r, res) ==
  LET c == r.category
      judgement ==
        IF res.error # "none" THEN Fallback(r, res.error)
        ELSE IF res.choice \notin Offered(c) THEN Fallback(r, "OutsideChoices")
        ELSE Apply(pol, c, res)
  IN  IF judgement.source = "Fallback" /\ Forced(pol, c) # {}
        THEN Judgement(c, CHOOSE x \in Forced(pol, c) : TRUE, 100,
                       "SafetyOverride", "none")
        ELSE judgement

-----------------------------------------------------------------------------
(* DecisionEngine::decide, entered and left *)

Ask(p) ==
  /\ pc[p] = "idle"
  /\ FoldFunction(+, 0, asks) < MaxAsks
  /\ \E c \in Categories, s \in Subjects :
       request' = [request EXCEPT ![p] = [category |-> c, subject |-> s]]
  /\ asks' = [asks EXCEPT ![p] = @ + 1]
  /\ written' = [written EXCEPT ![p] = 0]
  /\ attempts' = [attempts EXCEPT ![p] = 0]
  /\ pc' = [pc EXCEPT ![p] =
       CASE provider[p] = "deterministic" -> "choose"
         [] provider[p] = "openrouter" -> "audit"
         [] provider[p] = "unaudited" -> "post"]
  /\ UNCHANGED <<engine, result, log, audit, posted>>

(* The provider returns res to the engine. *)
Return(p, res) ==
  /\ result' = [result EXCEPT ![p] = res]
  /\ pc' = [pc EXCEPT ![p] = "judge"]

(* The engine judges the result, records it and returns to its caller. *)
Judge(p) ==
  /\ pc[p] = "judge"
  /\ log' = [log EXCEPT ![p] = Append(@, Judged(policy[p], request[p], result[p]))]
  /\ pc' = [pc EXCEPT ![p] = "idle"]
  /\ request' = [request EXCEPT ![p] = NoQuestion]
  /\ result' = [result EXCEPT ![p] = NoResult]
  /\ written' = [written EXCEPT ![p] = 0]
  /\ attempts' = [attempts EXCEPT ![p] = 0]
  /\ UNCHANGED <<engine, asks, audit, posted>>

(* The process is killed in the middle of a decision and started again. *)
Die(p) ==
  /\ pc[p] # "idle"
  /\ log' = [log EXCEPT ![p] = <<>>]
  /\ pc' = [pc EXCEPT ![p] = "idle"]
  /\ request' = [request EXCEPT ![p] = NoQuestion]
  /\ result' = [result EXCEPT ![p] = NoResult]
  /\ written' = [written EXCEPT ![p] = 0]
  /\ attempts' = [attempts EXCEPT ![p] = 0]
  /\ UNCHANGED <<engine, asks, audit, posted>>

-----------------------------------------------------------------------------
(* The providers *)

ChooseLocally(p) ==
  /\ pc[p] = "choose"
  /\ Return(p, Outcome(Choose(request[p]), FallbackConfidence))
  /\ UNCHANGED <<engine, request, written, attempts, log, asks, audit, posted>>

(* RemoteAuditLog::record: serde_json writes to the file itself, piece by
   piece, and the newline is the last piece. *)
WriteAudit(p) ==
  /\ pc[p] = "audit"
  /\ audit' = Append(audit, [by |-> p, ask |-> asks[p], part |-> written[p] + 1])
  /\ written' = [written EXCEPT ![p] = @ + 1]
  /\ pc' = [pc EXCEPT ![p] =
       IF written[p] + 1 = AuditWrites THEN "post" ELSE "audit"]
  /\ UNCHANGED <<engine, request, attempts, result, log, asks, posted>>

(* Mutant of FailAudit: the error is ignored. *)
IgnoreFailedAudit(p) ==
  /\ pc[p] = "audit"
  /\ pc' = [pc EXCEPT ![p] = "post"]
  /\ UNCHANGED <<engine, request, written, attempts, result, log, asks, audit, posted>>

(* The file cannot be opened, or one of the writes fails. *)
FailAudit(p) ==
  /\ pc[p] = "audit"
  /\ Return(p, Failure("Privacy"))
  /\ UNCHANGED <<engine, request, written, attempts, log, asks, audit, posted>>

(* Mutant of Post: the record is made again for every retry. *)
PostWithRecord(p) ==
  /\ pc[p] = "post"
  /\ attempts' = [attempts EXCEPT ![p] = @ + 1]
  /\ posted' = posted \cup {[by |-> p, ask |-> asks[p]]}
  /\ pc' = [pc EXCEPT ![p] = "wait"]
  /\ audit' = IF attempts[p] = 0 THEN audit
              ELSE Append(audit, [by |-> p, ask |-> asks[p], part |-> 1])
  /\ UNCHANGED <<engine, request, written, result, log, asks>>

Post(p) ==
  /\ pc[p] = "post"
  /\ attempts' = [attempts EXCEPT ![p] = @ + 1]
  /\ posted' = posted \cup {[by |-> p, ask |-> asks[p]]}
  /\ pc' = [pc EXCEPT ![p] = "wait"]
  /\ UNCHANGED <<engine, request, written, result, log, asks, audit>>

Retryable(status) == status \in {429, 500, 502, 503, 524, 529}

(* Mutant of RetryOr: one retry more than configured. *)
RetryOnceMore(p, res) ==
  IF attempts[p] <= MaxRetries + 1
    THEN pc' = [pc EXCEPT ![p] = "post"] /\ UNCHANGED result
    ELSE Return(p, res)

(* The attempt failed with res: another one while retries are left. *)
RetryOr(p, res) ==
  IF attempts[p] <= MaxRetries
    THEN pc' = [pc EXCEPT ![p] = "post"] /\ UNCHANGED result
    ELSE Return(p, res)

(* No response arrives: a transport error, or the client's timeout. *)
NoResponse(p) ==
  /\ pc[p] = "wait"
  /\ \E kind \in {"Transport", "Timeout"} : RetryOr(p, Failure(kind))
  /\ UNCHANGED <<engine, request, written, attempts, log, asks, audit, posted>>

ErrorStatus(p) ==
  /\ pc[p] = "wait"
  /\ \E status \in Statuses :
       IF Retryable(status) THEN RetryOr(p, Failure("Http"))
                            ELSE Return(p, Failure("Http"))
  /\ UNCHANGED <<engine, request, written, attempts, log, asks, audit, posted>>

(* A success whose body breaks off or does not parse: never retried. *)
BadBody(p) ==
  /\ pc[p] = "wait"
  /\ \E kind \in {"Transport", "InvalidResponse"} : Return(p, Failure(kind))
  /\ UNCHANGED <<engine, request, written, attempts, log, asks, audit, posted>>

(* A parsed answer: any non-empty choice, with or without a confidence. *)
GoodBody(p) ==
  /\ pc[p] = "wait"
  /\ \E choice \in Offered(request[p].category) \cup {"unlisted"} :
       \/ \E x \in Confidences : Return(p, Outcome(choice, Clamp(x)))
       \/ Return(p, Outcome(choice, DefaultConfidence))
  /\ UNCHANGED <<engine, request, written, attempts, log, asks, audit, posted>>

-----------------------------------------------------------------------------
Decide(p) ==
  \/ ChooseLocally(p) \/ WriteAudit(p) \/ FailAudit(p) \/ Post(p)
  \/ NoResponse(p) \/ ErrorStatus(p) \/ BadBody(p) \/ GoodBody(p)
  \/ Judge(p)

Next == \E p \in Clients : Ask(p) \/ Decide(p) \/ Die(p)

(* decide runs to its end: every post ends, at the latest by the timeout the
   client is built with, and everything else is local. *)
Spec == Init /\ [][Next]_vars /\ \A p \in Clients : WF_vars(Decide(p))

-----------------------------------------------------------------------------
(* Properties *)

JudgementSet ==
  UNION {Contract!Accountable(pol, c) : pol \in Policies, c \in Categories}

Results ==
  [choice : (UNION {Offered(c) : c \in Categories}) \cup {"unlisted", "none"},
   confidence : Percents,
   error : Contract!ErrorKinds \cup {"none"}]

(* The types of the state; in particular a request is posted at most
   max_retries + 1 times (OpenRouterProvider::decide) and every logged
   judgement is one DecisionEngine::decide may return. *)
TypeOK ==
  /\ policy \in [Clients -> Policies]
  /\ provider \in [Clients -> Providers]
  /\ pc \in [Clients -> {"idle", "choose", "audit", "post", "wait", "judge"}]
  /\ request \in [Clients -> Requests \cup {NoQuestion}]
  /\ written \in [Clients -> 0 .. AuditWrites]
  /\ attempts \in [Clients -> 0 .. MaxRetries + 1]
  /\ result \in [Clients -> Results \cup {NoResult}]
  /\ log \in [Clients -> Seq(JudgementSet)]
  /\ asks \in [Clients -> Nat]
  /\ audit \in Seq([by : Clients, ask : Nat, part : 1 .. AuditWrites])
  /\ posted \subseteq [by : Clients, ask : Nat]

InFile(d, part) ==
  \E i \in DOMAIN audit : audit[i] = [by |-> d.by, ask |-> d.ask, part |-> part]

(* Nothing leaves a process of which the audit file does not hold the whole
   record, whatever fails, dies or is retried on the way: an audit that fails
   keeps the request from being sent. *)
SentIsAudited ==
  \A d \in posted : provider[d.by] = "openrouter" =>
    \A part \in 1 .. AuditWrites : InFile(d, part)

(* The audit file holds one record for one decision, however often the
   request is posted: a decision's pieces come in order and none twice. *)
AuditedOnce ==
  \A i, k \in DOMAIN audit :
    (i < k /\ audit[i].by = audit[k].by /\ audit[i].ask = audit[k].ask)
      => audit[i].part < audit[k].part

(* The engine keeps its contract: every question is answered by one logged
   judgement that the policy accounts for, over any provider and any failure. *)
KeepsContract == Contract!Spec

(* Every line of the audit file is one record, as the readers of a JSON Lines
   file expect of RemoteAuditLog::record: a record begins on a fresh line. *)
AuditIsJsonLines ==
  \A i \in DOMAIN audit :
    audit[i].part = 1 /\ i > 1 => audit[i - 1].part = AuditWrites
=============================================================================
