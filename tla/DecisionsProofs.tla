-------------------------- MODULE DecisionsProofs --------------------------
(***************************************************************************)
(* Proofs about Decisions, for any processes, policies, providers, retry   *)
(* limits and failures: every judgement is one the policy accounts for,    *)
(* nothing is sent that is not in the audit file, a decision is recorded   *)
(* there once, and every step of the engine is one its contract allows.    *)
(***************************************************************************)
EXTENDS Decisions, TLAPS

-----------------------------------------------------------------------------
(* Judgements *)

(* Every category offers something. *)
LEMMA ChoicesNotEmpty ==
  \A c \in DecisionCategory : Len(Choices[c]) \in Nat \ {0}
BY DEF DecisionCategory, Choices

(* DeterministicFallbackProvider::choose picks one of the choices offered. *)
LEMMA ChooseIsOffered ==
  ASSUME NEW r \in Requests
  PROVE  Choose(r) \in Offered(r.category)
<1> DEFINE n == Len(Choices[r.category])
<1>1. r.category \in DecisionCategory
  BY DEF Requests
<1>2. n \in Nat \ {0}
  BY <1>1, ChoicesNotEmpty
<1>3. Hash[r] \in Nat
  BY DecisionsAssumption
<1>4. (Hash[r] % n) + 1 \in 1 .. n
  BY <1>2, <1>3
<1> QED
  BY <1>4 DEF Choose, Offered

(* An override that forces something forces one of the offered choices. *)
LEMMA ForcedIsChosen ==
  ASSUME NEW pol, NEW c, Forced(pol, c) # {}
  PROVE  (CHOOSE x \in Forced(pol, c) : TRUE) \in Forced(pol, c)
OBVIOUS

LEMMA PercentsAreInts ==
  /\ Percents \subseteq 0 .. 100
  /\ {0, 35, 50, 100} \subseteq Percents
<1>1. Confidences \subseteq Int
  BY DecisionsAssumption
<1> QED
  BY <1>1 DEF Percents, Clamp, DefaultConfidence, FallbackConfidence

(* The contract and the engine read one schema. *)
LEMMA OneSchema ==
  /\ Contract!Choices = Choices
  /\ Contract!SafeChoice = SafeChoice
  /\ Contract!FallbackConfidence = FallbackConfidence
  /\ \A c : Contract!Offered(c) = Offered(c)
  /\ \A pol, c : Contract!Forced(pol, c) = Forced(pol, c)
<1>1. Contract!Choices = Choices
  BY DEF Contract!Choices, Choices
<1>2. Contract!SafeChoice = SafeChoice
  BY DEF Contract!SafeChoice, SafeChoice
<1>3. Contract!FallbackConfidence = FallbackConfidence
  BY DEF Contract!FallbackConfidence, FallbackConfidence
<1>4. \A c : Contract!Offered(c) = Offered(c)
  BY <1>1 DEF Contract!Offered, Offered
<1>5. \A pol, c : Contract!OverrideFor(pol, c) = OverrideFor(pol, c)
  BY DEF Contract!OverrideFor, OverrideFor
<1>6. \A pol, c : Contract!Forced(pol, c) = Forced(pol, c)
  BY <1>4, <1>5 DEF Contract!Forced, Forced
<1> QED
  BY <1>1, <1>2, <1>3, <1>4, <1>6

(* Whatever the provider returned, decide's judgement is one that the policy
   accounts for. *)
LEMMA JudgedIsAccountable ==
  ASSUME NEW pol \in Policies, NEW r \in Requests, NEW res \in Results
  PROVE  Judged(pol, r, res) \in Contract!Accountable(pol, r.category)
<1> DEFINE c == r.category
           failed == res.error # "none" \/ res.choice \notin Offered(c)
           error == IF res.error # "none" THEN res.error ELSE "OutsideChoices"
           forced == Judgement(c, CHOOSE x \in Forced(pol, c) : TRUE, 100,
                               "SafetyOverride", "none")
<1>0. /\ pol.minConfidence \in 0 .. 100
      /\ res.confidence \in Percents /\ res.confidence \in Int
      /\ res.error \in Contract!ErrorKinds \cup {"none"}
  <2>1. pol \in [minConfidence : 0 .. 100,
                 overrides : Seq([category : DecisionCategory, choice : STRING])]
    BY DecisionsAssumption
  <2>2. pol.minConfidence \in 0 .. 100
    BY <2>1
  <2>3. res.confidence \in Percents /\ res.error \in Contract!ErrorKinds \cup {"none"}
    BY DEF Results
  <2>4. res.confidence \in 0 .. 100
    BY <2>3, PercentsAreInts
  <2>5. res.confidence \in Int
    BY <2>4
  <2> QED
    BY <2>2, <2>3, <2>5
<1>1. CASE Forced(pol, c) # {}
  <2>1. forced \in Contract!Judgements(c, Forced(pol, c), {100}, "SafetyOverride", {"none"})
    BY <1>1, ForcedIsChosen DEF Judgement, Contract!Judgements
  <2>2. Judged(pol, r, res) = forced
    BY <1>1 DEF Judged, Apply, Fallback, Judgement
  <2> QED
    BY <1>1, <2>1, <2>2, OneSchema DEF Contract!Accountable
<1>2. CASE Forced(pol, c) = {} /\ failed
  <2>1. Judged(pol, r, res) = Judgement(c, Choose(r), 35, "Fallback", error)
    BY <1>2 DEF Judged, Fallback, Judgement, FallbackConfidence
  <2>2. error \in Contract!ErrorKinds
    BY <1>0 DEF Contract!ErrorKinds
  <2>3. Judgement(c, Choose(r), 35, "Fallback", error) \in
          Contract!Judgements(c, Offered(c), {FallbackConfidence}, "Fallback",
                              Contract!ErrorKinds)
    BY <2>2, ChooseIsOffered DEF Judgement, Contract!Judgements, FallbackConfidence
  <2> QED
    BY <1>2, <2>1, <2>3, OneSchema DEF Contract!Accountable
<1>3. CASE Forced(pol, c) = {} /\ ~failed /\ res.confidence < pol.minConfidence
  <2>1. Judged(pol, r, res) =
          Judgement(c, SafeChoice[c], res.confidence, "LowConfidence", "none")
    BY <1>3 DEF Judged, Apply, Judgement
  <2>2. Judgement(c, SafeChoice[c], res.confidence, "LowConfidence", "none") \in
          Contract!Judgements(c, {SafeChoice[c]}, {x \in Percents : x < pol.minConfidence},
                              "LowConfidence", {"none"})
    BY <1>0, <1>3 DEF Judgement, Contract!Judgements
  <2> QED
    BY <1>3, <2>1, <2>2, OneSchema DEF Contract!Accountable
<1>4. CASE Forced(pol, c) = {} /\ ~failed /\ ~(res.confidence < pol.minConfidence)
  <2>1. Judged(pol, r, res) =
          Judgement(c, res.choice, res.confidence, "Provider", "none")
    BY <1>4 DEF Judged, Apply, Judgement
  <2>2. Judgement(c, res.choice, res.confidence, "Provider", "none") \in
          Contract!Judgements(c, Offered(c), {x \in Percents : x >= pol.minConfidence},
                              "Provider", {"none"})
    BY <1>0, <1>4 DEF Judgement, Contract!Judgements
  <2> QED
    BY <1>4, <2>1, <2>2, OneSchema DEF Contract!Accountable
<1> QED
  BY <1>1, <1>2, <1>3, <1>4

-----------------------------------------------------------------------------
(* The invariant *)

(* What each place in decide knows: the pending request is of a category asked
   about, a result is there to be judged, and the next post is within the
   limit. *)
PlaceOK(p) ==
  /\ pc[p] # "idle" => request[p] \in Requests /\ request[p].category \in Categories
  /\ pc[p] = "judge" => result[p] \in Results
  /\ pc[p] \in {"choose", "audit"} => attempts[p] = 0
  /\ pc[p] = "audit" => provider[p] = "openrouter" /\ written[p] < AuditWrites
  /\ pc[p] = "post" => attempts[p] <= MaxRetries

Places == \A p \in Clients : PlaceOK(p)

(* The audit file holds no piece of a decision that has not begun, and of the
   record being written no piece that is still to come. *)
NotAhead ==
  \A i \in DOMAIN audit :
    /\ audit[i].ask <= asks[audit[i].by]
    /\ audit[i].ask = asks[audit[i].by] /\ pc[audit[i].by] = "audit"
         => audit[i].part <= written[audit[i].by]

(* It holds every piece written so far, and the whole record before a post. *)
NotBehind ==
  \A p \in Clients :
    /\ pc[p] = "audit" =>
         \A part \in 1 .. written[p] : InFile([by |-> p, ask |-> asks[p]], part)
    /\ pc[p] \in {"post", "wait"} /\ provider[p] = "openrouter" =>
         \A part \in 1 .. AuditWrites : InFile([by |-> p, ask |-> asks[p]], part)

Invariant ==
  TypeOK /\ Places /\ NotAhead /\ NotBehind /\ SentIsAudited /\ AuditedOnce

AuditPieces == [by : Clients, ask : Nat, part : 1 .. AuditWrites]

LEMMA InitInvariant == Init => Invariant
<1> SUFFICES ASSUME Init PROVE Invariant
  OBVIOUS
<1>1. TypeOK
  BY DecisionsAssumption DEF Init, TypeOK
<1>2. Places /\ NotAhead /\ NotBehind /\ SentIsAudited /\ AuditedOnce
  BY DEF Init, Places, PlaceOK, NotAhead, NotBehind, SentIsAudited, AuditedOnce
<1> QED
  BY <1>1, <1>2 DEF Invariant

(* The results that the providers return are results. *)
LEMMA FailureIsResult ==
  ASSUME NEW kind \in Contract!ErrorKinds
  PROVE  Failure(kind) \in Results
<1>1. 0 \in Percents
  BY PercentsAreInts
<1>2. kind \in Contract!ErrorKinds \cup {"none"}
  OBVIOUS
<1>3. "none" \in (UNION {Offered(c) : c \in Categories}) \cup {"unlisted", "none"}
  OBVIOUS
<1> QED
  BY <1>1, <1>2, <1>3 DEF Failure, Results

LEMMA OutcomeIsResult ==
  ASSUME NEW c \in Categories, NEW choice \in Offered(c) \cup {"unlisted"},
         NEW confidence \in Percents
  PROVE  Outcome(choice, confidence) \in Results
<1>1. choice \in (UNION {Offered(d) : d \in Categories}) \cup {"unlisted", "none"}
  OBVIOUS
<1>2. "none" \in Contract!ErrorKinds \cup {"none"}
  OBVIOUS
<1> QED
  BY <1>1, <1>2 DEF Outcome, Results

(* A step that ends a call to the provider returns a result or posts again. *)
Returns(p) ==
  \/ /\ pc'[p] = "judge"
     /\ result'[p] \in Results
     /\ result' = [result EXCEPT ![p] = result'[p]]
  \/ /\ pc[p] = "wait" /\ pc'[p] = "post"
     /\ attempts[p] <= MaxRetries
     /\ UNCHANGED result

LEMMA ProviderReturns ==
  ASSUME Invariant, NEW p \in Clients,
         \/ ChooseLocally(p) \/ FailAudit(p)
         \/ NoResponse(p) \/ ErrorStatus(p) \/ BadBody(p) \/ GoodBody(p)
  PROVE  /\ Returns(p)
         /\ pc[p] # "idle" /\ pc' = [pc EXCEPT ![p] = pc'[p]]
         /\ UNCHANGED <<engine, request, written, attempts, log, asks, audit, posted>>
<1> USE DEF Invariant
<1>1. result \in [Clients -> Results \cup {NoResult}] /\ DOMAIN pc = Clients
  BY DEF TypeOK
<1>2. pc[p] # "idle" => request[p] \in Requests /\ request[p].category \in Categories
  BY DEF Places, PlaceOK
<1>3. ASSUME NEW res \in Results, Return(p, res)
      PROVE  /\ pc'[p] = "judge" /\ pc' = [pc EXCEPT ![p] = pc'[p]]
             /\ result'[p] \in Results /\ result' = [result EXCEPT ![p] = result'[p]]
  BY <1>1, <1>3 DEF Return
<1>4. CASE ChooseLocally(p)
  <2>1. Choose(request[p]) \in Offered(request[p].category)
    BY <1>2, <1>4, ChooseIsOffered DEF ChooseLocally
  <2>2. Outcome(Choose(request[p]), FallbackConfidence) \in Results
    BY <1>2, <1>4, <2>1, OutcomeIsResult, PercentsAreInts
    DEF ChooseLocally, FallbackConfidence
  <2> QED
    BY <1>3, <1>4, <2>2 DEF ChooseLocally, Returns
<1>5. CASE FailAudit(p)
  <2>1. Failure("Privacy") \in Results
    BY FailureIsResult DEF Contract!ErrorKinds
  <2> QED
    BY <1>3, <1>5, <2>1 DEF FailAudit, Returns
<1>6. ASSUME NEW kind \in Contract!ErrorKinds, pc[p] = "wait", RetryOr(p, Failure(kind))
      PROVE  Returns(p) /\ pc' = [pc EXCEPT ![p] = pc'[p]]
  BY <1>1, <1>3, <1>6, FailureIsResult DEF RetryOr, Returns
<1>7. CASE NoResponse(p)
  BY <1>6, <1>7 DEF NoResponse, Contract!ErrorKinds
<1>8. CASE ErrorStatus(p)
  <2>1. "Http" \in Contract!ErrorKinds
    BY DEF Contract!ErrorKinds
  <2>2. PICK status \in Statuses :
          IF Retryable(status) THEN RetryOr(p, Failure("Http"))
                               ELSE Return(p, Failure("Http"))
    BY <1>8 DEF ErrorStatus
  <2>3. Returns(p) /\ pc' = [pc EXCEPT ![p] = pc'[p]]
    BY <1>3, <1>6, <1>8, <2>1, <2>2, FailureIsResult DEF ErrorStatus, Returns
  <2> QED
    BY <1>8, <2>3 DEF ErrorStatus
<1>9. CASE BadBody(p)
  BY <1>3, <1>9, FailureIsResult DEF BadBody, Returns, Contract!ErrorKinds
<1>10. CASE GoodBody(p)
  <2>1. PICK choice \in Offered(request[p].category) \cup {"unlisted"} :
          \/ \E x \in Confidences : Return(p, Outcome(choice, Clamp(x)))
          \/ Return(p, Outcome(choice, DefaultConfidence))
    BY <1>10 DEF GoodBody
  <2>2. request[p].category \in Categories
    BY <1>2, <1>10 DEF GoodBody
  <2>3. \E x \in Percents : Return(p, Outcome(choice, x))
    <3>1. \A x \in Confidences : Clamp(x) \in Percents
      BY DEF Percents
    <3>2. DefaultConfidence \in Percents
      BY DEF Percents
    <3> QED
      BY <2>1, <3>1, <3>2
  <2>4. PICK res \in Results : Return(p, res)
    BY <2>1, <2>2, <2>3, OutcomeIsResult
  <2> QED
    BY <1>3, <1>10, <2>4 DEF GoodBody, Returns
<1> QED
  BY <1>4, <1>5, <1>7, <1>8, <1>9, <1>10

-----------------------------------------------------------------------------
(* Every step preserves the invariant *)

LEMMA AuditTyped ==
  ASSUME TypeOK
  PROVE  /\ audit \in Seq(AuditPieces)
         /\ \A i \in DOMAIN audit :
              /\ audit[i].by \in Clients /\ audit[i].ask \in Nat
              /\ audit[i].part \in 1 .. AuditWrites
<1>1. audit \in Seq(AuditPieces)
  BY DEF TypeOK, AuditPieces
<1>2. \A i \in DOMAIN audit : audit[i] \in AuditPieces
  BY <1>1
<1> QED
  BY <1>1, <1>2 DEF AuditPieces

(* A provider step: one process returns a result or posts again. *)
LEMMA ProviderStep ==
  ASSUME Invariant, NEW p \in Clients, Returns(p),
         pc[p] # "idle", pc' = [pc EXCEPT ![p] = pc'[p]],
         UNCHANGED <<engine, request, written, attempts, log, asks, audit, posted>>
  PROVE  Invariant'
<1> USE DEF Invariant
<1>1. \/ pc'[p] = "judge"
      \/ pc[p] = "wait" /\ pc'[p] = "post" /\ attempts[p] <= MaxRetries
  BY DEF Returns
<1>2. \A q \in Clients \ {p} : pc'[q] = pc[q]
  BY DEF TypeOK
<1>3. \/ result' = [result EXCEPT ![p] = result'[p]] /\ result'[p] \in Results
      \/ UNCHANGED result
  BY DEF Returns
<1>4. TypeOK'
  BY <1>1, <1>3 DEF TypeOK, engine
<1>5. Places'
  <2> SUFFICES ASSUME NEW q \in Clients PROVE PlaceOK(q)'
    BY DEF Places, PlaceOK
  <2>1. CASE q = p
    BY <1>1, <2>1 DEF Places, PlaceOK, Returns, engine
  <2>2. CASE q # p
    <3>1. result'[q] = result[q]
      BY <2>2, <1>3 DEF TypeOK
    <3> QED
      BY <1>2, <2>2, <3>1 DEF Places, PlaceOK, engine
  <2> QED
    BY <2>1, <2>2
<1>6. NotAhead'
  <2>1. \A q \in Clients : pc'[q] = "audit" => pc[q] = "audit"
    BY <1>1, <1>2
  <2>2. \A i \in DOMAIN audit : audit[i].by \in Clients
    BY AuditTyped
  <2> QED
    BY <2>1, <2>2 DEF NotAhead
<1>7. NotBehind'
  <2>1. \A q \in Clients :
          /\ pc'[q] = "audit" => pc[q] = "audit"
          /\ pc'[q] \in {"post", "wait"} => pc[q] \in {"post", "wait"}
    BY <1>1, <1>2
  <2> QED
    BY <2>1 DEF NotBehind, InFile, engine
<1>8. SentIsAudited' /\ AuditedOnce'
  BY DEF SentIsAudited, AuditedOnce, InFile, engine
<1> QED
  BY <1>4, <1>5, <1>6, <1>7, <1>8

(* A process goes back to its caller, judged or killed. *)
LEMMA LeaveStep ==
  ASSUME Invariant, NEW p \in Clients, Judge(p) \/ Die(p)
  PROVE  Invariant'
<1> USE DEF Invariant
<1>1. /\ pc[p] # "idle" /\ pc' = [pc EXCEPT ![p] = "idle"]
      /\ request' = [request EXCEPT ![p] = NoQuestion]
      /\ result' = [result EXCEPT ![p] = NoResult]
      /\ written' = [written EXCEPT ![p] = 0]
      /\ attempts' = [attempts EXCEPT ![p] = 0]
      /\ UNCHANGED <<policy, provider, asks, audit, posted>>
  BY DEF Judge, Die, engine
<1>2. log' \in [Clients -> Seq(JudgementSet)]
  <2>1. CASE Judge(p)
    <3>0. /\ policy[p] \in Policies /\ result[p] \in Results
          /\ request[p] \in Requests /\ request[p].category \in Categories
      BY <2>1 DEF Judge, Places, PlaceOK, TypeOK
    <3>1. Judged(policy[p], request[p], result[p])
            \in Contract!Accountable(policy[p], request[p].category)
      BY <3>0, JudgedIsAccountable
    <3>2. Judged(policy[p], request[p], result[p]) \in JudgementSet
      BY <3>0, <3>1 DEF JudgementSet
    <3> QED
      BY <2>1, <3>2 DEF Judge, TypeOK
  <2>2. CASE Die(p)
    BY <2>2 DEF Die, TypeOK
  <2> QED
    BY <2>1, <2>2
<1>3. TypeOK'
  <2>1. policy' \in [Clients -> Policies] /\ provider' \in [Clients -> Providers]
    BY <1>1, <1>2 DEF TypeOK
  <2>2. /\ pc' \in [Clients -> {"idle", "choose", "audit", "post", "wait", "judge"}]
        /\ request' \in [Clients -> Requests \cup {NoQuestion}]
    BY <1>1, <1>2 DEF TypeOK
  <2>3. written' \in [Clients -> 0 .. AuditWrites] /\ attempts' \in [Clients -> 0 .. MaxRetries + 1]
    BY <1>1, <1>2, DecisionsAssumption DEF TypeOK
  <2>4. result' \in [Clients -> Results \cup {NoResult}] /\ log' \in [Clients -> Seq(JudgementSet)]
    BY <1>1, <1>2 DEF TypeOK
  <2>5. /\ asks' \in [Clients -> Nat]
        /\ audit' \in Seq([by : Clients, ask : Nat, part : 1 .. AuditWrites])
        /\ posted' \subseteq [by : Clients, ask : Nat]
    BY <1>1, <1>2 DEF TypeOK
  <2> QED
    BY <2>1, <2>2, <2>3, <2>4, <2>5 DEF TypeOK
<1>4. \A q \in Clients :
        /\ pc'[q] = "idle" \/ (q # p /\ pc'[q] = pc[q])
        /\ q # p => /\ request'[q] = request[q] /\ result'[q] = result[q]
                    /\ written'[q] = written[q] /\ attempts'[q] = attempts[q]
  BY <1>1 DEF TypeOK
<1>5. Places'
  BY <1>1, <1>4 DEF Places, PlaceOK
<1>6. NotAhead'
  <2>1. \A i \in DOMAIN audit : audit[i].by \in Clients
    BY AuditTyped
  <2> QED
    BY <1>1, <1>4, <2>1 DEF NotAhead
<1>7. NotBehind'
  BY <1>1, <1>4 DEF NotBehind, InFile
<1>8. SentIsAudited' /\ AuditedOnce'
  BY <1>1 DEF SentIsAudited, AuditedOnce, InFile
<1> QED
  BY <1>3, <1>5, <1>6, <1>7, <1>8

(* A new decision has a number of its own. *)
LEMMA AskStep ==
  ASSUME Invariant, NEW p \in Clients, Ask(p)
  PROVE  Invariant'
<1> USE DEF Invariant
<1>1. PICK c \in Categories, s \in Subjects :
        request' = [request EXCEPT ![p] = [category |-> c, subject |-> s]]
  BY DEF Ask
<1>2. [category |-> c, subject |-> s] \in Requests
  BY DecisionsAssumption DEF Requests
<1>3. /\ pc[p] = "idle"
      /\ asks' = [asks EXCEPT ![p] = @ + 1]
      /\ written' = [written EXCEPT ![p] = 0]
      /\ attempts' = [attempts EXCEPT ![p] = 0]
      /\ UNCHANGED <<policy, provider, result, log, audit, posted>>
      /\ \E v : pc' = [pc EXCEPT ![p] = v]
  BY DEF Ask, engine
<1>4. \/ provider[p] = "deterministic" /\ pc'[p] = "choose"
      \/ provider[p] = "openrouter" /\ pc'[p] = "audit"
      \/ provider[p] = "unaudited" /\ pc'[p] = "post"
  BY DecisionsAssumption DEF Ask, TypeOK
<1>5. TypeOK'
  <2>1. policy' \in [Clients -> Policies] /\ provider' \in [Clients -> Providers]
    BY <1>1, <1>2, <1>3, <1>4 DEF TypeOK
  <2>2. /\ pc' \in [Clients -> {"idle", "choose", "audit", "post", "wait", "judge"}]
        /\ request' \in [Clients -> Requests \cup {NoQuestion}]
    BY <1>1, <1>2, <1>3, <1>4 DEF TypeOK
  <2>3. written' \in [Clients -> 0 .. AuditWrites] /\ attempts' \in [Clients -> 0 .. MaxRetries + 1]
    BY <1>1, <1>2, <1>3, <1>4, DecisionsAssumption DEF TypeOK
  <2>4. result' \in [Clients -> Results \cup {NoResult}] /\ log' \in [Clients -> Seq(JudgementSet)]
    BY <1>1, <1>2, <1>3, <1>4 DEF TypeOK
  <2>5. /\ asks' \in [Clients -> Nat]
        /\ audit' \in Seq([by : Clients, ask : Nat, part : 1 .. AuditWrites])
        /\ posted' \subseteq [by : Clients, ask : Nat]
    BY <1>1, <1>2, <1>3, <1>4 DEF TypeOK
  <2> QED
    BY <2>1, <2>2, <2>3, <2>4, <2>5 DEF TypeOK
<1>6. /\ request'[p] \in Requests /\ request'[p].category \in Categories
      /\ asks'[p] = asks[p] + 1 /\ written'[p] = 0 /\ attempts'[p] = 0
  BY <1>1, <1>2, <1>3 DEF TypeOK
<1>7. \A q \in Clients \ {p} :
        /\ pc'[q] = pc[q] /\ request'[q] = request[q] /\ asks'[q] = asks[q]
        /\ written'[q] = written[q] /\ attempts'[q] = attempts[q]
  BY <1>1, <1>3 DEF TypeOK
<1>8. Places'
  <2> SUFFICES ASSUME NEW q \in Clients PROVE PlaceOK(q)'
    BY DEF Places, PlaceOK
  <2>1. CASE q = p
    BY <1>3, <1>4, <1>6, <2>1, DecisionsAssumption DEF PlaceOK
  <2>2. CASE q # p
    BY <1>3, <1>7, <2>2 DEF Places, PlaceOK
  <2> QED
    BY <2>1, <2>2
<1>9. NotAhead'
  <2> SUFFICES ASSUME NEW i \in DOMAIN audit
      PROVE  /\ audit[i].ask <= asks'[audit[i].by]
             /\ audit[i].ask = asks'[audit[i].by] /\ pc'[audit[i].by] = "audit"
                  => audit[i].part <= written'[audit[i].by]
    BY <1>3 DEF NotAhead
  <2>1. audit[i].by \in Clients /\ audit[i].ask \in Nat /\ asks[p] \in Nat
    BY AuditTyped DEF TypeOK
  <2>2. audit[i].ask <= asks[audit[i].by]
    BY DEF NotAhead
  <2>3. CASE audit[i].by = p
    BY <1>6, <2>1, <2>2, <2>3
  <2>4. CASE audit[i].by # p
    BY <1>7, <2>1, <2>4 DEF NotAhead
  <2> QED
    BY <2>3, <2>4
<1>10. NotBehind'
  <2> SUFFICES ASSUME NEW q \in Clients
      PROVE  /\ pc'[q] = "audit" =>
                 \A part \in 1 .. written'[q] : InFile([by |-> q, ask |-> asks'[q]], part)
             /\ pc'[q] \in {"post", "wait"} /\ provider[q] = "openrouter" =>
                 \A part \in 1 .. AuditWrites : InFile([by |-> q, ask |-> asks'[q]], part)
    BY <1>3 DEF NotBehind, InFile
  <2>1. CASE q = p
    BY <1>4, <1>6, <2>1
  <2>2. CASE q # p
    BY <1>7, <2>2 DEF NotBehind
  <2> QED
    BY <2>1, <2>2
<1>11. SentIsAudited' /\ AuditedOnce'
  BY <1>3 DEF SentIsAudited, AuditedOnce, InFile
<1> QED
  BY <1>5, <1>8, <1>9, <1>10, <1>11

(* What is in a file stays there when a piece is appended. *)
LEMMA Appended ==
  ASSUME TypeOK, NEW e \in AuditPieces, audit' = Append(audit, e)
  PROVE  /\ audit' \in Seq(AuditPieces)
         /\ DOMAIN audit' = DOMAIN audit \cup {Len(audit) + 1}
         /\ \A i \in DOMAIN audit : i < Len(audit) + 1 /\ audit'[i] = audit[i]
         /\ audit'[Len(audit) + 1] = e
         /\ \A d, part : InFile(d, part) => InFile(d, part)'
<1>1. audit \in Seq(AuditPieces)
  BY AuditTyped
<1>2. /\ audit' \in Seq(AuditPieces)
      /\ DOMAIN audit' = DOMAIN audit \cup {Len(audit) + 1}
      /\ \A i \in DOMAIN audit : i < Len(audit) + 1 /\ audit'[i] = audit[i]
      /\ audit'[Len(audit) + 1] = e
  BY <1>1
<1> QED
  BY <1>2 DEF InFile

(* One more piece of the record is in the file. *)
LEMMA WriteStep ==
  ASSUME Invariant, NEW p \in Clients, WriteAudit(p)
  PROVE  Invariant'
<1> USE DEF Invariant
<1> DEFINE e == [by |-> p, ask |-> asks[p], part |-> written[p] + 1]
           n == Len(audit) + 1
<1>1. /\ pc[p] = "audit" /\ audit' = Append(audit, e)
      /\ written' = [written EXCEPT ![p] = @ + 1]
      /\ pc' = [pc EXCEPT ![p] = IF written[p] + 1 = AuditWrites THEN "post" ELSE "audit"]
      /\ UNCHANGED <<policy, provider, request, attempts, result, log, asks, posted>>
  BY DEF WriteAudit, engine
<1>2. /\ written[p] \in Nat /\ written[p] < AuditWrites /\ asks[p] \in Nat
      /\ provider[p] = "openrouter" /\ attempts[p] = 0
  BY <1>1 DEF TypeOK, Places, PlaceOK
<1>3. e \in AuditPieces
  BY <1>2, DecisionsAssumption DEF AuditPieces
<1>4. /\ audit' \in Seq(AuditPieces)
      /\ DOMAIN audit' = DOMAIN audit \cup {n}
      /\ \A i \in DOMAIN audit : i < n /\ audit'[i] = audit[i]
      /\ audit'[n] = e
      /\ \A d, part : InFile(d, part) => InFile(d, part)'
  BY <1>1, <1>3, Appended
<1>5. TypeOK'
  <2>1. policy' \in [Clients -> Policies] /\ provider' \in [Clients -> Providers]
    BY <1>1 DEF TypeOK
  <2>2. /\ pc' \in [Clients -> {"idle", "choose", "audit", "post", "wait", "judge"}]
        /\ request' \in [Clients -> Requests \cup {NoQuestion}]
    BY <1>1 DEF TypeOK
  <2>3. written' \in [Clients -> 0 .. AuditWrites] /\ attempts' \in [Clients -> 0 .. MaxRetries + 1]
    BY <1>1, <1>2, DecisionsAssumption DEF TypeOK, Places, PlaceOK
  <2>4. result' \in [Clients -> Results \cup {NoResult}] /\ log' \in [Clients -> Seq(JudgementSet)]
    BY <1>1 DEF TypeOK
  <2>5. asks' \in [Clients -> Nat] /\ posted' \subseteq [by : Clients, ask : Nat]
    BY <1>1 DEF TypeOK
  <2> QED
    BY <1>4, <2>1, <2>2, <2>3, <2>4, <2>5 DEF TypeOK, AuditPieces
<1>6. /\ written'[p] = written[p] + 1
      /\ pc'[p] = IF written[p] + 1 = AuditWrites THEN "post" ELSE "audit"
      /\ \A q \in Clients \ {p} : pc'[q] = pc[q] /\ written'[q] = written[q]
  BY <1>1 DEF TypeOK
<1>7. Places'
  <2> SUFFICES ASSUME NEW q \in Clients PROVE PlaceOK(q)'
    BY DEF Places, PlaceOK
  <2>1. CASE q = p
    <3>1. request'[p] \in Requests /\ request'[p].category \in Categories
      BY <1>1 DEF Places, PlaceOK
    <3>2. pc'[p] = "post" \/ (pc'[p] = "audit" /\ written'[p] < AuditWrites)
      BY <1>2, <1>6, DecisionsAssumption
    <3>3. provider'[p] = "openrouter" /\ attempts'[p] = 0 /\ 0 <= MaxRetries
      BY <1>1, <1>2, DecisionsAssumption
    <3> QED
      BY <2>1, <3>1, <3>2, <3>3 DEF PlaceOK
  <2>2. CASE q # p
    BY <1>1, <1>6, <2>2 DEF Places, PlaceOK
  <2> QED
    BY <2>1, <2>2
<1>8. NotAhead'
  <2> SUFFICES ASSUME NEW i \in DOMAIN audit'
      PROVE  /\ audit'[i].ask <= asks[audit'[i].by]
             /\ audit'[i].ask = asks[audit'[i].by] /\ pc'[audit'[i].by] = "audit"
                  => audit'[i].part <= written'[audit'[i].by]
    BY <1>1 DEF NotAhead
  <2>1. CASE i = n
    BY <1>2, <1>4, <1>6, <2>1
  <2>2. CASE i \in DOMAIN audit
    <3>1. /\ audit'[i] = audit[i] /\ audit[i].by \in Clients
          /\ audit[i].ask \in Nat /\ audit[i].part \in Nat
      BY <1>4, <2>2, AuditTyped
    <3>2. CASE audit[i].by = p
      BY <1>1, <1>2, <1>6, <2>2, <3>1, <3>2 DEF NotAhead
    <3>3. CASE audit[i].by # p
      BY <1>6, <2>2, <3>1, <3>3 DEF NotAhead
    <3> QED
      BY <3>2, <3>3
  <2> QED
    BY <1>4, <2>1, <2>2
<1>9. NotBehind'
  <2>1. \A part \in 1 .. written'[p] : InFile([by |-> p, ask |-> asks[p]], part)'
    <3> SUFFICES ASSUME NEW part \in 1 .. written[p] + 1
        PROVE  InFile([by |-> p, ask |-> asks[p]], part)'
      BY <1>6
    <3>1. CASE part = written[p] + 1
      BY <1>1, <1>4, <3>1 DEF InFile
    <3>2. CASE part \in 1 .. written[p]
      BY <1>1, <1>4, <3>2 DEF NotBehind
    <3> QED
      BY <1>2, <3>1, <3>2
  <2>2. pc'[p] = "post" => written'[p] = AuditWrites
    BY <1>6
  <2> SUFFICES ASSUME NEW q \in Clients
      PROVE  /\ pc'[q] = "audit" =>
                 \A part \in 1 .. written'[q] : InFile([by |-> q, ask |-> asks[q]], part)'
             /\ pc'[q] \in {"post", "wait"} /\ provider[q] = "openrouter" =>
                 \A part \in 1 .. AuditWrites : InFile([by |-> q, ask |-> asks[q]], part)'
    BY <1>1 DEF NotBehind, InFile
  <2>3. CASE q = p
    BY <1>1, <1>6, <2>1, <2>2, <2>3
  <2>4. CASE q # p
    BY <1>1, <1>4, <1>6, <2>4 DEF NotBehind
  <2> QED
    BY <2>3, <2>4
<1>10. SentIsAudited'
  BY <1>1, <1>4 DEF SentIsAudited, InFile
<1>11. AuditedOnce'
  <2> SUFFICES ASSUME NEW i \in DOMAIN audit', NEW k \in DOMAIN audit', i < k,
                      audit'[i].by = audit'[k].by, audit'[i].ask = audit'[k].ask
      PROVE  audit'[i].part < audit'[k].part
    BY DEF AuditedOnce
  <2>1. i \in DOMAIN audit
    <3>1. n \in Nat /\ \A h \in DOMAIN audit' : h \in Int /\ h <= n
      BY <1>4, AuditTyped
    <3> QED
      BY <1>4, <3>1
  <2>2. CASE k = n
    <3>1. audit'[i] = audit[i] /\ audit[i].by = p /\ audit[i].ask = asks[p]
      BY <1>4, <2>1, <2>2
    <3>2. audit[i].part <= written[p] /\ audit[i].part \in Nat
      BY <1>1, <2>1, <3>1, AuditTyped DEF NotAhead
    <3> QED
      BY <1>2, <1>4, <2>2, <3>1, <3>2
  <2>3. CASE k \in DOMAIN audit
    BY <1>4, <2>1, <2>3 DEF AuditedOnce
  <2> QED
    BY <1>4, <2>2, <2>3
<1> QED
  BY <1>5, <1>7, <1>8, <1>9, <1>10, <1>11

(* A request leaves the process. *)
LEMMA PostStep ==
  ASSUME Invariant, NEW p \in Clients, Post(p)
  PROVE  Invariant'
<1> USE DEF Invariant
<1>1. /\ pc[p] = "post" /\ pc' = [pc EXCEPT ![p] = "wait"]
      /\ attempts' = [attempts EXCEPT ![p] = @ + 1]
      /\ posted' = posted \cup {[by |-> p, ask |-> asks[p]]}
      /\ UNCHANGED <<policy, provider, request, written, result, log, asks, audit>>
  BY DEF Post, engine
<1>2. attempts[p] <= MaxRetries /\ attempts[p] \in Nat /\ asks[p] \in Nat
  BY <1>1 DEF TypeOK, Places, PlaceOK
<1>3. TypeOK'
  <2>1. policy' \in [Clients -> Policies] /\ provider' \in [Clients -> Providers]
    BY <1>1 DEF TypeOK
  <2>2. /\ pc' \in [Clients -> {"idle", "choose", "audit", "post", "wait", "judge"}]
        /\ request' \in [Clients -> Requests \cup {NoQuestion}]
    BY <1>1 DEF TypeOK
  <2>3. written' \in [Clients -> 0 .. AuditWrites] /\ attempts' \in [Clients -> 0 .. MaxRetries + 1]
    BY <1>1, <1>2, DecisionsAssumption DEF TypeOK, Places, PlaceOK
  <2>4. result' \in [Clients -> Results \cup {NoResult}] /\ log' \in [Clients -> Seq(JudgementSet)]
    BY <1>1 DEF TypeOK
  <2>5. asks' \in [Clients -> Nat] /\ posted' \subseteq [by : Clients, ask : Nat]
    BY <1>1, <1>2 DEF TypeOK
  <2> QED
    BY <1>1, <2>1, <2>2, <2>3, <2>4, <2>5 DEF TypeOK
<1>4. \A q \in Clients :
        \/ q = p /\ pc[q] = "post" /\ pc'[q] = "wait"
        \/ q # p /\ pc'[q] = pc[q] /\ attempts'[q] = attempts[q]
  BY <1>1 DEF TypeOK
<1>5. Places'
  BY <1>1, <1>4 DEF Places, PlaceOK
<1>6. NotAhead'
  BY <1>1, <1>4, AuditTyped DEF NotAhead
<1>7. NotBehind'
  BY <1>1, <1>4 DEF NotBehind, InFile
<1>8. SentIsAudited'
  BY <1>1 DEF SentIsAudited, NotBehind, InFile
<1>9. AuditedOnce'
  BY <1>1 DEF AuditedOnce
<1> QED
  BY <1>3, <1>5, <1>6, <1>7, <1>8, <1>9

LEMMA NextInvariant == Invariant /\ [Next]_vars => Invariant'
<1> SUFFICES ASSUME Invariant, [Next]_vars PROVE Invariant'
  OBVIOUS
<1>1. CASE UNCHANGED vars
  BY <1>1 DEF Invariant, TypeOK, Places, PlaceOK, NotAhead, NotBehind, SentIsAudited,
              AuditedOnce, InFile, vars
<1>2. ASSUME NEW p \in Clients, Ask(p) PROVE Invariant'
  BY <1>2, AskStep
<1>3. ASSUME NEW p \in Clients, Decide(p) PROVE Invariant'
  <2>1. CASE Judge(p)
    BY <2>1, LeaveStep
  <2>2. CASE WriteAudit(p)
    BY <2>2, WriteStep
  <2>3. CASE Post(p)
    BY <2>3, PostStep
  <2>4. CASE \/ ChooseLocally(p) \/ FailAudit(p)
             \/ NoResponse(p) \/ ErrorStatus(p) \/ BadBody(p) \/ GoodBody(p)
    BY <2>4, ProviderReturns, ProviderStep
  <2> QED
    BY <1>3, <2>1, <2>2, <2>3, <2>4 DEF Decide
<1>4. ASSUME NEW p \in Clients, Die(p) PROVE Invariant'
  BY <1>4, LeaveStep
<1> QED
  BY <1>1, <1>2, <1>3, <1>4 DEF Next

(* The invariant of the engine, its provider and the audit file. *)
THEOREM DecisionsInvariant == Spec => []Invariant
<1> QED
  BY InitInvariant, NextInvariant, PTL DEF Spec

(* Type correctness, which holds every logged judgement to the policy and every
   decision to max_retries + 1 posts (DecisionEngine::decide). *)
THEOREM DecisionsTypeCorrect == Spec => []TypeOK
<1>1. Invariant => TypeOK
  BY DEF Invariant
<1> QED
  BY <1>1, DecisionsInvariant, PTL

(* No request of an audited provider leaves before its record is in the file
   (OpenRouterProvider::decide fails closed). *)
THEOREM EveryPostAudited == Spec => []SentIsAudited
<1>1. Invariant => SentIsAudited
  BY DEF Invariant
<1> QED
  BY <1>1, DecisionsInvariant, PTL

(* A decision is recorded once, however often it is posted. *)
THEOREM OneRecordPerDecision == Spec => []AuditedOnce
<1>1. Invariant => AuditedOnce
  BY DEF Invariant
<1> QED
  BY <1>1, DecisionsInvariant, PTL

-----------------------------------------------------------------------------
(* The engine implements its contract *)

Asked == [p \in Clients |-> IF pc[p] = "idle" THEN NoQuestion
                                             ELSE request[p].category]

LEMMA ContractInit == Init => Contract!Init
BY DEF Init, Contract!Init

(* Every step of the engine is a step of the contract or changes nothing its
   caller sees. *)
LEMMA ContractStep ==
  Invariant /\ [Next]_vars => [Contract!Next]_(Contract!vars)
<1> SUFFICES ASSUME Invariant, [Next]_vars
    PROVE  Contract!Next \/ UNCHANGED <<policy, Asked, log>>
  BY DEF Contract!vars, Asked
<1> USE DEF Invariant
<1>1. \A p \in Clients : pc[p] # "idle" =>
        /\ request[p] \in Requests /\ request[p].category \in Categories
        /\ Asked[p] = request[p].category /\ Asked[p] # NoQuestion
  BY DecisionsAssumption DEF Places, PlaceOK, Asked
<1>2. CASE UNCHANGED vars
  BY <1>2 DEF vars, Asked
<1>3. ASSUME NEW p \in Clients, Ask(p) PROVE Contract!Next
  <2>1. PICK c \in Categories, s \in Subjects :
          request' = [request EXCEPT ![p] = [category |-> c, subject |-> s]]
    BY <1>3 DEF Ask
  <2>2. pc[p] = "idle" /\ UNCHANGED <<policy, log>>
    BY <1>3 DEF Ask, engine
  <2>3. pc'[p] # "idle" /\ \A q \in Clients \ {p} : pc'[q] = pc[q]
    BY <1>3, DecisionsAssumption DEF Ask, TypeOK
  <2>4. Asked[p] = NoQuestion /\ Asked' = [Asked EXCEPT ![p] = c]
    BY <2>1, <2>2, <2>3 DEF Asked, TypeOK
  <2>5. Contract!Ask(p)
    BY <2>2, <2>4 DEF Contract!Ask, Asked
  <2> QED
    BY <2>5 DEF Contract!Next
<1>4. ASSUME NEW p \in Clients, Judge(p) \/ Die(p) PROVE Contract!Next
  <2>1. /\ pc[p] # "idle" /\ pc' = [pc EXCEPT ![p] = "idle"]
        /\ request' = [request EXCEPT ![p] = NoQuestion]
        /\ UNCHANGED policy
    BY <1>4 DEF Judge, Die, engine
  <2>2. Asked[p] # NoQuestion /\ Asked' = [Asked EXCEPT ![p] = NoQuestion]
    BY <1>1, <2>1 DEF Asked, TypeOK
  <2>3. CASE Judge(p)
    <3> DEFINE j == Judged(policy[p], request[p], result[p])
    <3>1. policy[p] \in Policies /\ result[p] \in Results
      BY <2>3 DEF Judge, Places, PlaceOK, TypeOK
    <3>2. j \in Contract!Accountable(policy[p], Asked[p])
      BY <1>1, <2>1, <3>1, JudgedIsAccountable
    <3>3. log' = [log EXCEPT ![p] = Append(@, j)]
      BY <2>3 DEF Judge
    <3>4. Contract!Answer(p)
      BY <2>1, <2>2, <3>2, <3>3 DEF Contract!Answer, Asked
    <3> QED
      BY <3>4 DEF Contract!Next
  <2>4. CASE Die(p)
    <3>1. Contract!Die(p)
      BY <2>1, <2>2, <2>4 DEF Die, Contract!Die, Asked
    <3> QED
      BY <3>1 DEF Contract!Next
  <2> QED
    BY <1>4, <2>3, <2>4
<1>5. ASSUME NEW p \in Clients,
             \/ ChooseLocally(p) \/ FailAudit(p)
             \/ NoResponse(p) \/ ErrorStatus(p) \/ BadBody(p) \/ GoodBody(p)
      PROVE  UNCHANGED <<policy, Asked, log>>
  <2>1. /\ Returns(p) /\ pc[p] # "idle" /\ pc' = [pc EXCEPT ![p] = pc'[p]]
        /\ UNCHANGED <<engine, request, log>>
    BY <1>5, ProviderReturns
  <2>2. \A q \in Clients : (pc'[q] = "idle") <=> (pc[q] = "idle")
    BY <2>1 DEF Returns, TypeOK
  <2> QED
    BY <2>1, <2>2 DEF Asked, engine
<1>6. ASSUME NEW p \in Clients, WriteAudit(p) \/ Post(p)
      PROVE  UNCHANGED <<policy, Asked, log>>
  <2>1. UNCHANGED <<policy, request, log>>
    BY <1>6 DEF WriteAudit, Post, engine
  <2>2. \A q \in Clients : (pc'[q] = "idle") <=> (pc[q] = "idle")
    BY <1>6 DEF WriteAudit, Post, TypeOK
  <2> QED
    BY <2>1, <2>2 DEF Asked
<1> QED
  BY <1>2, <1>3, <1>4, <1>5, <1>6 DEF Next, Decide

(* DecisionEngine::decide keeps its contract, but for the promise that it ends,
   which the run checks: every behaviour of the engine is one of the contract. *)
THEOREM EngineKeepsContract ==
  Spec => Contract!Init /\ [][Contract!Next]_(Contract!vars)
<1> QED
  BY ContractInit, ContractStep, DecisionsInvariant, PTL DEF Spec
=============================================================================
