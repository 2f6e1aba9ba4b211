--------------------------- MODULE DecisionSchema ---------------------------
(***************************************************************************)
(* The fixed questions of crates/tpt-weave-decisions: the categories, the  *)
(* choices each one offers, its safe choice, and the policy that judges    *)
(* an answer.  Confidences are percentages.                                *)
(***************************************************************************)
EXTENDS Integers, Sequences

(* The choices of every category, in the order the code lists them. *)
Choices ==
  [ Relevance           |-> <<"relevant", "irrelevant">>,
    Expansion           |-> <<"keep", "expand", "defer">>,
    DependencyTraversal |-> <<"traverse", "do-not-traverse">>,
    ContextRetention    |-> <<"retain", "summarize", "release">>,
    ContextEviction     |-> <<"keep", "cache", "evict">>,
    ToolResultRetention |-> <<"retain", "summarize", "discard">>,
    TaskClassification  |-> <<"bugfix", "feature", "refactor", "docs", "test",
                              "build", "exploration">>,
    RetrievalDepth      |-> <<"none", "metadata", "symbols", "signatures",
                              "skeleton", "implementation", "full-file">> ]

DecisionCategory == DOMAIN Choices

SafeChoice ==
  [ Relevance           |-> "relevant",
    Expansion           |-> "keep",
    DependencyTraversal |-> "traverse",
    ContextRetention    |-> "retain",
    ContextEviction     |-> "keep",
    ToolResultRetention |-> "retain",
    TaskClassification  |-> "exploration",
    RetrievalDepth      |-> "skeleton" ]

(* The set of choices offered for category c. *)
Offered(c) == {Choices[c][i] : i \in 1 .. Len(Choices[c])}

FallbackConfidence == 35
DefaultConfidence == 50

DecisionSource == {"Provider", "LowConfidence", "SafetyOverride", "Fallback"}

(* The override for category c: the first one configured for it, whatever
   its choice, as a set of at most one. *)
OverrideFor(policy, c) ==
  {policy.overrides[i] : i \in
     {k \in DOMAIN policy.overrides :
        /\ policy.overrides[k].category = c
        /\ \A h \in 1 .. k - 1 : policy.overrides[h].category # c}}

(* The choices the policy forces for c; an override with a choice that the
   category does not offer forces nothing. *)
Forced(policy, c) == {o.choice : o \in OverrideFor(policy, c)} \cap Offered(c)
=============================================================================
