----------------------------- MODULE MCDecisions -----------------------------
(* Small instances of Decisions for TLC. *)
EXTENDS Decisions

(* A policy that forces one category and, its first override of another being
   a choice that category does not offer, leaves that other to the threshold. *)
Policy == [minConfidence |-> 70, overrides |->
  << [category |-> "ContextEviction", choice |-> "drop"],
     [category |-> "ContextEviction", choice |-> "keep"],
     [category |-> "Relevance", choice |-> "relevant"] >>]
MCPolicies == {Policy}
MCCategories == {"Relevance", "ContextEviction"}
OneCategory == {"ContextEviction"}

(* A hash under which the two subjects fall back to different choices. *)
MCHash == [r \in Requests |-> IF r.subject = "s1" THEN 5 ELSE 4]
MCConfidences == {69, 70, 130}
MCStatuses == {400, 429}
=============================================================================
