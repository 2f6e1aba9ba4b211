----------------------------- MODULE MCContext -----------------------------
(***************************************************************************)
(* ContextSelection and RelatedKeys for TLC: a request selects context or  *)
(* expands a subject.  The two share nothing, so a behaviour is one of     *)
(* them, and the other is at the end of its loop from the first.           *)
(***************************************************************************)
EXTENDS ContextSelection, RelatedKeys

VARIABLE part \* which of the two a request asks for

SmallEstimates == 1 .. 3
SmallBudgets   == 2 .. 6
ShallowAndDeep == {1, 3}

\* A selection that is over: an overview and files, each of one token, and all taken.
SelectionIsOver ==
  /\ maxLevel = 3 /\ budget = N
  /\ candidates = [c \in Slots |->
       [source |-> IF c = Overview THEN "repository" ELSE "file", tokens |-> 1, file |-> c,
        level |-> IF c = Overview THEN Metadata ELSE maxLevel]]
  /\ taken = Slots /\ excluded = {} /\ used = N
  /\ changed = FALSE /\ phase = "done" /\ next = 1

\* An expansion that is over: a subject among symbols that have nothing to do with it.
RelatedIsOver ==
  /\ kind = [s \in Keys |-> "item"] /\ parent = [s \in Keys |-> NoParent]
  /\ alsoIn = {} /\ implements = {}
  /\ seed = {1} /\ related = {1} /\ snapshot = {}
  /\ reported = FALSE /\ done = TRUE

ContextInit ==
  \/ part = "selection" /\ Init /\ RelatedIsOver
  \/ part = "related" /\ RelatedInit /\ SelectionIsOver

ContextNext ==
  \/ Next /\ UNCHANGED <<part, relatedVars>>
  \/ RelatedNext /\ UNCHANGED <<part, vars>>

\* Both loops are sequential code, which runs to its end.
ContextSpec == /\ ContextInit /\ [][ContextNext]_<<part, vars, relatedVars>>
               /\ WF_vars(Next) /\ WF_relatedVars(RelatedNext)
============================================================================
