---------------------------- MODULE RuleHistory -----------------------------
(***************************************************************************)
(* RuleOrder with one more variable, that nothing reads: the rulebase as   *)
(* it was when the lock was last free of a writer.  The steps are those of *)
(* RuleOrder, with before set beside each of them.  Through it the rule    *)
(* handlers implement RuleStore, where a create and its move are one step: *)
(* the step in which the call gives the write lock back.                   *)
(***************************************************************************)
EXTENDS RuleOrder

VARIABLE before     \* the rulebase, without what the call inside has done

historyVars == <<vars, before>>

HistoryInit == Init /\ before = rules

HistoryNext ==
    /\ \E c \in Calls : Invoke(c) \/ Step(c) \/ Return(c)
    /\ before' = IF entered' THEN before ELSE rules'

HistorySpec == HistoryInit /\ [][HistoryNext]_historyVars

-----------------------------------------------------------------------------
(* A call's answer and what its list shows are there when its work is over.*)
Over(c) == pc[c] \in {"runlock", "answered"}

StoreAns == [c \in Calls |-> IF Over(c) THEN ans[c] ELSE "none"]
StoreListed ==
    [c \in Calls |-> IF Over(c) /\ req[c].op = "list" THEN listed[c] ELSE <<>>]

Store == INSTANCE RuleStore WITH
    rules <- before, ans <- StoreAns, listed <- StoreListed

(* A create with a position, a move and a delete each happen in one step   *)
(* for everybody else, whatever fails on the way: a step to one of the     *)
(* rulebases that RuleStore allows for its answer (ruleCreateHandler,      *)
(* moveHandler, tools.go:26-30).  An answer of ok or error is as good as   *)
(* its word; "positioning failed" leaves three slots open (Outcomes).      *)
ImplementsRuleStore == Store!Spec
=============================================================================
