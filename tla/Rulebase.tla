------------------------------ MODULE Rulebase ------------------------------
(***************************************************************************)
(* One rulebase as data, and the requests the rule tools make of it        *)
(* (policy_tools.go): what a place means, and what the device's set, move  *)
(* and delete make of the order of the rules.                              *)
(***************************************************************************)
EXTENDS Integers, SequencesExt

CONSTANTS
    Rules,      \* rule names
    NoRule      \* no pivot

ASSUME NoRuleAssumption == NoRule \notin Rules

(* What movePosition accepts: before and after take a pivot, top and       *)
(* bottom refuse one, and a create may leave the position out.             *)
Places ==
    [where : {"top", "bottom"}, pivot : {NoRule}]
        \cup [where : {"before", "after"}, pivot : Rules]
Anywhere == [where |-> "anywhere", pivot |-> NoRule]
BadPlace == [where |-> "bad", pivot |-> NoRule]

Requests ==
    [op : {"create"}, rule : Rules, place : Places \cup {Anywhere, BadPlace}]
        \cup [op : {"move"}, rule : Rules, place : Places \cup {BadPlace}]
        \cup [op : {"delete", "list"}, rule : Rules, place : {Anywhere}]
NoRequest == [op |-> "none", rule |-> NoRule, place |-> Anywhere]

Rulebases == {s \in Seq(Rules) : \A i, j \in DOMAIN s : i # j => s[i] # s[j]}

-----------------------------------------------------------------------------
Holds(s, r) == \E i \in DOMAIN s : s[i] = r
IndexOf(s, r) == CHOOSE i \in DOMAIN s : s[i] = r
Without(s, r) == IF Holds(s, r) THEN RemoveAt(s, IndexOf(s, r)) ELSE s

(* A rule placed directly where the request asks (Directly is set on       *)
(* before and after, policy_tools.go:352-361).                             *)
Placed(s, r, place) ==
    CASE place.where = "top" -> IndexOf(s, r) = 1
      [] place.where = "bottom" -> IndexOf(s, r) = Len(s)
      [] place.where = "before" ->
            Holds(s, place.pivot) /\ IndexOf(s, r) + 1 = IndexOf(s, place.pivot)
      [] place.where = "after" ->
            Holds(s, place.pivot) /\ IndexOf(s, r) = IndexOf(s, place.pivot) + 1

(* Mutant: before and after land on the wrong side of the pivot.           *)
MovedPastPivot(s, r, place) ==
    LET rest == Without(s, r) IN
    InsertAt(rest, CASE place.where = "top" -> 1
                     [] place.where = "bottom" -> Len(rest) + 1
                     [] place.where = "before" -> IndexOf(rest, place.pivot) + 1
                     [] place.where = "after" -> IndexOf(rest, place.pivot), r)

(* The device's move: take the rule out, put it back where it is to be.    *)
Moved(s, r, place) ==
    LET rest == Without(s, r) IN
    InsertAt(rest, CASE place.where = "top" -> 1
                     [] place.where = "bottom" -> Len(rest) + 1
                     [] place.where = "before" -> IndexOf(rest, place.pivot)
                     [] place.where = "after" -> IndexOf(rest, place.pivot) + 1, r)

(* Mutant: a second create of a rule appends it again.                     *)
CreatedAgain(s, r) == Append(s, r)

(* A set appends a new rule and merges onto one that is there.             *)
Created(s, r) == IF Holds(s, r) THEN s ELSE Append(s, r)

(* A move is possible when the rule is there, and its pivot, and they are  *)
(* two rules.                                                              *)
Movable(s, r, place) ==
    /\ Holds(s, r)
    /\ place.pivot # NoRule => place.pivot # r /\ Holds(s, place.pivot)
=============================================================================
