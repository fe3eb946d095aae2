----------------------------- MODULE RuleStore ------------------------------
(***************************************************************************)
(* What the rule tools promise of the order of a rulebase, with no lock    *)
(* and no device protocol: a create with its place, a move or a delete     *)
(* changes the rulebase in one step between its invocation and its answer, *)
(* and a list shows what is there at one moment.  "ok" says that the whole *)
(* of the request was done.  "positioning failed" says that the rule is    *)
(* there and nothing of where; the answer's own words, that it sits at the *)
(* bottom (policy_tools.go:489), are true only of a rule that was new and  *)
(* was not moved.  An error of a create says that the rule was not placed. *)
(***************************************************************************)
EXTENDS Rulebase

CONSTANT Calls

VARIABLES
    rules,      \* the rulebase
    req,        \* per call: its request
    listed,     \* per call: what its list shows
    ans         \* per call: its answer

vars == <<rules, req, listed, ans>>

Init ==
    /\ rules \in Rulebases
    /\ req = [c \in Calls |-> NoRequest]
    /\ listed = [c \in Calls |-> <<>>]
    /\ ans = [c \in Calls |-> "none"]

Open(c) == req[c] # NoRequest /\ ans[c] = "none"
Reply(c, a) == ans' = [ans EXCEPT ![c] = a]

Invoke(c) ==
    /\ req[c] = NoRequest
    /\ \E r \in Requests : req' = [req EXCEPT ![c] = r]
    /\ UNCHANGED <<rules, listed, ans>>

Refuse(c) ==
    /\ Open(c)
    /\ req[c].place = BadPlace
    /\ Reply(c, "error")
    /\ UNCHANGED <<rules, req, listed>>

List(c) ==
    /\ Open(c)
    /\ req[c].op = "list"
    /\ \/ Reply(c, "ok") /\ listed' = [listed EXCEPT ![c] = rules]
       \/ Reply(c, "error") /\ UNCHANGED listed
    /\ UNCHANGED <<rules, req>>

(* The rulebases that the whole of a request can make of s: one, or none   *)
(* when the rule or its pivot is missing.                                  *)
Rearranged(s, r) == IF Movable(s, r.rule, r.place) THEN {Moved(s, r.rule, r.place)} ELSE {}
Done(s, r) ==
    CASE r.op = "create" ->
            LET made == Created(s, r.rule) IN
            IF r.place = Anywhere THEN {made} ELSE Rearranged(made, r)
      [] r.op = "move" -> Rearranged(s, r)
      [] r.op = "delete" -> {Without(s, r.rule)}

(* The rulebases it can leave behind with each answer.  After "positioning *)
(* failed" a new rule is at the bottom, a rule that was there before has   *)
(* kept its slot, or the move was made and its answer lost.                *)
Outcomes(s, r, a) ==
    CASE a = "ok" -> Done(s, r)
      [] a = "error" ->
            {s} \cup (IF r.op = "create" THEN {Created(s, r.rule)} ELSE Done(s, r))
      [] a = "positioning failed" ->
            IF r.op = "create" /\ r.place # Anywhere
            THEN {Created(s, r.rule)} \cup Done(s, r) ELSE {}

Change(c) ==
    /\ Open(c)
    /\ req[c].op \in {"create", "move", "delete"}
    /\ req[c].place # BadPlace
    /\ \E a \in {"ok", "error", "positioning failed"} :
        rules' \in Outcomes(rules, req[c], a) /\ Reply(c, a)
    /\ UNCHANGED <<req, listed>>

Return(c) ==
    /\ ans[c] # "none"
    /\ req' = [req EXCEPT ![c] = NoRequest]
    /\ listed' = [listed EXCEPT ![c] = <<>>]
    /\ Reply(c, "none")
    /\ UNCHANGED rules

Next == \E c \in Calls : Invoke(c) \/ Refuse(c) \/ List(c) \/ Change(c) \/ Return(c)

Spec == Init /\ [][Next]_vars
=============================================================================
