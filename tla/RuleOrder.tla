----------------------------- MODULE RuleOrder ------------------------------
(***************************************************************************)
(* The order of one rulebase under the rule create, move, delete and list  *)
(* tools (policy_tools.go, shared by rulebase_tools.go).  A create with a  *)
(* position is two writes: the device appends the rule, then pango's       *)
(* MoveGroup lists the rulebase and moves it.  Both run under one hold of  *)
(* the write lock; either may fail, or take effect and its answer be lost. *)
(***************************************************************************)
EXTENDS WriteMu, Rulebase

VARIABLES
    rules,      \* the rulebase, first rule first
    pc, req,    \* per call: its step and its request
    listed,     \* per call: the rulebase MoveGroup worked from
    ans         \* per call: its answer

vars == <<muVars, rules, pc, req, listed, ans>>

Steps == {"idle", "start", "draining", "check", "create", "readback", "plan",
          "move", "delete", "unlock", "reading", "runlock", "answered"}
WriteSteps == {"check", "create", "readback", "plan", "move", "delete", "unlock"}
Answers == {"none", "ok", "error", "positioning failed"}

TypeOK ==
    /\ MuTypeOK
    /\ rules \in Rulebases
    /\ pc \in [Calls -> Steps]
    /\ req \in [Calls -> Requests \cup {NoRequest}]
    /\ listed \in [Calls -> Rulebases]
    /\ ans \in [Calls -> Answers]

Init ==
    /\ MuInit
    /\ \E n \in 0 .. Cardinality(Rules) : rules \in [1 .. n -> Rules]
    /\ rules \in Rulebases
    /\ pc = [c \in Calls |-> "idle"]
    /\ req = [c \in Calls |-> NoRequest]
    /\ listed = [c \in Calls |-> <<>>]
    /\ ans = [c \in Calls |-> "none"]

Go(c, step) == pc' = [pc EXCEPT ![c] = step]
Answer(c, a) == ans' = [ans EXCEPT ![c] = a]

(* A request that leaves the rulebase as s: confirmed, refused, or applied *)
(* and its answer lost.  An error is reported with the answer given.       *)
Send(c, s, next, error) ==
    /\ \/ rules' = s /\ Go(c, next) /\ ans' = [ans EXCEPT ![c] = "ok"]
       \/ rules' \in {rules, s} /\ Go(c, "unlock") /\ Answer(c, error)
    /\ UNCHANGED <<muVars, req, listed>>

-----------------------------------------------------------------------------
Invoke(c) ==
    /\ pc[c] = "idle"
    /\ \E r \in Requests : req' = [req EXCEPT ![c] = r]
    /\ Go(c, "start")
    /\ UNCHANGED <<muVars, rules, listed, ans>>

Return(c) ==
    /\ pc[c] = "answered"
    /\ Go(c, "idle")
    /\ req' = [req EXCEPT ![c] = NoRequest]
    /\ listed' = [listed EXCEPT ![c] = <<>>]
    /\ Answer(c, "none")
    /\ UNCHANGED <<muVars, rules>>

(* movePosition runs before the lock and before the create, so a malformed *)
(* call leaves no rule behind.                                             *)
RejectPlace(c) ==
    /\ pc[c] = "start"
    /\ req[c].place = BadPlace
    /\ Go(c, "answered")
    /\ Answer(c, "error")
    /\ UNCHANGED <<muVars, rules, req, listed>>

(* Mutant: the delete handler does not take the lock.                      *)
LockWritesNotDeletes(c) ==
    /\ pc[c] = "start"
    /\ req[c].place # BadPlace
    /\ \/ /\ req[c].op \in {"create", "move"}
          /\ LockClaim(c)
          /\ Go(c, "draining")
       \/ /\ req[c].op = "delete"
          /\ Go(c, "delete")
          /\ UNCHANGED muVars
    /\ UNCHANGED <<rules, req, listed, ans>>

LockWrites(c) ==
    /\ pc[c] = "start"
    /\ req[c].op \in {"create", "move", "delete"}
    /\ req[c].place # BadPlace
    /\ LockClaim(c)
    /\ Go(c, "draining")
    /\ UNCHANGED <<rules, req, listed, ans>>

EnterWrite(c) ==
    /\ pc[c] = "draining"
    /\ LockEnter(c)
    /\ Go(c, CASE req[c].op = "create" -> "create"
               [] req[c].op = "move" -> "check"
               [] req[c].op = "delete" -> "delete")
    /\ UNCHANGED <<rules, req, listed, ans>>

UnlockWrite(c) ==
    /\ pc[c] = "unlock"
    /\ Unlock(c)
    /\ Go(c, "answered")
    /\ UNCHANGED <<rules, req, listed, ans>>

RLockReads(c) ==
    /\ pc[c] = "start"
    /\ req[c].op = "list"
    /\ RLock(c)
    /\ Go(c, "reading")
    /\ UNCHANGED <<rules, req, listed, ans>>

ListRules(c) ==
    /\ pc[c] = "reading"
    /\ HoldsRead(c)
    /\ Go(c, "runlock")
    /\ \/ listed' = [listed EXCEPT ![c] = rules] /\ Answer(c, "ok")
       \/ UNCHANGED listed /\ Answer(c, "error")
    /\ UNCHANGED <<muVars, rules, req>>

UnlockRead(c) ==
    /\ pc[c] = "runlock"
    /\ RUnlock(c)
    /\ Go(c, "answered")
    /\ UNCHANGED <<rules, req, listed, ans>>

-----------------------------------------------------------------------------
(* ruleCreateHandler.                                                      *)
CreateRule(c) ==
    /\ pc[c] = "create"
    /\ Send(c, Created(rules, req[c].rule), "readback", "error")

(* pango's Create ends with a read; only if it succeeds is the rule moved. *)
ReadBack(c) ==
    /\ pc[c] = "readback"
    /\ \/ Go(c, IF req[c].place = Anywhere THEN "unlock" ELSE "plan") /\ UNCHANGED ans
       \/ Go(c, "unlock") /\ Answer(c, "error")
    /\ UNCHANGED <<muVars, rules, req, listed>>

(* moveHandler first reads the rule, for a better error than MoveGroup's.  *)
CheckRule(c) ==
    /\ pc[c] = "check"
    /\ \/ Holds(rules, req[c].rule) /\ Go(c, "plan") /\ UNCHANGED ans
       \/ Go(c, "unlock") /\ Answer(c, "error")
    /\ UNCHANGED <<muVars, rules, req, listed>>

(* Mutant: a create does not tell that the rule is there without its place.*)
MoveErrorPlain(c) == "error"

(* How a call reports that MoveGroup failed: a create with the answer that *)
(* the rule was created but positioning failed.                            *)
MoveError(c) == IF req[c].op = "create" THEN "positioning failed" ELSE "error"

(* MoveGroup lists the rulebase.  A pivot that is missing, or is the rule  *)
(* itself, is an error; a rule that is in place already needs no move.     *)
PlanMove(c) ==
    LET r == req[c].rule
        place == req[c].place
    IN
    /\ pc[c] = "plan"
    /\ \/ /\ Movable(rules, r, place)
          /\ listed' = [listed EXCEPT ![c] = rules]
          /\ Go(c, IF Placed(rules, r, place) THEN "unlock" ELSE "move")
          /\ Answer(c, "ok")
       \/ /\ UNCHANGED listed
          /\ Go(c, "unlock")
          /\ Answer(c, MoveError(c))
    /\ UNCHANGED <<muVars, rules, req>>

MoveRule(c) ==
    /\ pc[c] = "move"
    /\ Send(c, Moved(rules, req[c].rule, req[c].place), "unlock", MoveError(c))

DeleteRule(c) ==
    /\ pc[c] = "delete"
    /\ Send(c, Without(rules, req[c].rule), "unlock", "error")

-----------------------------------------------------------------------------
Step(c) ==
    \/ RejectPlace(c) \/ LockWrites(c) \/ EnterWrite(c) \/ UnlockWrite(c)
    \/ RLockReads(c) \/ ListRules(c) \/ UnlockRead(c)
    \/ CreateRule(c) \/ ReadBack(c) \/ CheckRule(c)
    \/ PlanMove(c) \/ MoveRule(c) \/ DeleteRule(c)

Next == \E c \in Calls : Invoke(c) \/ Step(c) \/ Return(c)

Spec == Init /\ [][Next]_vars

-----------------------------------------------------------------------------
(* The write lock spans a create and its move, and readers are inside only *)
(* when no rule handler that writes is (tools.go:26-30).                   *)
LockDiscipline ==
    /\ MuInv
    /\ \A c \in Calls :
        /\ pc[c] = "draining" => writer = c /\ ~entered
        /\ pc[c] \in WriteSteps <=> HoldsWrite(c)
        /\ c \in readers \cup parked <=> pc[c] \in {"reading", "runlock"}
        /\ pc[c] = "runlock" => c \in readers

(* MoveGroup's plan is still about the rulebase as it is when its move     *)
(* reaches the device, so a before or after names a rule that is there.    *)
PlanFresh ==
    \A c \in Calls : pc[c] = "move" =>
        /\ listed[c] = rules
        /\ Holds(rules, req[c].rule)
        /\ req[c].place.pivot # NoRule => Holds(rules, req[c].place.pivot)

(* A create or move that answers ok leaves the rule directly at the place  *)
(* it was asked for, as the lock is given back.                            *)
OkIsPlaced ==
    \A c \in Calls :
        pc[c] = "unlock" /\ ans[c] = "ok" /\ req[c].op \in {"create", "move"} =>
            /\ Holds(rules, req[c].rule)
            /\ req[c].place # Anywhere => Placed(rules, req[c].rule, req[c].place)

(* A list never observes a half-applied mutation (tools.go:28-30): what it *)
(* answers is the rulebase as it still is when it lets go of the lock, and *)
(* no new rule in it is waiting to be moved to its place.                  *)
NoHalfPlacedRead ==
    \A c \in Calls :
        req[c].op = "list" /\ pc[c] = "runlock" /\ ans[c] = "ok" =>
            /\ listed[c] = rules
            /\ \A d \in Calls : pc[d] \notin {"readback", "plan", "move"}
=============================================================================
