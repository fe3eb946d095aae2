---------------------------- MODULE ConfigStore ----------------------------
(***************************************************************************)
(* What the create, read, update and delete tools promise, with no lock    *)
(* and no device protocol: a call takes effect on the candidate config in  *)
(* one step somewhere between its invocation and its answer.  An "ok"      *)
(* answer shows the node as that step left it (or, for a read, found it).  *)
(* An error promises nothing: the device may have applied the write and    *)
(* the answer been lost on the way back.                                   *)
(***************************************************************************)
EXTENDS ConfigData

CONSTANTS Calls

VARIABLES
    candidate,  \* the candidate config
    phase,      \* per call: idle, open, applied, done
    req,        \* per call: what it asked for
    view        \* per call: what its answer shows

vars == <<candidate, phase, req, view>>

Init ==
    /\ candidate \in [Names -> Node]
    /\ phase = [c \in Calls |-> "idle"]
    /\ req = [c \in Calls |-> NoRequest]
    /\ view = [c \in Calls |-> Nothing]

Invoke(c) ==
    /\ phase[c] = "idle"
    /\ \E r \in Requests : req' = [req EXCEPT ![c] = r]
    /\ phase' = [phase EXCEPT ![c] = "open"]
    /\ UNCHANGED <<candidate, view>>

(* The one step in which a write happens.  An update needs a node.         *)
Effect(c) ==
    LET r == req[c] IN
    /\ phase[c] = "open"
    /\ r.op \in WriteOps
    /\ r.op = "update" => candidate[r.name] # Absent
    /\ candidate' = [candidate EXCEPT ![r.name] = Intended(candidate[r.name], r)]
    /\ UNCHANGED req

Apply(c) ==
    /\ Effect(c)
    /\ phase' = [phase EXCEPT ![c] = "applied"]
    /\ view' = [view EXCEPT ![c] = candidate'[req[c].name]]

ApplyAndAnswer(c) ==
    /\ Effect(c)
    /\ phase' = [phase EXCEPT ![c] = "done"]
    /\ \/ view' = [view EXCEPT ![c] = candidate'[req[c].name]]
       \/ view' = [view EXCEPT ![c] = Failed]

Read(c) ==
    /\ phase[c] = "open"
    /\ req[c].op \in ReadOps
    /\ phase' = [phase EXCEPT ![c] = "done"]
    /\ view' = [view EXCEPT ![c] = Seen(candidate, req[c])]
    /\ UNCHANGED <<candidate, req>>

Answer(c) ==
    /\ phase[c] = "applied"
    /\ phase' = [phase EXCEPT ![c] = "done"]
    /\ UNCHANGED <<candidate, req, view>>

Fail(c) ==
    /\ phase[c] \in {"open", "applied"}
    /\ phase' = [phase EXCEPT ![c] = "done"]
    /\ view' = [view EXCEPT ![c] = Failed]
    /\ UNCHANGED <<candidate, req>>

Return(c) ==
    /\ phase[c] = "done"
    /\ phase' = [phase EXCEPT ![c] = "idle"]
    /\ req' = [req EXCEPT ![c] = NoRequest]
    /\ view' = [view EXCEPT ![c] = Nothing]
    /\ UNCHANGED candidate

Next ==
    \E c \in Calls :
        \/ Invoke(c) \/ Apply(c) \/ ApplyAndAnswer(c) \/ Read(c)
        \/ Answer(c) \/ Fail(c) \/ Return(c)

Spec == Init /\ [][Next]_vars
=============================================================================
