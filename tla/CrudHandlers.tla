---------------------------- MODULE CrudHandlers ----------------------------
(***************************************************************************)
(* The create, read, update and delete tool handlers over one candidate    *)
(* config: the five *Core functions of tools.go, the singleton handlers of *)
(* system_scope.go and the adapters below them, one action per step that   *)
(* another call or the device can come between.                            *)
(*                                                                         *)
(* Every request to the device ends in one of four ways:                   *)
(*   - it is answered;                                                     *)
(*   - it is refused, or never gets there: an error, and no effect;        *)
(*   - "lost": it takes effect and its answer is lost: an error;           *)
(*   - "late": the caller's context ends while the device has the request  *)
(*     queued: an error now, and the effect when the device gets to it.    *)
(* Faults says which of the last two the environment may do.               *)
(***************************************************************************)
EXTENDS WriteMu, ConfigData

CONSTANT Faults     \* a subset of {"lost", "late"}

ASSUME FaultsAssumption == Faults \subseteq {"lost", "late"}

VARIABLES
    candidate,  \* the device's candidate config
    late,       \* writes the device has yet to apply, their callers gone
    pc,         \* per call: the step it is at
    req,        \* per call: its request
    seed,       \* per call: the entry its read returned, overlaid
    view        \* per call: what its answer shows

vars == <<muVars, candidate, late, pc, req, seed, view>>

Steps == {"idle", "start", "draining", "seed", "compare", "edit", "create",
          "delete", "readback", "unlock", "reading", "runlock", "answered"}

(* A call inside the write lock that has not given it back yet.            *)
WriteSteps == {"seed", "compare", "edit", "create", "delete", "readback", "unlock"}

TypeOK ==
    /\ MuTypeOK
    /\ candidate \in [Names -> Node]
    /\ late \subseteq Writes
    /\ pc \in [Calls -> Steps]
    /\ req \in [Calls -> Requests \cup {NoRequest}]
    /\ seed \in [Calls -> Entry]
    /\ view \in [Calls -> Views]

Init ==
    /\ MuInit
    /\ candidate \in [Names -> Node]
    /\ late = {}
    /\ pc = [c \in Calls |-> "idle"]
    /\ req = [c \in Calls |-> NoRequest]
    /\ seed = [c \in Calls |-> Blank]
    /\ view = [c \in Calls |-> Nothing]

Go(c, step) == pc' = [pc EXCEPT ![c] = step]
Show(c, v) == view' = [view EXCEPT ![c] = v]
Here(c) == candidate[req[c].name]

-----------------------------------------------------------------------------
(* Requests to the device.                                                 *)

(* A write: next is where the call goes when the device confirms it.       *)
Send(c, w, next) ==
    LET landed == [candidate EXCEPT ![w.name] = Landed(@, w)] IN
    \/ /\ candidate' = landed
       /\ Go(c, next)
       /\ Show(c, IF next = "unlock" THEN landed[w.name] ELSE view[c])
       /\ UNCHANGED late
    \/ /\ Go(c, "unlock")
       /\ Show(c, Failed)
       /\ \/ UNCHANGED <<candidate, late>>
          \/ /\ "lost" \in Faults
             /\ candidate' = landed
             /\ UNCHANGED late
          \/ /\ "late" \in Faults
             /\ late' = late \cup {w}
             /\ UNCHANGED candidate

(* The device gets to a write whose caller gave up.                        *)
Land(w) ==
    /\ w \in late
    /\ late' = late \ {w}
    /\ candidate' = [candidate EXCEPT ![w.name] = Landed(@, w)]
    /\ UNCHANGED <<muVars, pc, req, seed, view>>

(* A handler's error result on the way to its deferred unlock.             *)
GiveUp(c, unlock) ==
    /\ Go(c, unlock)
    /\ Show(c, Failed)
    /\ UNCHANGED <<muVars, candidate, late, req, seed>>

-----------------------------------------------------------------------------
(* A client calls a tool, and takes the answer.                            *)
Invoke(c) ==
    /\ pc[c] = "idle"
    /\ \E r \in Requests : req' = [req EXCEPT ![c] = r]
    /\ Go(c, "start")
    /\ UNCHANGED <<muVars, candidate, late, seed, view>>

Return(c) ==
    /\ pc[c] = "answered"
    /\ Go(c, "idle")
    /\ req' = [req EXCEPT ![c] = NoRequest]
    /\ seed' = [seed EXCEPT ![c] = Blank]
    /\ Show(c, Nothing)
    /\ UNCHANGED <<muVars, candidate, late>>

(* The read handlers take the shared lock before anything else, the write  *)
(* handlers check their input first and answer a bad one without locking.  *)
RejectInput(c) ==
    /\ pc[c] = "start"
    /\ req[c].op = "malformed"
    /\ Go(c, "answered")
    /\ Show(c, Failed)
    /\ UNCHANGED <<muVars, candidate, late, req, seed>>

(* Mutant: the delete handler does not take the lock.                      *)
LockWritesNotDeletes(c) ==
    /\ pc[c] = "start"
    /\ \/ /\ req[c].op \in PatchOps
          /\ LockClaim(c)
          /\ Go(c, "draining")
       \/ /\ req[c].op = "delete"
          /\ Go(c, "delete")
          /\ UNCHANGED muVars
    /\ UNCHANGED <<candidate, late, req, seed, view>>

LockWrites(c) ==
    /\ pc[c] = "start"
    /\ req[c].op \in WriteOps
    /\ LockClaim(c)
    /\ Go(c, "draining")
    /\ UNCHANGED <<candidate, late, req, seed, view>>

(* Inside, each handler goes to its first request.                         *)
FirstStep(op) ==
    CASE op = "create" -> "create"
      [] op = "delete" -> "delete"
      [] op \in {"update", "upsert"} -> "seed"

EnterWrite(c) ==
    /\ pc[c] = "draining"
    /\ LockEnter(c)
    /\ Go(c, FirstStep(req[c].op))
    /\ UNCHANGED <<candidate, late, req, seed, view>>

UnlockWrite(c) ==
    /\ pc[c] = "unlock"
    /\ Unlock(c)
    /\ Go(c, "answered")
    /\ UNCHANGED <<candidate, late, req, seed, view>>

RLockReads(c) ==
    /\ pc[c] = "start"
    /\ req[c].op \in ReadOps
    /\ RLock(c)
    /\ Go(c, "reading")
    /\ UNCHANGED <<candidate, late, req, seed, view>>

UnlockRead(c) ==
    /\ pc[c] = "runlock"
    /\ RUnlock(c)
    /\ Go(c, "answered")
    /\ UNCHANGED <<candidate, late, req, seed, view>>

-----------------------------------------------------------------------------
(* listCore, getCore and systemGetHandler: one request.  A get of an       *)
(* absent node is an error, a singleton's get shows an empty config.       *)
ReadNode(c) ==
    /\ pc[c] = "reading"
    /\ HoldsRead(c)
    /\ Go(c, "runlock")
    /\ \/ /\ req[c].op = "get" => Here(c) # Absent
          /\ Show(c, Seen(candidate, req[c]))
       \/ Show(c, Failed)
    /\ UNCHANGED <<muVars, candidate, late, req, seed>>

(* createCore: the device sets the built entry, then pango reads it back.  *)
CreateNode(c) ==
    /\ pc[c] = "create"
    /\ Send(c, [kind |-> "set", name |-> req[c].name, entry |-> req[c].patch], "readback")
    /\ UNCHANGED <<muVars, req, seed>>

(* deleteCore.                                                             *)
DeleteNode(c) ==
    /\ pc[c] = "delete"
    /\ Send(c, [kind |-> "delete", name |-> req[c].name, entry |-> Blank], "unlock")
    /\ UNCHANGED <<muVars, req, seed>>

(* Mutant: the overlay starts from an empty entry, as a create does.       *)
SeedBlank(c) ==
    /\ pc[c] = "seed"
    /\ Here(c) # Absent \/ req[c].op = "upsert"
    /\ seed' = [seed EXCEPT ![c] = Overlay(Blank, req[c].patch)]
    /\ Go(c, IF Here(c) = Absent THEN "create" ELSE "compare")
    /\ UNCHANGED <<muVars, candidate, late, req, view>>

(* The seed read of updateCore and systemUpdateHandler, and the overlay of *)
(* the request on what it returned.  An absent node ends an update; an     *)
(* absent singleton is overlaid on an empty config and created.            *)
SeedRead(c) ==
    /\ pc[c] = "seed"
    /\ \/ /\ Here(c) # Absent
          /\ seed' = [seed EXCEPT ![c] = Overlay(Here(c), req[c].patch)]
          /\ Go(c, "compare")
       \/ /\ Here(c) = Absent
          /\ req[c].op = "upsert"
          /\ seed' = [seed EXCEPT ![c] = Overlay(Blank, req[c].patch)]
          /\ Go(c, "create")
    /\ UNCHANGED <<muVars, candidate, late, req, view>>

(* A seed read that fails, and an overlay that refuses the request.        *)
SeedFails(c) ==
    /\ pc[c] = "seed"
    /\ GiveUp(c, "unlock")

(* pango's Update reads the node again: no edit when nothing would change, *)
(* an error when it is gone.                                               *)
CompareStored(c) ==
    /\ pc[c] = "compare"
    /\ Here(c) # Absent
    /\ Go(c, IF Here(c) = seed[c] THEN "readback" ELSE "edit")
    /\ UNCHANGED <<muVars, candidate, late, req, seed, view>>

CompareFails(c) ==
    /\ pc[c] = "compare"
    /\ GiveUp(c, "unlock")

EditNode(c) ==
    /\ pc[c] = "edit"
    /\ Send(c, [kind |-> "edit", name |-> req[c].name, entry |-> seed[c]], "readback")
    /\ UNCHANGED <<muVars, req, seed>>

(* Mutant: the answer repeats the fields that were given.                 *)
EchoPatch(c) ==
    /\ pc[c] = "readback"
    /\ Go(c, "unlock")
    /\ Show(c, req[c].patch)
    /\ UNCHANGED <<muVars, candidate, late, req, seed>>

(* nameFixAdapter.Update and its siblings end with a get of what is stored *)
(* now, and the answer shows that.                                         *)
ReadBack(c) ==
    /\ pc[c] = "readback"
    /\ Here(c) # Absent
    /\ Go(c, "unlock")
    /\ Show(c, Here(c))
    /\ UNCHANGED <<muVars, candidate, late, req, seed>>

ReadBackFails(c) ==
    /\ pc[c] = "readback"
    /\ GiveUp(c, "unlock")

-----------------------------------------------------------------------------
Step(c) ==
    \/ RejectInput(c) \/ LockWrites(c) \/ EnterWrite(c) \/ UnlockWrite(c)
    \/ RLockReads(c) \/ UnlockRead(c) \/ ReadNode(c)
    \/ CreateNode(c) \/ DeleteNode(c)
    \/ SeedRead(c) \/ SeedFails(c)
    \/ CompareStored(c) \/ CompareFails(c) \/ EditNode(c)
    \/ ReadBack(c) \/ ReadBackFails(c)

Next ==
    \/ \E c \in Calls : Invoke(c) \/ Step(c) \/ Return(c)
    \/ \E w \in late : Land(w)

Spec == Init /\ [][Next]_vars

(* A handler that can run does: every request to the device is answered or *)
(* times out.  A call queued for the writer slot gets it sooner or later,  *)
(* since sync.Mutex hands itself to its oldest waiter after a millisecond. *)
FairSpec ==
    /\ Spec
    /\ \A c \in Calls : WF_vars(Step(c)) /\ SF_vars(LockWrites(c))

-----------------------------------------------------------------------------
(* The write lock is held by exactly the call that is inside a write       *)
(* handler and the shared lock by the readers inside theirs, so no read    *)
(* runs beside a mutation (tools.go:26-30).                                *)
LockDiscipline ==
    /\ MuInv
    /\ \A c \in Calls :
        /\ pc[c] = "draining" => writer = c /\ ~entered
        /\ pc[c] \in WriteSteps <=> HoldsWrite(c)
        /\ c \in readers \cup parked <=> pc[c] \in {"reading", "runlock"}
        /\ pc[c] = "runlock" => c \in readers

(* A read-modify-write cycle is atomic: from its seed read to its edit the *)
(* entry it is about to write is still the stored one with only the        *)
(* caller's fields changed, and a singleton it found absent still is, so   *)
(* the edit loses nothing another call wrote.                              *)
SeedFresh ==
    \A c \in Calls :
        /\ pc[c] \in {"compare", "edit"} =>
              /\ Here(c) # Absent
              /\ seed[c] = Overlay(Here(c), req[c].patch)
        /\ pc[c] = "create" /\ req[c].op = "upsert" => Here(c) = Absent

(* An edit writes the whole entry, and changes of what is stored at that   *)
(* moment only the fields its caller gave: it undoes nobody's write.       *)
EditOverlays(c) ==
    /\ Here(c) # Absent
    /\ candidate' = [candidate EXCEPT ![req[c].name] = Overlay(@, req[c].patch)]
EditKeepsTheRest ==
    [][\A c \in Calls : EditNode(c) /\ candidate' # candidate => EditOverlays(c)]_vars

(* An answer that is not an error shows the node as it is stored when the  *)
(* lock is given back, with every field the caller provided in it: what    *)
(* the read-back returned is the call's own write and nobody else's.       *)
AnswerCurrent ==
    \A c \in Calls :
        pc[c] = "unlock" /\ view[c] # Failed =>
            /\ view[c] = Here(c)
            /\ req[c].op \in PatchOps => view[c] = Overlay(view[c], req[c].patch)

-----------------------------------------------------------------------------
(* What the invariants above need to be inductive: a call is at a step of  *)
(* the handler that serves its request, and at the read-back the node is   *)
(* there with the caller's fields in it.                                   *)
StepFitsRequest ==
    \A c \in Calls :
        /\ pc[c] # "idle" => req[c] \in Requests
        /\ pc[c] \in {"draining"} \cup WriteSteps => req[c].op \in WriteOps
        /\ pc[c] = "reading" => req[c].op \in ReadOps
        /\ pc[c] = "delete" => req[c].op = "delete"
        /\ pc[c] = "create" => req[c].op \in {"create", "upsert"}
        /\ pc[c] \in {"seed", "compare", "edit"} => req[c].op \in {"update", "upsert"}
        /\ pc[c] = "readback" => req[c].op \in PatchOps

WrittenBack ==
    \A c \in Calls : pc[c] = "readback" =>
        /\ Here(c) # Absent
        /\ Here(c) = Overlay(Here(c), req[c].patch)

LockedInv == TypeOK /\ LockDiscipline /\ StepFitsRequest

AtomicInv == LockedInv /\ late = {} /\ SeedFresh /\ WrittenBack /\ AnswerCurrent

-----------------------------------------------------------------------------
(* The handlers, the lock and the device protocol together implement the   *)
(* store of ConfigStore: every call takes effect in one step.  A call that *)
(* waits for its read-back has been applied and will show what is there.   *)
PhaseOf(step) ==
    CASE step = "idle" -> "idle"
      [] step = "readback" -> "applied"
      [] step \in {"unlock", "runlock", "answered"} -> "done"
      [] OTHER -> "open"

StorePhase == [c \in Calls |-> PhaseOf(pc[c])]
StoreView == [c \in Calls |-> IF pc[c] = "readback" THEN Here(c) ELSE view[c]]

Store == INSTANCE ConfigStore WITH phase <- StorePhase, view <- StoreView

ImplementsStore == Store!Spec

(* Every tool call is answered: the lock starves nobody, and no handler    *)
(* waits for a lock its own caller holds.                                  *)
Answered == \A c \in Calls : pc[c] = "start" ~> pc[c] = "answered"
=============================================================================
