------------------------- MODULE CrudHandlersProofs -------------------------
(***************************************************************************)
(* Theorems about CrudHandlers, for every set of calls, names, fields and  *)
(* values.                                                                 *)
(*                                                                         *)
(* LockedInv (types, the lock discipline, each call at a step that fits    *)
(* its request) is inductive whatever faults the environment has.          *)
(* AtomicInv adds what the lock is there for, and needs that no write      *)
(* reaches the device after its caller has given up on it; under the same  *)
(* condition the handlers implement ConfigStore.                           *)
(***************************************************************************)
EXTENDS CrudHandlers, WriteMuProofs, Integers

-----------------------------------------------------------------------------
(* Data.                                                                   *)

LEMMA OverlayType ==
    ASSUME NEW e \in Entry, NEW p \in Entry
    PROVE  Overlay(e, p) \in Entry
BY DEF Overlay, Entry

(* Overlaying the same fields again changes nothing.                       *)
LEMMA OverlayAgain ==
    ASSUME NEW e \in Entry, NEW p \in Entry
    PROVE  Overlay(Overlay(e, p), p) = Overlay(e, p)
BY DEF Overlay, Entry

LEMMA BlankType == Blank \in Entry
BY DEF Blank, Entry

LEMMA EntryThere == Absent \notin Entry
BY AbsentAssumption DEF Entry

LEMMA LandedType ==
    ASSUME NEW node \in Node, NEW w \in Writes
    PROVE  Landed(node, w) \in Node
<1>1. w.kind \in {"set", "edit", "delete"} /\ w.entry \in Entry
    BY DEF Writes
<1>2. (IF node = Absent THEN Blank ELSE node) \in Entry
    BY BlankType DEF Node
<1>3. Overlay(IF node = Absent THEN Blank ELSE node, w.entry) \in Entry
    BY <1>1, <1>2, OverlayType
<1> QED
    BY <1>1, <1>3 DEF Landed, Node

LEMMA RequestFields ==
    ASSUME NEW r \in Requests
    PROVE  /\ r.op \in ReadOps \cup WriteOps \cup {"malformed"}
           /\ r.name \in Names
           /\ r.patch \in Entry
BY BlankType, ToolsAssumption DEF Requests, ReadOps, WriteOps, PatchOps

LEMMA SeenType ==
    ASSUME NEW cand \in [Names -> Node], NEW r \in Requests, r.op \in ReadOps
    PROVE  Seen(cand, r) \in Views
<1>1. r.name \in Names
    BY RequestFields
<1>2. cand[r.name] \in Node
    BY <1>1
<1> QED
    BY <1>2, BlankType DEF Seen, Views, Node, ReadOps

-----------------------------------------------------------------------------
(* The lock, with any faults.                                              *)

(* The handlers start with the lock free and every call idle.              *)
LEMMA LockedInit == Init => LockedInv
<1> SUFFICES ASSUME Init PROVE LockedInv
    OBVIOUS
<1>1. MuInv
    BY MuInitInv DEF Init
<1>2. TypeOK
    BY <1>1, BlankType DEF Init, TypeOK, MuInv, Steps, Views
<1>3. LockDiscipline
    BY <1>1, NoCallAssumption
    DEF Init, LockDiscipline, MuInit, HoldsWrite, WriteSteps
<1>4. StepFitsRequest
    BY DEF Init, StepFitsRequest, WriteSteps
<1> QED
    BY <1>2, <1>3, <1>4 DEF LockedInv

(* A step inside the write lock leaves the lock as it was.                 *)
LEMMA InsideWrite ==
    ASSUME LockedInv, NEW c \in Calls, NEW s \in WriteSteps,
           pc[c] \in WriteSteps, Go(c, s), UNCHANGED muVars
    PROVE  LockDiscipline'
<1>1. MuInv'
    BY MuStutter DEF LockedInv, LockDiscipline
<1>2. pc \in [Calls -> Steps]
    BY DEF LockedInv, TypeOK
<1> QED
    BY <1>1, <1>2 DEF LockedInv, LockDiscipline, Go, muVars, WriteSteps, HoldsWrite

(* Only requests that have a node of ours become writes.                   *)
LEMMA SendType ==
    ASSUME LockedInv, NEW c \in Calls, NEW w \in Writes, NEW s \in {"readback", "unlock"},
           Send(c, w, s)
    PROVE  /\ candidate' \in [Names -> Node]
           /\ late' \subseteq Writes
           /\ view' \in [Calls -> Views]
           /\ Go(c, s) \/ Go(c, "unlock")
<1>1. candidate \in [Names -> Node] /\ late \subseteq Writes /\ view \in [Calls -> Views]
    BY DEF LockedInv, TypeOK
<1>2. w.name \in Names
    BY DEF Writes
<1> DEFINE landed == [candidate EXCEPT ![w.name] = Landed(@, w)]
<1>3. landed \in [Names -> Node]
    BY <1>1, <1>2, LandedType
<1>4. landed[w.name] \in Views /\ Failed \in Views
    BY <1>2, <1>3 DEF Views
<1> HIDE DEF landed
<1>5. \/ /\ candidate' = landed
         /\ Go(c, s)
         /\ Show(c, IF s = "unlock" THEN landed[w.name] ELSE view[c])
         /\ UNCHANGED late
      \/ /\ Go(c, "unlock")
         /\ Show(c, Failed)
         /\ \/ UNCHANGED <<candidate, late>>
            \/ candidate' = landed /\ UNCHANGED late
            \/ late' = late \cup {w} /\ UNCHANGED candidate
    BY DEF Send, landed
<1> QED
    BY <1>1, <1>3, <1>4, <1>5 DEF Show

(* Every step keeps the lock discipline.                                   *)
LEMMA LockedNext == LockedInv /\ [Next]_vars => LockedInv'
<1> SUFFICES ASSUME LockedInv, [Next]_vars PROVE LockedInv'
    OBVIOUS
<1> USE DEF LockedInv
<1>a. MuInv /\ MuTypeOK
    BY DEF LockDiscipline, TypeOK
<1>b. pc \in [Calls -> Steps] /\ \A c \in Calls : c # NoCall
    BY NoCallAssumption DEF TypeOK
<1>1. ASSUME NEW c \in Calls, Invoke(c) PROVE LockedInv'
  <2>1. TypeOK'
    BY <1>1, <1>a DEF Invoke, TypeOK, Go, Steps, muVars, MuTypeOK
  <2>2. LockDiscipline'
    BY <1>1, <1>a, <1>b, MuStutter
    DEF Invoke, LockDiscipline, Go, WriteSteps, HoldsWrite, muVars
  <2>3. StepFitsRequest'
    BY <1>1, <1>b DEF Invoke, TypeOK, StepFitsRequest, Go, WriteSteps
  <2> QED
    BY <2>1, <2>2, <2>3
<1>2. ASSUME NEW c \in Calls, Return(c) PROVE LockedInv'
  <2>1. TypeOK'
    BY <1>2, <1>a, BlankType
    DEF Return, TypeOK, Go, Show, Steps, muVars, MuTypeOK, Views
  <2>2. LockDiscipline'
    BY <1>2, <1>a, <1>b, MuStutter
    DEF Return, LockDiscipline, Go, WriteSteps, HoldsWrite, muVars
  <2>3. StepFitsRequest'
    BY <1>2, <1>b DEF Return, TypeOK, StepFitsRequest, Go, WriteSteps
  <2> QED
    BY <2>1, <2>2, <2>3
<1>3. ASSUME NEW c \in Calls, RejectInput(c) PROVE LockedInv'
  <2>1. TypeOK'
    BY <1>3, <1>a DEF RejectInput, TypeOK, Go, Show, Steps, muVars, MuTypeOK, Views
  <2>2. LockDiscipline'
    BY <1>3, <1>a, <1>b, MuStutter
    DEF RejectInput, LockDiscipline, Go, WriteSteps, HoldsWrite, muVars
  <2>3. StepFitsRequest'
    BY <1>3, <1>b DEF RejectInput, TypeOK, StepFitsRequest, Go, WriteSteps
  <2> QED
    BY <2>1, <2>2, <2>3
<1>4. ASSUME NEW c \in Calls, LockWrites(c) PROVE LockedInv'
  <2>1. TypeOK'
    BY <1>4, <1>a, LockClaimInv DEF LockWrites, TypeOK, Go, Steps, MuInv
  <2>2. LockDiscipline'
    BY <1>4, <1>a, <1>b, LockClaimInv
    DEF LockWrites, LockClaim, LockDiscipline, Go, WriteSteps, HoldsWrite
  <2>3. StepFitsRequest'
    BY <1>4, <1>b DEF LockWrites, TypeOK, StepFitsRequest, Go, WriteSteps
  <2> QED
    BY <2>1, <2>2, <2>3
<1>5. ASSUME NEW c \in Calls, EnterWrite(c) PROVE LockedInv'
  <2>1. TypeOK'
    <3>1. FirstStep(req[c].op) \in Steps
      BY <1>5, <1>b
      DEF EnterWrite, FirstStep, StepFitsRequest, Steps, WriteOps, PatchOps
    <3> QED
      BY <1>5, <3>1, <1>a, LockEnterInv DEF EnterWrite, TypeOK, Go, MuInv
  <2>2. LockDiscipline'
    <3>1. FirstStep(req[c].op) \in {"seed", "create", "delete"}
      BY <1>5, <1>b DEF EnterWrite, FirstStep, StepFitsRequest, WriteOps, PatchOps
    <3> QED
      BY <1>5, <3>1, <1>a, <1>b, LockEnterInv
      DEF EnterWrite, LockEnter, LockDiscipline, Go, WriteSteps, HoldsWrite
  <2>3. StepFitsRequest'
    BY <1>5, <1>b
    DEF EnterWrite, TypeOK, StepFitsRequest, Go, WriteSteps, FirstStep, WriteOps,
        PatchOps
  <2> QED
    BY <2>1, <2>2, <2>3
<1>6. ASSUME NEW c \in Calls, UnlockWrite(c) PROVE LockedInv'
  <2>1. TypeOK'
    BY <1>6, <1>a, UnlockInv DEF UnlockWrite, TypeOK, Go, Steps, MuInv
  <2>2. LockDiscipline'
    BY <1>6, <1>a, <1>b, UnlockInv
    DEF UnlockWrite, Unlock, LockDiscipline, Go, WriteSteps, HoldsWrite, MuInv
  <2>3. StepFitsRequest'
    BY <1>6, <1>b DEF UnlockWrite, TypeOK, StepFitsRequest, Go, WriteSteps
  <2> QED
    BY <2>1, <2>2, <2>3
<1>7. ASSUME NEW c \in Calls, RLockReads(c) PROVE LockedInv'
  <2>1. TypeOK'
    <3>1. c \notin readers
      BY <1>7 DEF RLockReads, LockDiscipline
    <3> QED
      BY <1>7, <3>1, <1>a, RLockInv DEF RLockReads, TypeOK, Go, Steps, MuInv
  <2>2. LockDiscipline'
    <3>1. c \notin readers
      BY <1>7 DEF RLockReads, LockDiscipline
    <3> QED
      BY <1>7, <3>1, <1>a, <1>b, RLockInv
      DEF RLockReads, LockDiscipline, Go, WriteSteps, HoldsWrite
  <2>3. StepFitsRequest'
    BY <1>7, <1>b DEF RLockReads, TypeOK, StepFitsRequest, Go, WriteSteps
  <2> QED
    BY <2>1, <2>2, <2>3
<1>8. ASSUME NEW c \in Calls, UnlockRead(c) PROVE LockedInv'
  <2>1. TypeOK'
    BY <1>8, <1>a, RUnlockInv DEF UnlockRead, TypeOK, Go, Steps, MuInv
  <2>2. LockDiscipline'
    BY <1>8, <1>a, <1>b, RUnlockInv
    DEF UnlockRead, LockDiscipline, Go, WriteSteps, HoldsWrite, MuInv
  <2>3. StepFitsRequest'
    BY <1>8, <1>b DEF UnlockRead, TypeOK, StepFitsRequest, Go, WriteSteps
  <2> QED
    BY <2>1, <2>2, <2>3
<1>9. ASSUME NEW c \in Calls, ReadNode(c) PROVE LockedInv'
  <2>1. TypeOK'
    <3>1. req[c] \in Requests /\ req[c].op \in ReadOps
      BY <1>9 DEF ReadNode, StepFitsRequest
    <3>2. Seen(candidate, req[c]) \in Views
      BY <1>9, <3>1, SeenType DEF TypeOK
    <3> QED
      BY <1>9, <3>2, <1>a
      DEF ReadNode, TypeOK, Go, Show, Steps, muVars, MuTypeOK, Views
  <2>2. LockDiscipline'
    BY <1>9, <1>a, <1>b, MuStutter
    DEF ReadNode, LockDiscipline, Go, WriteSteps, HoldsWrite, HoldsRead, muVars
  <2>3. StepFitsRequest'
    BY <1>9, <1>b DEF ReadNode, TypeOK, StepFitsRequest, Go, WriteSteps
  <2> QED
    BY <2>1, <2>2, <2>3
<1>10. ASSUME NEW c \in Calls, CreateNode(c) PROVE LockedInv'
  <2>1. TypeOK'
    <3> DEFINE w == [kind |-> "set", name |-> req[c].name, entry |-> req[c].patch]
    <3>1. req[c] \in Requests
      BY <1>10 DEF CreateNode, StepFitsRequest
    <3>2. w \in Writes
      BY <1>10, <3>1, RequestFields, BlankType DEF Writes, TypeOK
    <3>3. Send(c, w, "readback")
      BY <1>10 DEF CreateNode
    <3> HIDE DEF w
    <3>4. /\ candidate' \in [Names -> Node]
          /\ late' \subseteq Writes
          /\ view' \in [Calls -> Views]
          /\ Go(c, "readback") \/ Go(c, "unlock")
      BY <1>10, <3>2, <3>3, SendType
    <3> QED
      BY <1>10, <3>4, <1>a DEF CreateNode, TypeOK, Go, Steps, muVars, MuTypeOK
  <2>2. LockDiscipline'
    BY <1>10, InsideWrite DEF CreateNode, Send, WriteSteps
  <2>3. StepFitsRequest'
    BY <1>10, <1>b DEF CreateNode, Send, StepFitsRequest, Go, WriteSteps, PatchOps
  <2> QED
    BY <2>1, <2>2, <2>3
<1>11. ASSUME NEW c \in Calls, DeleteNode(c) PROVE LockedInv'
  <2>1. TypeOK'
    <3> DEFINE w == [kind |-> "delete", name |-> req[c].name, entry |-> Blank]
    <3>1. req[c] \in Requests
      BY <1>11 DEF DeleteNode, StepFitsRequest
    <3>2. w \in Writes
      BY <1>11, <3>1, RequestFields, BlankType DEF Writes, TypeOK
    <3>3. Send(c, w, "unlock")
      BY <1>11 DEF DeleteNode
    <3> HIDE DEF w
    <3>4. /\ candidate' \in [Names -> Node]
          /\ late' \subseteq Writes
          /\ view' \in [Calls -> Views]
          /\ Go(c, "unlock")
      BY <1>11, <3>2, <3>3, SendType
    <3> QED
      BY <1>11, <3>4, <1>a DEF DeleteNode, TypeOK, Go, Steps, muVars, MuTypeOK
  <2>2. LockDiscipline'
    BY <1>11, InsideWrite DEF DeleteNode, Send, WriteSteps
  <2>3. StepFitsRequest'
    BY <1>11, <1>b DEF DeleteNode, Send, StepFitsRequest, Go, WriteSteps, PatchOps
  <2> QED
    BY <2>1, <2>2, <2>3
<1>12. ASSUME NEW c \in Calls, EditNode(c) PROVE LockedInv'
  <2>1. TypeOK'
    <3> DEFINE w == [kind |-> "edit", name |-> req[c].name, entry |-> seed[c]]
    <3>1. req[c] \in Requests
      BY <1>12 DEF EditNode, StepFitsRequest
    <3>2. w \in Writes
      BY <1>12, <3>1, RequestFields, BlankType DEF Writes, TypeOK
    <3>3. Send(c, w, "readback")
      BY <1>12 DEF EditNode
    <3> HIDE DEF w
    <3>4. /\ candidate' \in [Names -> Node]
          /\ late' \subseteq Writes
          /\ view' \in [Calls -> Views]
          /\ Go(c, "readback") \/ Go(c, "unlock")
      BY <1>12, <3>2, <3>3, SendType
    <3> QED
      BY <1>12, <3>4, <1>a DEF EditNode, TypeOK, Go, Steps, muVars, MuTypeOK
  <2>2. LockDiscipline'
    BY <1>12, InsideWrite DEF EditNode, Send, WriteSteps
  <2>3. StepFitsRequest'
    BY <1>12, <1>b DEF EditNode, Send, StepFitsRequest, Go, WriteSteps, PatchOps
  <2> QED
    BY <2>1, <2>2, <2>3
<1>13. ASSUME NEW c \in Calls, SeedRead(c) PROVE LockedInv'
  <2>1. TypeOK'
    <3>1. req[c] \in Requests
      BY <1>13 DEF SeedRead, StepFitsRequest
    <3>2. req[c].name \in Names /\ req[c].patch \in Entry
      BY <1>13, <3>1, RequestFields
    <3>3. Here(c) # Absent => Here(c) \in Entry
      BY <1>13, <3>2 DEF TypeOK, Node, Here
    <3>4. seed' \in [Calls -> Entry]
      BY <1>13, <3>2, <3>3, OverlayType, BlankType DEF SeedRead, TypeOK
    <3> QED
      BY <1>13, <3>4, <1>a DEF SeedRead, TypeOK, Go, Steps, muVars, MuTypeOK
  <2>2. LockDiscipline'
    BY <1>13, InsideWrite DEF SeedRead, WriteSteps
  <2>3. StepFitsRequest'
    BY <1>13, <1>b DEF SeedRead, TypeOK, StepFitsRequest, Go, WriteSteps
  <2> QED
    BY <2>1, <2>2, <2>3
<1>14. ASSUME NEW c \in Calls, SeedFails(c) PROVE LockedInv'
  <2>1. TypeOK'
    BY <1>14, <1>a
    DEF SeedFails, GiveUp, TypeOK, Go, Show, Steps, muVars, MuTypeOK, Views
  <2>2. LockDiscipline'
    BY <1>14, InsideWrite DEF SeedFails, GiveUp, WriteSteps
  <2>3. StepFitsRequest'
    BY <1>14, <1>b DEF SeedFails, TypeOK, StepFitsRequest, Go, WriteSteps, GiveUp
  <2> QED
    BY <2>1, <2>2, <2>3
<1>15. ASSUME NEW c \in Calls, CompareFails(c) PROVE LockedInv'
  <2>1. TypeOK'
    BY <1>15, <1>a
    DEF CompareFails, GiveUp, TypeOK, Go, Show, Steps, muVars, MuTypeOK, Views
  <2>2. LockDiscipline'
    BY <1>15, InsideWrite DEF CompareFails, GiveUp, WriteSteps
  <2>3. StepFitsRequest'
    BY <1>15, <1>b DEF CompareFails, TypeOK, StepFitsRequest, Go, WriteSteps, GiveUp
  <2> QED
    BY <2>1, <2>2, <2>3
<1>16. ASSUME NEW c \in Calls, ReadBackFails(c) PROVE LockedInv'
  <2>1. TypeOK'
    BY <1>16, <1>a
    DEF ReadBackFails, GiveUp, TypeOK, Go, Show, Steps, muVars, MuTypeOK, Views
  <2>2. LockDiscipline'
    BY <1>16, InsideWrite DEF ReadBackFails, GiveUp, WriteSteps
  <2>3. StepFitsRequest'
    BY <1>16, <1>b
    DEF ReadBackFails, TypeOK, StepFitsRequest, Go, WriteSteps, GiveUp
  <2> QED
    BY <2>1, <2>2, <2>3
<1>17. ASSUME NEW c \in Calls, CompareStored(c) PROVE LockedInv'
  <2>1. TypeOK'
    BY <1>17, <1>a DEF CompareStored, TypeOK, Go, Steps, muVars, MuTypeOK
  <2>2. LockDiscipline'
    BY <1>17, InsideWrite DEF CompareStored, WriteSteps
  <2>3. StepFitsRequest'
    BY <1>17, <1>b
    DEF CompareStored, TypeOK, StepFitsRequest, Go, WriteSteps, PatchOps
  <2> QED
    BY <2>1, <2>2, <2>3
<1>18. ASSUME NEW c \in Calls, ReadBack(c) PROVE LockedInv'
  <2>1. TypeOK'
    <3>1. req[c] \in Requests
      BY <1>18 DEF ReadBack, StepFitsRequest
    <3>2. Here(c) \in Views
      BY <1>18, <3>1, RequestFields DEF TypeOK, Here, Views
    <3> QED
      BY <1>18, <3>2, <1>a DEF ReadBack, TypeOK, Go, Show, Steps, muVars, MuTypeOK
  <2>2. LockDiscipline'
    BY <1>18, InsideWrite DEF ReadBack, WriteSteps
  <2>3. StepFitsRequest'
    BY <1>18, <1>b DEF ReadBack, TypeOK, StepFitsRequest, Go, WriteSteps
  <2> QED
    BY <2>1, <2>2, <2>3
<1>19. ASSUME NEW w \in late, Land(w) PROVE LockedInv'
  <2>1. TypeOK'
    <3>1. w \in Writes /\ w.name \in Names
      BY <1>19 DEF Land, TypeOK, Writes
    <3>2. candidate' \in [Names -> Node]
      BY <1>19, <3>1, LandedType DEF Land, TypeOK
    <3> QED
      BY <1>19, <3>2, <1>a DEF Land, TypeOK, muVars, MuTypeOK
  <2>2. LockDiscipline'
    BY <1>19, <1>a, MuStutter DEF Land, LockDiscipline, muVars, HoldsWrite
  <2>3. StepFitsRequest'
    BY <1>19 DEF Land, StepFitsRequest
  <2> QED
    BY <2>1, <2>2, <2>3
<1>20. ASSUME UNCHANGED vars PROVE LockedInv'
  <2>1. TypeOK'
    BY <1>20, <1>a DEF vars, muVars, TypeOK, MuTypeOK
  <2>2. LockDiscipline'
    BY <1>20, <1>a, MuStutter DEF vars, muVars, LockDiscipline, HoldsWrite
  <2>3. StepFitsRequest'
    BY <1>20 DEF vars, StepFitsRequest
  <2> QED
    BY <2>1, <2>2, <2>3
<1> QED
    BY <1>1, <1>2, <1>3, <1>4, <1>5, <1>6, <1>7, <1>8, <1>9, <1>10, <1>11, <1>12,
       <1>13, <1>14, <1>15, <1>16, <1>17, <1>18, <1>19, <1>20
    DEF Next, Step

(* With any faults, the write lock belongs to the call inside a write      *)
(* handler and no reader is inside beside it.                              *)
THEOREM LockDisciplineHolds == Spec => []LockDiscipline
<1>1. LockedInv => LockDiscipline
    BY DEF LockedInv
<1> QED
    BY <1>1, LockedInit, LockedNext, PTL DEF Spec

THEOREM TypesHold == Spec => []TypeOK
<1>1. LockedInv => TypeOK
    BY DEF LockedInv
<1> QED
    BY <1>1, LockedInit, LockedNext, PTL DEF Spec

-----------------------------------------------------------------------------
(* What the lock is for, without late writes.                              *)

(* The part of AtomicInv that speaks of one call.                          *)
CallAtomic(c) ==
    /\ pc[c] \in {"compare", "edit"} =>
          /\ Here(c) # Absent
          /\ seed[c] = Overlay(Here(c), req[c].patch)
    /\ pc[c] = "create" /\ req[c].op = "upsert" => Here(c) = Absent
    /\ pc[c] = "readback" =>
          /\ Here(c) # Absent
          /\ Here(c) = Overlay(Here(c), req[c].patch)
    /\ pc[c] = "unlock" /\ view[c] # Failed =>
          /\ view[c] = Here(c)
          /\ req[c].op \in PatchOps => view[c] = Overlay(view[c], req[c].patch)

AllAtomic == late = {} /\ \A c \in Calls : CallAtomic(c)

LEMMA AtomicByCall == AtomicInv <=> LockedInv /\ AllAtomic
BY DEF AtomicInv, AllAtomic, CallAtomic, SeedFresh, WrittenBack, AnswerCurrent

(* What one call did leaves the others as they were: the candidate stands  *)
(* still, or only the call that holds the write lock has changed it.       *)
LEMMA OthersAtomic ==
    ASSUME AtomicInv, NEW c \in Calls, NEW d \in Calls, d # c,
           pc'[d] = pc[d], req'[d] = req[d], seed'[d] = seed[d], view'[d] = view[d],
           candidate' = candidate \/ pc[c] \in WriteSteps
    PROVE  CallAtomic(d)'
<1>1. LockDiscipline /\ CallAtomic(d)
    BY AtomicByCall DEF LockedInv, AllAtomic
<1>2. CASE candidate' = candidate
    BY <1>1, <1>2 DEF CallAtomic, Here
<1>3. CASE pc[c] \in WriteSteps
  <2>1. pc[d] \notin WriteSteps
    BY <1>1, <1>3 DEF LockDiscipline, HoldsWrite
  <2> QED
    BY <2>1 DEF CallAtomic, WriteSteps
<1> QED
    BY <1>2, <1>3

(* A step that leaves the candidate alone need only be right for the call  *)
(* that makes it.                                                          *)
LEMMA QuietAtomic ==
    ASSUME AtomicInv, NEW c \in Calls, CallAtomic(c)', UNCHANGED <<candidate, late>>,
           \A d \in Calls : d # c =>
              /\ pc'[d] = pc[d] /\ req'[d] = req[d]
              /\ seed'[d] = seed[d] /\ view'[d] = view[d]
    PROVE  AllAtomic'
BY AtomicByCall, OthersAtomic DEF AllAtomic

(* The candidate after a call's own write, confirmed or not.               *)
LEMMA SendAtomic ==
    ASSUME "late" \notin Faults, AtomicInv, NEW c \in Calls, NEW w \in Writes,
           NEW s \in {"readback", "unlock"}, w.name = req[c].name, req' = req,
           pc[c] \in WriteSteps, seed' = seed, Send(c, w, s),
           s = "readback" =>
                /\ Landed(Here(c), w) # Absent
                /\ Landed(Here(c), w) = Overlay(Landed(Here(c), w), req[c].patch),
           s = "unlock" => req[c].op = "delete"
    PROVE  AllAtomic'
<1>1. /\ pc \in [Calls -> Steps] /\ view \in [Calls -> Views] /\ late = {}
      /\ candidate \in [Names -> Node]
    BY DEF AtomicInv, LockedInv, TypeOK
<1>2. w.name \in Names
    BY DEF Writes
<1> DEFINE landed == [candidate EXCEPT ![w.name] = Landed(@, w)]
<1>3. landed[req[c].name] = Landed(Here(c), w)
    BY <1>1, <1>2 DEF Here
<1> HIDE DEF landed
<1>4. \/ /\ candidate' = landed
         /\ Go(c, s)
         /\ Show(c, IF s = "unlock" THEN landed[w.name] ELSE view[c])
         /\ UNCHANGED late
      \/ Go(c, "unlock") /\ Show(c, Failed) /\ UNCHANGED late
    BY DEF Send, landed
<1>5. CallAtomic(c)'
    BY <1>1, <1>3, <1>4 DEF CallAtomic, Here, Go, Show, PatchOps
<1>6. ASSUME NEW d \in Calls, d # c PROVE CallAtomic(d)'
  <2>1. pc'[d] = pc[d] /\ view'[d] = view[d]
    BY <1>1, <1>4, <1>6 DEF Go, Show
  <2> QED
    BY <2>1, <1>6, OthersAtomic
<1> QED
    BY <1>1, <1>4, <1>5, <1>6 DEF AllAtomic

(* The handlers start with nothing read, written or late.                  *)
LEMMA AtomicInit == Init => AtomicInv
<1>1. Init => LockedInv
    BY LockedInit
<1>2. Init => AllAtomic
    BY DEF Init, AllAtomic, CallAtomic
<1> QED
    BY <1>1, <1>2, AtomicByCall

(* While no write is late, every step keeps the cycles atomic.             *)
LEMMA AtomicNext ==
    ASSUME "late" \notin Faults, AtomicInv, [Next]_vars
    PROVE  AtomicInv'
<1>a. LockedInv /\ LockedInv'
    BY LockedNext DEF AtomicInv
<1>b. /\ pc \in [Calls -> Steps] /\ req \in [Calls -> Requests \cup {NoRequest}]
      /\ seed \in [Calls -> Entry] /\ view \in [Calls -> Views]
      /\ candidate \in [Names -> Node]
    BY <1>a DEF LockedInv, TypeOK
<1>c. late = {} /\ \A c \in Calls : CallAtomic(c)
    BY AtomicByCall DEF AllAtomic
<1>d. StepFitsRequest /\ StepFitsRequest'
    BY <1>a DEF LockedInv
<1> SUFFICES AllAtomic'
    BY <1>a DEF AtomicInv, AllAtomic, CallAtomic, SeedFresh, WrittenBack, AnswerCurrent
<1>1. ASSUME NEW c \in Calls, Invoke(c) PROVE AllAtomic'
  <2>1. CallAtomic(c)'
    BY <1>1, <1>b DEF Invoke, CallAtomic, Go
  <2> QED
    BY <1>1, <1>b, <2>1, QuietAtomic DEF Invoke, Go
<1>2. ASSUME NEW c \in Calls, Return(c) PROVE AllAtomic'
  <2>1. CallAtomic(c)'
    BY <1>2, <1>b DEF Return, CallAtomic, Go
  <2> QED
    BY <1>2, <1>b, <2>1, QuietAtomic DEF Return, Go, Show
<1>3. ASSUME NEW c \in Calls, RejectInput(c) PROVE AllAtomic'
  <2>1. CallAtomic(c)'
    BY <1>3, <1>b DEF RejectInput, CallAtomic, Go
  <2> QED
    BY <1>3, <1>b, <2>1, QuietAtomic DEF RejectInput, Go, Show
<1>4. ASSUME NEW c \in Calls, LockWrites(c) PROVE AllAtomic'
  <2>1. CallAtomic(c)'
    BY <1>4, <1>b DEF LockWrites, CallAtomic, Go
  <2> QED
    BY <1>4, <1>b, <2>1, QuietAtomic DEF LockWrites, Go
<1>5. ASSUME NEW c \in Calls, UnlockWrite(c) PROVE AllAtomic'
  <2>1. CallAtomic(c)'
    BY <1>5, <1>b DEF UnlockWrite, CallAtomic, Go
  <2> QED
    BY <1>5, <1>b, <2>1, QuietAtomic DEF UnlockWrite, Go
<1>6. ASSUME NEW c \in Calls, RLockReads(c) PROVE AllAtomic'
  <2>1. CallAtomic(c)'
    BY <1>6, <1>b DEF RLockReads, CallAtomic, Go
  <2> QED
    BY <1>6, <1>b, <2>1, QuietAtomic DEF RLockReads, Go
<1>7. ASSUME NEW c \in Calls, UnlockRead(c) PROVE AllAtomic'
  <2>1. CallAtomic(c)'
    BY <1>7, <1>b DEF UnlockRead, CallAtomic, Go
  <2> QED
    BY <1>7, <1>b, <2>1, QuietAtomic DEF UnlockRead, Go
<1>8. ASSUME NEW c \in Calls, ReadNode(c) PROVE AllAtomic'
  <2>1. CallAtomic(c)'
    BY <1>8, <1>b DEF ReadNode, CallAtomic, Go
  <2> QED
    BY <1>8, <1>b, <2>1, QuietAtomic DEF ReadNode, Go, Show
<1>9. ASSUME NEW c \in Calls, SeedFails(c) PROVE AllAtomic'
  <2>1. CallAtomic(c)'
    BY <1>9, <1>b DEF SeedFails, GiveUp, CallAtomic, Go, Show
  <2> QED
    BY <1>9, <1>b, <2>1, QuietAtomic DEF SeedFails, GiveUp, Go, Show
<1>10. ASSUME NEW c \in Calls, CompareFails(c) PROVE AllAtomic'
  <2>1. CallAtomic(c)'
    BY <1>10, <1>b DEF CompareFails, GiveUp, CallAtomic, Go, Show
  <2> QED
    BY <1>10, <1>b, <2>1, QuietAtomic DEF CompareFails, GiveUp, Go, Show
<1>11. ASSUME NEW c \in Calls, ReadBackFails(c) PROVE AllAtomic'
  <2>1. CallAtomic(c)'
    BY <1>11, <1>b DEF ReadBackFails, GiveUp, CallAtomic, Go, Show
  <2> QED
    BY <1>11, <1>b, <2>1, QuietAtomic DEF ReadBackFails, GiveUp, Go, Show
<1>12. ASSUME NEW c \in Calls, EnterWrite(c) PROVE AllAtomic'
  <2>1. /\ FirstStep(req[c].op) \in {"seed", "create", "delete"}
        /\ req[c].op = "upsert" => FirstStep(req[c].op) = "seed"
    BY <1>12, <1>d DEF EnterWrite, FirstStep, StepFitsRequest, WriteOps, PatchOps
  <2>2. CallAtomic(c)'
    BY <1>12, <1>b, <2>1 DEF EnterWrite, CallAtomic, Go
  <2> QED
    BY <1>12, <1>b, <2>2, QuietAtomic DEF EnterWrite, Go
<1>13. ASSUME NEW c \in Calls, SeedRead(c) PROVE AllAtomic'
  <2>1. CallAtomic(c)'
    BY <1>13, <1>b DEF SeedRead, CallAtomic, Go, Here
  <2> QED
    BY <1>13, <1>b, <2>1, QuietAtomic DEF SeedRead, Go
<1>14. ASSUME NEW c \in Calls, CompareStored(c) PROVE AllAtomic'
  <2>1. CallAtomic(c)'
    BY <1>14, <1>b, <1>c DEF CompareStored, CallAtomic, Go, Here
  <2> QED
    BY <1>14, <1>b, <2>1, QuietAtomic DEF CompareStored, Go
<1>15. ASSUME NEW c \in Calls, ReadBack(c) PROVE AllAtomic'
  <2>1. CallAtomic(c)'
    BY <1>15, <1>b, <1>c DEF ReadBack, CallAtomic, Go, Show, Here
  <2> QED
    BY <1>15, <1>b, <2>1, QuietAtomic DEF ReadBack, Go, Show
<1>16. ASSUME NEW c \in Calls, CreateNode(c) PROVE AllAtomic'
  <2> DEFINE w == [kind |-> "set", name |-> req[c].name, entry |-> req[c].patch]
  <2>1. req[c] \in Requests /\ pc[c] = "create"
    BY <1>16, <1>d DEF CreateNode, StepFitsRequest
  <2>2. req[c].name \in Names /\ req[c].patch \in Entry
    BY <2>1, RequestFields
  <2>3. w \in Writes
    BY <2>2, <1>b, BlankType DEF Writes
  <2>4. Here(c) \in Node
    BY <1>b, <2>2 DEF Here
  <2>5. /\ Landed(Here(c), w) # Absent
        /\ Landed(Here(c), w) = Overlay(Landed(Here(c), w), req[c].patch)
    <3> DEFINE base == IF Here(c) = Absent THEN Blank ELSE Here(c)
    <3>1. base \in Entry
      BY <2>4, BlankType DEF Node
    <3>2. Landed(Here(c), w) = Overlay(base, req[c].patch)
      BY DEF Landed
    <3> HIDE DEF base
    <3> QED
      BY <2>2, <3>1, <3>2, OverlayType, OverlayAgain, EntryThere
  <2>6. Send(c, w, "readback") /\ req' = req /\ seed' = seed /\ w.name = req[c].name
    BY <1>16 DEF CreateNode
  <2>7. pc[c] \in WriteSteps
    BY <2>1 DEF WriteSteps
  <2> HIDE DEF w
  <2> QED
    BY <2>3, <2>5, <2>6, <2>7, SendAtomic
<1>17. ASSUME NEW c \in Calls, EditNode(c) PROVE AllAtomic'
  <2> DEFINE w == [kind |-> "edit", name |-> req[c].name, entry |-> seed[c]]
  <2>1. req[c] \in Requests /\ pc[c] = "edit"
    BY <1>17, <1>d DEF EditNode, StepFitsRequest
  <2>2. req[c].name \in Names /\ req[c].patch \in Entry
    BY <2>1, RequestFields
  <2>3. w \in Writes
    BY <2>2, <1>b, BlankType DEF Writes
  <2>4. Here(c) \in Node
    BY <1>b, <2>2 DEF Here
  <2>5. /\ Landed(Here(c), w) # Absent
        /\ Landed(Here(c), w) = Overlay(Landed(Here(c), w), req[c].patch)
    <3>1. Landed(Here(c), w) = seed[c]
      BY DEF Landed
    <3>2. seed[c] = Overlay(Here(c), req[c].patch) /\ Here(c) \in Entry
      BY <1>c, <2>1, <2>4 DEF CallAtomic, Node
    <3> QED
      BY <2>2, <3>1, <3>2, OverlayType, OverlayAgain, EntryThere
  <2>6. Send(c, w, "readback") /\ req' = req /\ seed' = seed /\ w.name = req[c].name
    BY <1>17 DEF EditNode
  <2>7. pc[c] \in WriteSteps
    BY <2>1 DEF WriteSteps
  <2> HIDE DEF w
  <2> QED
    BY <2>3, <2>5, <2>6, <2>7, SendAtomic
<1>18. ASSUME NEW c \in Calls, DeleteNode(c) PROVE AllAtomic'
  <2> DEFINE w == [kind |-> "delete", name |-> req[c].name, entry |-> Blank]
  <2>1. req[c] \in Requests /\ pc[c] = "delete"
    BY <1>18, <1>d DEF DeleteNode, StepFitsRequest
  <2>2. req[c].name \in Names /\ req[c].patch \in Entry
    BY <2>1, RequestFields
  <2>3. w \in Writes
    BY <2>2, <1>b, BlankType DEF Writes
  <2>4. Here(c) \in Node
    BY <1>b, <2>2 DEF Here
  <2>5. req[c].op = "delete"
    BY <2>1, <1>d DEF StepFitsRequest
  <2>6. Send(c, w, "unlock") /\ req' = req /\ seed' = seed /\ w.name = req[c].name
    BY <1>18 DEF DeleteNode
  <2>7. pc[c] \in WriteSteps
    BY <2>1 DEF WriteSteps
  <2> HIDE DEF w
  <2> QED
    BY <2>3, <2>5, <2>6, <2>7, SendAtomic
<1>19. ASSUME NEW w \in late, Land(w) PROVE AllAtomic'
    BY <1>19, <1>c
<1>20. ASSUME UNCHANGED vars PROVE AllAtomic'
    BY <1>20, <1>c DEF vars, AllAtomic, CallAtomic, Here
<1> QED
    BY <1>1, <1>2, <1>3, <1>4, <1>5, <1>6, <1>7, <1>8, <1>9, <1>10, <1>11, <1>12,
       <1>13, <1>14, <1>15, <1>16, <1>17, <1>18, <1>19, <1>20
    DEF Next, Step

(* Read-modify-write cycles are atomic as long as no abandoned request is  *)
(* applied later: from seed read to edit the stored entry does not move.   *)
THEOREM SeedFreshHolds ==
    ASSUME "late" \notin Faults
    PROVE  Spec => []SeedFresh
<1>1. AtomicInv /\ [Next]_vars => AtomicInv'
    BY AtomicNext
<1>2. AtomicInv => SeedFresh
    BY DEF AtomicInv
<1> QED
    BY <1>1, <1>2, AtomicInit, PTL DEF Spec

(* Under the same condition an edit that takes effect, confirmed or not,   *)
(* changes only the fields its caller gave: what other calls wrote stays.  *)
THEOREM EditsKeepTheRest ==
    ASSUME "late" \notin Faults
    PROVE  Spec => EditKeepsTheRest
<1>1. AtomicInv /\ [Next]_vars => AtomicInv'
    BY AtomicNext
<1>2. ASSUME AtomicInv, NEW c \in Calls, EditNode(c), candidate' # candidate
      PROVE  EditOverlays(c)
  <2> DEFINE w == [kind |-> "edit", name |-> req[c].name, entry |-> seed[c]]
  <2>1. Here(c) # Absent /\ seed[c] = Overlay(Here(c), req[c].patch)
    BY <1>2 DEF AtomicInv, SeedFresh, EditNode
  <2>2. candidate' = [candidate EXCEPT ![req[c].name] = seed[c]]
    <3>1. Send(c, w, "readback")
      BY <1>2 DEF EditNode
    <3>2. candidate' = [candidate EXCEPT ![w.name] = Landed(@, w)]
      BY <3>1, <1>2 DEF Send
    <3> QED
      BY <3>2 DEF Landed
  <2> HIDE DEF w
  <2> QED
    BY <2>1, <2>2 DEF EditOverlays, Here
<1>3. AtomicInv /\ [Next]_vars =>
        [\A c \in Calls : EditNode(c) /\ candidate' # candidate => EditOverlays(c)]_vars
    BY <1>2
<1> QED
    BY <1>1, <1>3, AtomicInit, PTL DEF Spec, EditKeepsTheRest

(* Under the same condition an answer shows the stored node, the caller's  *)
(* fields in it, as it is when the lock is given back.                     *)
THEOREM AnswerCurrentHolds ==
    ASSUME "late" \notin Faults
    PROVE  Spec => []AnswerCurrent
<1>1. AtomicInv /\ [Next]_vars => AtomicInv'
    BY AtomicNext
<1>2. AtomicInv => AnswerCurrent
    BY DEF AtomicInv
<1> QED
    BY <1>1, <1>2, AtomicInit, PTL DEF Spec

-----------------------------------------------------------------------------
(* The refinement mapping.                                                 *)

LEMMA PhaseGo ==
    ASSUME pc \in [Calls -> Steps], NEW c \in Calls, NEW s, Go(c, s)
    PROVE  StorePhase' = [StorePhase EXCEPT ![c] = PhaseOf(s)]
BY DEF Go, StorePhase

LEMMA PhaseHere ==
    ASSUME NEW c \in Calls
    PROVE  StorePhase[c] = PhaseOf(pc[c])
BY DEF StorePhase

(* A step of one call moves what that call alone shows: the candidate      *)
(* stands still, or no other call waits for its read-back.                 *)
LEMMA ViewGo ==
    ASSUME AtomicInv, NEW c \in Calls, NEW s, NEW v, Go(c, s), Show(c, v),
           req' = req,
           candidate' = candidate \/ pc[c] \in WriteSteps
    PROVE  StoreView' = [StoreView EXCEPT ![c] = IF s = "readback" THEN Here(c)' ELSE v]
<1>1. pc \in [Calls -> Steps] /\ view \in [Calls -> Views] /\ LockDiscipline
    BY DEF AtomicInv, LockedInv, TypeOK
<1>2. pc'[c] = s /\ view'[c] = v
    BY <1>1 DEF Go, Show
<1>3. ASSUME NEW d \in Calls, d # c
      PROVE  (IF pc[d] = "readback" THEN Here(d) ELSE view[d])'
                = (IF pc[d] = "readback" THEN Here(d) ELSE view[d])
  <2>1. pc'[d] = pc[d] /\ view'[d] = view[d]
    BY <1>1, <1>3 DEF Go, Show
  <2>2. CASE candidate' = candidate
    BY <2>1, <2>2 DEF Here
  <2>3. CASE pc[c] \in WriteSteps
    <3>1. pc[d] # "readback"
      BY <1>1, <1>3, <2>3 DEF LockDiscipline, HoldsWrite, WriteSteps
    <3> QED
      BY <2>1, <3>1
  <2> QED
    BY <2>2, <2>3
<1> QED
    BY <1>2, <1>3 DEF StoreView

LEMMA ViewHere ==
    ASSUME NEW c \in Calls
    PROVE  StoreView[c] = IF pc[c] = "readback" THEN Here(c) ELSE view[c]
BY DEF StoreView

LEMMA StoreData ==
    /\ Store!Requests = Requests
    /\ Store!NoRequest = NoRequest
    /\ Store!WriteOps = WriteOps /\ Store!ReadOps = ReadOps
BY DEF Store!Requests, Requests, Store!NoRequest, NoRequest, Store!Blank, Blank,
       Store!Entry, Entry, Store!WriteOps, WriteOps, Store!PatchOps, PatchOps,
       Store!ReadOps, ReadOps

LEMMA StoreInit == Init => Store!Init
<1> SUFFICES ASSUME Init PROVE Store!Init
    OBVIOUS
<1>1. candidate \in [Names -> Store!Node]
    BY DEF Init, Store!Node, Node, Store!Entry, Entry
<1>2. StorePhase = [c \in Calls |-> "idle"]
    BY DEF Init, StorePhase, PhaseOf
<1>3. StoreView = [c \in Calls |-> Nothing]
    BY DEF Init, StoreView
<1>4. req = [c \in Calls |-> Store!NoRequest]
    BY StoreData DEF Init
<1> QED
    BY <1>1, <1>2, <1>3, <1>4 DEF Store!Init

-----------------------------------------------------------------------------
(* Steps.                                                                  *)

LEMMA PhaseValues ==
    /\ PhaseOf("idle") = "idle"
    /\ PhaseOf("readback") = "applied"
    /\ \A s \in {"unlock", "runlock", "answered"} : PhaseOf(s) = "done"
    /\ \A s \in {"start", "draining", "seed", "compare", "edit", "create", "delete",
                  "reading"} : PhaseOf(s) = "open"
BY DEF PhaseOf

(* An error answer promises nothing.                                       *)
LEMMA FailStep ==
    ASSUME AtomicInv, NEW c \in Calls, NEW s \in {"unlock", "runlock", "answered"},
           PhaseOf(pc[c]) \in {"open", "applied"},
           Go(c, s), Show(c, Failed), UNCHANGED <<candidate, req>>
    PROVE  Store!Fail(c)
<1>1. pc \in [Calls -> Steps]
    BY DEF AtomicInv, LockedInv, TypeOK
<1>2. StorePhase[c] \in {"open", "applied"}
    BY PhaseHere
<1>3. StorePhase' = [StorePhase EXCEPT ![c] = "done"]
    BY <1>1, PhaseGo, PhaseValues
<1>4. StoreView' = [StoreView EXCEPT ![c] = Failed]
    BY ViewGo
<1> QED
    BY <1>2, <1>3, <1>4 DEF Store!Fail

(* A step that neither answers nor writes is none of the store's.          *)
LEMMA QuietStep ==
    ASSUME AtomicInv, NEW c \in Calls, NEW s \in Steps,
           PhaseOf(s) = PhaseOf(pc[c]), s # "readback", pc[c] # "readback",
           Go(c, s), UNCHANGED <<candidate, req, view>>
    PROVE  UNCHANGED Store!vars
<1>1. pc \in [Calls -> Steps] /\ view \in [Calls -> Views]
    BY DEF AtomicInv, LockedInv, TypeOK
<1>2. StorePhase' = StorePhase
  <2>1. StorePhase' = [StorePhase EXCEPT ![c] = StorePhase[c]]
    BY <1>1, PhaseGo, PhaseHere
  <2> QED
    BY <2>1 DEF StorePhase
<1>3. StoreView' = StoreView
    BY <1>1 DEF StoreView, Go, Here
<1> QED
    BY <1>2, <1>3 DEF Store!vars

(* What the device does with a request of the handlers is what the call    *)
(* promised.                                                               *)
LEMMA EffectStep ==
    ASSUME AtomicInv, NEW c \in Calls, pc[c] \in WriteSteps, PhaseOf(pc[c]) = "open",
           req[c] \in Requests, req[c].op \in WriteOps,
           req[c].op = "update" => Here(c) # Absent,
           candidate' = [candidate EXCEPT ![req[c].name] = Intended(Here(c), req[c])],
           req' = req
    PROVE  Store!Effect(c)
<1>1. Intended(candidate[req[c].name], req[c])
        = Store!Intended(candidate[req[c].name], req[c])
    BY DEF Intended, Store!Intended, Overlay, Store!Overlay, Blank, Store!Blank
<1>2. StorePhase[c] = "open"
    BY PhaseHere
<1> QED
    BY <1>1, <1>2, StoreData DEF Store!Effect, Here

(* A write of the handlers, however the request ends.                      *)
LEMMA SendStep ==
    ASSUME AtomicInv, NEW c \in Calls, NEW w \in Writes,
           NEW s \in {"readback", "unlock"}, Send(c, w, s),
           w.name = req[c].name, req' = req,
           pc[c] \in WriteSteps, PhaseOf(pc[c]) = "open",
           req[c] \in Requests, req[c].op \in WriteOps,
           req[c].op = "update" => Here(c) # Absent,
           Landed(Here(c), w) = Intended(Here(c), req[c])
    PROVE  [Store!Next]_(Store!vars)
<1>1. /\ pc \in [Calls -> Steps] /\ view \in [Calls -> Views]
      /\ candidate \in [Names -> Node]
    BY DEF AtomicInv, LockedInv, TypeOK
<1> DEFINE landed == [candidate EXCEPT ![w.name] = Landed(@, w)]
<1>2. landed = [candidate EXCEPT ![req[c].name] = Intended(Here(c), req[c])]
    BY DEF Here
<1>3. req[c].name \in Names
    BY RequestFields
<1> HIDE DEF landed
<1>4. CASE Go(c, s) /\ candidate' = landed
           /\ Show(c, IF s = "unlock" THEN landed[w.name] ELSE view[c])
  <2>1. Store!Effect(c)
    BY <1>2, <1>4, EffectStep
  <2>2. StoreView' = [StoreView EXCEPT ![c] = candidate'[req[c].name]]
    BY <1>4, ViewGo DEF Here
  <2>3. StorePhase' = [StorePhase EXCEPT ![c] = PhaseOf(s)]
    BY <1>1, <1>4, PhaseGo
  <2>4. Store!Apply(c) \/ Store!ApplyAndAnswer(c)
    BY <2>1, <2>2, <2>3, PhaseValues DEF Store!Apply, Store!ApplyAndAnswer
  <2> QED
    BY <2>4 DEF Store!Next
<1>5. CASE Go(c, "unlock") /\ candidate' = landed /\ Show(c, Failed)
  <2>1. Store!Effect(c)
    BY <1>2, <1>5, EffectStep
  <2>2. StoreView' = [StoreView EXCEPT ![c] = Failed]
    BY <1>5, ViewGo
  <2>3. StorePhase' = [StorePhase EXCEPT ![c] = "done"]
    BY <1>1, <1>5, PhaseGo, PhaseValues
  <2>4. Store!ApplyAndAnswer(c)
    BY <2>1, <2>2, <2>3 DEF Store!ApplyAndAnswer
  <2> QED
    BY <2>4 DEF Store!Next
<1>6. CASE Go(c, "unlock") /\ UNCHANGED candidate /\ Show(c, Failed)
  <2>1. Store!Fail(c)
    BY <1>6, FailStep
  <2> QED
    BY <2>1 DEF Store!Next
<1> QED
    BY <1>4, <1>5, <1>6 DEF Send, landed

(* Every step of the handlers is a step of the store, or none.             *)
LEMMA StoreNext ==
    ASSUME AtomicInv, [Next]_vars
    PROVE  [Store!Next]_(Store!vars)
<1>a. /\ pc \in [Calls -> Steps] /\ req \in [Calls -> Requests \cup {NoRequest}]
      /\ seed \in [Calls -> Entry] /\ view \in [Calls -> Views]
      /\ candidate \in [Names -> Node] /\ late = {}
    BY DEF AtomicInv, LockedInv, TypeOK
<1>b. StepFitsRequest /\ \A c \in Calls : CallAtomic(c)
    BY AtomicByCall DEF LockedInv, AllAtomic

<1>1. ASSUME NEW c \in Calls, Invoke(c) PROVE [Store!Next]_(Store!vars)
  <2>1. StorePhase[c] = "idle" /\ StorePhase' = [StorePhase EXCEPT ![c] = "open"]
    BY <1>1, <1>a, PhaseHere, PhaseGo, PhaseValues DEF Invoke
  <2>2. StoreView' = StoreView
    BY <1>1, <1>a DEF Invoke, StoreView, Go, Here
  <2>3. Store!Invoke(c)
    BY <1>1, <2>1, <2>2, StoreData DEF Invoke, Store!Invoke
  <2> QED
    BY <2>3 DEF Store!Next
<1>2. ASSUME NEW c \in Calls, Return(c) PROVE [Store!Next]_(Store!vars)
  <2>1. StorePhase[c] = "done" /\ StorePhase' = [StorePhase EXCEPT ![c] = "idle"]
    BY <1>2, <1>a, PhaseHere, PhaseGo, PhaseValues DEF Return
  <2>2. StoreView' = [StoreView EXCEPT ![c] = Nothing]
    BY <1>2, <1>a DEF Return, StoreView, Go, Show, Here
  <2>3. Store!Return(c)
    BY <1>2, <2>1, <2>2, StoreData DEF Return, Store!Return
  <2> QED
    BY <2>3 DEF Store!Next
<1>3. ASSUME NEW c \in Calls, RejectInput(c) PROVE [Store!Next]_(Store!vars)
  <2>1. Store!Fail(c)
    BY <1>3, FailStep, PhaseValues DEF RejectInput
  <2> QED
    BY <2>1 DEF Store!Next
<1>4. ASSUME NEW c \in Calls, SeedFails(c) PROVE [Store!Next]_(Store!vars)
  <2>1. Store!Fail(c)
    BY <1>4, FailStep, PhaseValues DEF SeedFails, GiveUp
  <2> QED
    BY <2>1 DEF Store!Next
<1>5. ASSUME NEW c \in Calls, CompareFails(c) PROVE [Store!Next]_(Store!vars)
  <2>1. Store!Fail(c)
    BY <1>5, FailStep, PhaseValues DEF CompareFails, GiveUp
  <2> QED
    BY <2>1 DEF Store!Next
<1>6. ASSUME NEW c \in Calls, ReadBackFails(c) PROVE [Store!Next]_(Store!vars)
  <2>1. Store!Fail(c)
    BY <1>6, FailStep, PhaseValues DEF ReadBackFails, GiveUp
  <2> QED
    BY <2>1 DEF Store!Next
<1>7. ASSUME NEW c \in Calls, LockWrites(c) PROVE [Store!Next]_(Store!vars)
    BY <1>7, QuietStep, PhaseValues DEF LockWrites, Steps
<1>8. ASSUME NEW c \in Calls, UnlockWrite(c) PROVE [Store!Next]_(Store!vars)
    BY <1>8, QuietStep, PhaseValues DEF UnlockWrite, Steps
<1>9. ASSUME NEW c \in Calls, RLockReads(c) PROVE [Store!Next]_(Store!vars)
    BY <1>9, QuietStep, PhaseValues DEF RLockReads, Steps
<1>10. ASSUME NEW c \in Calls, UnlockRead(c) PROVE [Store!Next]_(Store!vars)
    BY <1>10, QuietStep, PhaseValues DEF UnlockRead, Steps
<1>11. ASSUME NEW c \in Calls, EnterWrite(c) PROVE [Store!Next]_(Store!vars)
  <2>1. FirstStep(req[c].op) \in {"seed", "create", "delete"}
    BY <1>11, <1>b DEF EnterWrite, FirstStep, StepFitsRequest, WriteOps, PatchOps
  <2> QED
    BY <1>11, <2>1, QuietStep, PhaseValues DEF EnterWrite, Steps
<1>12. ASSUME NEW c \in Calls, SeedRead(c) PROVE [Store!Next]_(Store!vars)
    BY <1>12, QuietStep, PhaseValues DEF SeedRead, Steps
<1>13. ASSUME NEW c \in Calls, ReadNode(c) PROVE [Store!Next]_(Store!vars)
  <2>1. CASE Show(c, Failed)
    <3>1. Store!Fail(c)
      BY <1>13, <2>1, FailStep, PhaseValues DEF ReadNode
    <3> QED
      BY <3>1 DEF Store!Next
  <2>2. CASE Show(c, Seen(candidate, req[c]))
    <3>1. StorePhase[c] = "open" /\ StorePhase' = [StorePhase EXCEPT ![c] = "done"]
      BY <1>13, <1>a, PhaseHere, PhaseGo, PhaseValues DEF ReadNode
    <3>2. StoreView' = [StoreView EXCEPT ![c] = Seen(candidate, req[c])]
      BY <1>13, <2>2, ViewGo DEF ReadNode
    <3>3. req[c].op \in ReadOps
      BY <1>13, <1>b DEF ReadNode, StepFitsRequest
    <3>4. Seen(candidate, req[c]) = Store!Seen(candidate, req[c])
      BY DEF Seen, Store!Seen, Blank, Store!Blank
    <3>5. Store!Read(c)
      BY <1>13, <3>1, <3>2, <3>3, <3>4, StoreData DEF ReadNode, Store!Read
    <3> QED
      BY <3>5 DEF Store!Next
  <2> QED
    BY <1>13, <2>1, <2>2 DEF ReadNode
<1>14. ASSUME NEW c \in Calls, CreateNode(c) PROVE [Store!Next]_(Store!vars)
  <2> DEFINE w == [kind |-> "set", name |-> req[c].name, entry |-> req[c].patch]
  <2>1. req[c] \in Requests /\ pc[c] = "create" /\ req[c].op \in {"create", "upsert"}
    BY <1>14, <1>b DEF CreateNode, StepFitsRequest
  <2>2. req[c].name \in Names /\ req[c].patch \in Entry
    BY <2>1, RequestFields
  <2>3. w \in Writes
    BY <2>2, <1>a, BlankType DEF Writes
  <2>4. pc[c] \in WriteSteps /\ PhaseOf(pc[c]) = "open"
    BY <2>1, PhaseValues DEF WriteSteps
  <2>5. /\ Landed(Here(c), w) = Intended(Here(c), req[c])
        /\ req[c].op = "update" => Here(c) # Absent
    BY <2>1 DEF Landed, Intended
  <2>6. Send(c, w, "readback") /\ req' = req /\ w.name = req[c].name
    BY <1>14 DEF CreateNode
  <2>7. req[c].op \in WriteOps
    BY <2>1 DEF WriteOps, PatchOps
  <2> HIDE DEF w
  <2> QED
    BY <2>1, <2>3, <2>4, <2>5, <2>6, <2>7, SendStep
<1>15. ASSUME NEW c \in Calls, DeleteNode(c) PROVE [Store!Next]_(Store!vars)
  <2> DEFINE w == [kind |-> "delete", name |-> req[c].name, entry |-> Blank]
  <2>1. req[c] \in Requests /\ pc[c] = "delete" /\ req[c].op \in {"delete"}
    BY <1>15, <1>b DEF DeleteNode, StepFitsRequest
  <2>2. req[c].name \in Names /\ req[c].patch \in Entry
    BY <2>1, RequestFields
  <2>3. w \in Writes
    BY <2>2, <1>a, BlankType DEF Writes
  <2>4. pc[c] \in WriteSteps /\ PhaseOf(pc[c]) = "open"
    BY <2>1, PhaseValues DEF WriteSteps
  <2>5. /\ Landed(Here(c), w) = Intended(Here(c), req[c])
        /\ req[c].op = "update" => Here(c) # Absent
    BY <2>1 DEF Landed, Intended
  <2>6. Send(c, w, "unlock") /\ req' = req /\ w.name = req[c].name
    BY <1>15 DEF DeleteNode
  <2>7. req[c].op \in WriteOps
    BY <2>1 DEF WriteOps, PatchOps
  <2> HIDE DEF w
  <2> QED
    BY <2>1, <2>3, <2>4, <2>5, <2>6, <2>7, SendStep
<1>16. ASSUME NEW c \in Calls, EditNode(c) PROVE [Store!Next]_(Store!vars)
  <2> DEFINE w == [kind |-> "edit", name |-> req[c].name, entry |-> seed[c]]
  <2>1. req[c] \in Requests /\ pc[c] = "edit" /\ req[c].op \in {"update", "upsert"}
    BY <1>16, <1>b DEF EditNode, StepFitsRequest
  <2>2. req[c].name \in Names /\ req[c].patch \in Entry
    BY <2>1, RequestFields
  <2>3. w \in Writes
    BY <2>2, <1>a, BlankType DEF Writes
  <2>4. pc[c] \in WriteSteps /\ PhaseOf(pc[c]) = "open"
    BY <2>1, PhaseValues DEF WriteSteps
  <2>5. /\ Landed(Here(c), w) = Intended(Here(c), req[c])
        /\ req[c].op = "update" => Here(c) # Absent
    <3>1. Here(c) # Absent /\ seed[c] = Overlay(Here(c), req[c].patch)
      BY <1>b, <2>1 DEF CallAtomic
    <3> QED
      BY <2>1, <3>1 DEF Landed, Intended
  <2>6. Send(c, w, "readback") /\ req' = req /\ w.name = req[c].name
    BY <1>16 DEF EditNode
  <2>7. req[c].op \in WriteOps
    BY <2>1 DEF WriteOps, PatchOps
  <2> HIDE DEF w
  <2> QED
    BY <2>1, <2>3, <2>4, <2>5, <2>6, <2>7, SendStep
<1>17. ASSUME NEW c \in Calls, CompareStored(c) PROVE [Store!Next]_(Store!vars)
  <2>1. /\ req[c] \in Requests /\ pc[c] = "compare" /\ req[c].op \in {"update", "upsert"}
        /\ Here(c) # Absent /\ seed[c] = Overlay(Here(c), req[c].patch)
    BY <1>17, <1>b DEF CompareStored, StepFitsRequest, CallAtomic
  <2>2. CASE Here(c) # seed[c]
    BY <1>17, <2>1, <2>2, QuietStep, PhaseValues DEF CompareStored, Steps
  <2>3. CASE Here(c) = seed[c]
    <3>1. req[c].name \in Names
      BY <2>1, RequestFields
    <3>2. Intended(Here(c), req[c]) = Here(c)
      BY <2>1, <2>3 DEF Intended
    <3>3. candidate' = [candidate EXCEPT ![req[c].name] = Intended(Here(c), req[c])]
      BY <1>17, <1>a, <3>1, <3>2 DEF CompareStored, Here
    <3>4. Go(c, "readback") /\ Show(c, view[c]) /\ req' = req /\ candidate' = candidate
      BY <1>17, <1>a, <2>3 DEF CompareStored, Show
    <3>5. Store!Effect(c)
      BY <2>1, <3>3, <3>4, EffectStep, PhaseValues DEF WriteSteps, WriteOps, PatchOps
    <3>6. StoreView' = [StoreView EXCEPT ![c] = candidate'[req[c].name]]
      BY <3>4, ViewGo DEF Here
    <3>7. StorePhase' = [StorePhase EXCEPT ![c] = "applied"]
      BY <1>a, <3>4, PhaseGo, PhaseValues
    <3>8. Store!Apply(c)
      BY <3>5, <3>6, <3>7 DEF Store!Apply
    <3> QED
      BY <3>8 DEF Store!Next
  <2> QED
    BY <2>2, <2>3
<1>18. ASSUME NEW c \in Calls, ReadBack(c) PROVE [Store!Next]_(Store!vars)
  <2>1. StorePhase[c] = "applied" /\ StorePhase' = [StorePhase EXCEPT ![c] = "done"]
    BY <1>18, <1>a, PhaseHere, PhaseGo, PhaseValues DEF ReadBack
  <2>2. StoreView' = [StoreView EXCEPT ![c] = Here(c)] /\ StoreView[c] = Here(c)
    BY <1>18, ViewGo, ViewHere DEF ReadBack
  <2>3. StoreView' = StoreView
    BY <2>2 DEF StoreView
  <2>4. Store!Answer(c)
    BY <1>18, <2>1, <2>3 DEF ReadBack, Store!Answer
  <2> QED
    BY <2>4 DEF Store!Next
<1>19. ASSUME NEW w \in late, Land(w) PROVE [Store!Next]_(Store!vars)
    BY <1>19, <1>a
<1>20. ASSUME UNCHANGED vars PROVE [Store!Next]_(Store!vars)
    BY <1>20 DEF vars, Store!vars, StorePhase, StoreView, Here
<1> QED
    BY <1>1, <1>2, <1>3, <1>4, <1>5, <1>6, <1>7, <1>8, <1>9, <1>10, <1>11, <1>12,
       <1>13, <1>14, <1>15, <1>16, <1>17, <1>18, <1>19, <1>20
    DEF Next, Step

(* Without late writes the handlers are an atomic store: whatever runs     *)
(* beside it and whichever answers are lost, each call takes effect in one *)
(* step (the promise of the lock, tools.go:26-30).                         *)
THEOREM StoreImplemented ==
    ASSUME "late" \notin Faults
    PROVE  Spec => ImplementsStore
<1>1. AtomicInv /\ [Next]_vars => AtomicInv'
    BY AtomicNext
<1>2. AtomicInv /\ [Next]_vars => [Store!Next]_(Store!vars)
    BY StoreNext
<1> QED
    BY <1>1, <1>2, AtomicInit, StoreInit, PTL DEF Spec, ImplementsStore, Store!Spec
-----------------------------------------------------------------------------
(* Nobody is stuck.  That every call is answered is beyond these proofs;   *)
(* what an answer needs beside fairness is not: no call waits for one that *)
(* waits itself, no handler gives back a lock it does not hold, and every  *)
(* step a call makes is one of a few that are left.                        *)

(* A call that cannot make its next step: Lock and RLock block.            *)
Waits(c) ==
    \/ pc[c] = "start" /\ req[c].op \in WriteOps /\ writer # NoCall
    \/ pc[c] = "draining" /\ readers # {}
    \/ pc[c] = "reading" /\ c \notin readers

NobodyStuck ==
    \A c \in Calls :
        /\ HoldsWrite(c) \/ HoldsRead(c) => ~Waits(c)
        /\ Waits(c) => \E d \in Calls :
              ~Waits(d) /\ (HoldsWrite(d) \/ HoldsRead(d) \/ pc[d] = "draining")
        /\ pc[c] = "draining" /\ ~Waits(c) => writer = c /\ ~entered /\ readers = {}
        /\ pc[c] = "unlock" => HoldsWrite(c)
        /\ pc[c] = "runlock" => HoldsRead(c)

(* The writer slot belongs to a call that drains or is inside.             *)
SlotOwned == \A c \in Calls : writer = c => pc[c] \in {"draining"} \cup WriteSteps

LEMMA SlotInit == Init => SlotOwned
BY NoCallAssumption DEF Init, MuInit, SlotOwned

LEMMA SlotNext == LockedInv /\ SlotOwned /\ [Next]_vars => SlotOwned'
<1> SUFFICES ASSUME LockedInv, SlotOwned, [Next]_vars PROVE SlotOwned'
    OBVIOUS
<1>a. pc \in [Calls -> Steps] /\ \A c \in Calls : c # NoCall
    BY NoCallAssumption DEF LockedInv, TypeOK
<1>b. LockDiscipline /\ StepFitsRequest
    BY DEF LockedInv
(* Steps beside the lock: the slot stays, and a call inside stays inside.  *)
<1>1. ASSUME NEW c \in Calls, NEW s, Go(c, s), UNCHANGED muVars,
             pc[c] \in WriteSteps => s \in WriteSteps,
             pc[c] # "draining"
      PROVE  SlotOwned'
    BY <1>1, <1>a DEF SlotOwned, Go, muVars
<1>2. ASSUME NEW c \in Calls,
             \/ Invoke(c) \/ Return(c) \/ RejectInput(c) \/ ReadNode(c)
             \/ SeedRead(c) \/ SeedFails(c) \/ CompareStored(c) \/ CompareFails(c)
             \/ ReadBack(c) \/ ReadBackFails(c)
      PROVE  SlotOwned'
  <2>1. \E s : /\ Go(c, s) /\ pc[c] # "draining"
               /\ pc[c] \in WriteSteps => s \in WriteSteps
    BY <1>2, <1>a
    DEF Invoke, Return, RejectInput, ReadNode, SeedRead, SeedFails, CompareStored,
        CompareFails, ReadBack, ReadBackFails, GiveUp, WriteSteps
  <2>2. UNCHANGED muVars
    BY <1>2
    DEF Invoke, Return, RejectInput, ReadNode, SeedRead, SeedFails, CompareStored,
        CompareFails, ReadBack, ReadBackFails, GiveUp
  <2> QED
    BY <2>1, <2>2, <1>1
<1>3. ASSUME NEW c \in Calls, CreateNode(c) \/ DeleteNode(c) \/ EditNode(c)
      PROVE  SlotOwned'
  <2>1. \E s \in {"readback", "unlock"} : Go(c, s)
    BY <1>3 DEF CreateNode, DeleteNode, EditNode, Send
  <2>2. UNCHANGED muVars /\ pc[c] # "draining"
    BY <1>3 DEF CreateNode, DeleteNode, EditNode
  <2> QED
    BY <2>1, <2>2, <1>1 DEF WriteSteps
<1>4. ASSUME NEW c \in Calls, LockWrites(c) PROVE SlotOwned'
    BY <1>4, <1>a DEF LockWrites, LockClaim, SlotOwned, Go
<1>5. ASSUME NEW c \in Calls, EnterWrite(c) PROVE SlotOwned'
  <2>1. FirstStep(req[c].op) \in WriteSteps
    BY <1>5, <1>b
    DEF EnterWrite, FirstStep, StepFitsRequest, WriteOps, PatchOps, WriteSteps
  <2>2. writer' = writer
    BY <1>5 DEF EnterWrite, LockEnter
  <2> QED
    BY <1>5, <2>1, <2>2, <1>a DEF EnterWrite, SlotOwned, Go
<1>6. ASSUME NEW c \in Calls, UnlockWrite(c) PROVE SlotOwned'
    BY <1>6, <1>a DEF UnlockWrite, Unlock, SlotOwned
<1>7. ASSUME NEW c \in Calls, RLockReads(c) \/ UnlockRead(c) PROVE SlotOwned'
    BY <1>7, <1>a DEF RLockReads, UnlockRead, RLock, RUnlock, SlotOwned, Go, WriteSteps
<1>8. ASSUME NEW w \in late, Land(w) PROVE SlotOwned'
    BY <1>8 DEF Land, SlotOwned, muVars
<1>9. ASSUME UNCHANGED vars PROVE SlotOwned'
    BY <1>9 DEF vars, SlotOwned, muVars
<1> QED
    BY <1>2, <1>3, <1>4, <1>5, <1>6, <1>7, <1>8, <1>9 DEF Next, Step

(* A call that holds the lock does not wait, and whoever waits, waits for  *)
(* such a call or for a writer that may enter.                             *)
LEMMA HoldersGo == LockedInv /\ SlotOwned => NobodyStuck
<1> SUFFICES ASSUME LockedInv, SlotOwned PROVE NobodyStuck
    OBVIOUS
<1>a. MuInv /\ LockDiscipline
    BY DEF LockedInv, LockDiscipline
<1>1. ASSUME NEW c \in Calls, HoldsWrite(c) \/ HoldsRead(c) PROVE ~Waits(c)
  <2>1. CASE HoldsWrite(c)
    BY <2>1, <1>a DEF LockDiscipline, Waits, WriteSteps
  <2>2. CASE HoldsRead(c)
    BY <2>2, <1>a DEF LockDiscipline, Waits, HoldsRead
  <2> QED
    BY <1>1, <2>1, <2>2
<1>2. ASSUME NEW c \in Calls, Waits(c)
      PROVE  \E d \in Calls :
                ~Waits(d) /\ (HoldsWrite(d) \/ HoldsRead(d) \/ pc[d] = "draining")
  <2>1. writer # NoCall \/ readers # {}
    BY <1>2, <1>a DEF Waits, LockDiscipline, MuInv
  <2>2. PICK d \in Calls : \/ HoldsWrite(d)
                           \/ HoldsRead(d)
                           \/ writer = d /\ ~entered /\ readers = {}
    BY <2>1, <1>a, LockNeverIdles
  <2>3. CASE HoldsWrite(d) \/ HoldsRead(d)
    BY <2>3, <1>1
  <2>4. CASE writer = d /\ ~entered /\ readers = {}
    <3>1. pc[d] = "draining"
      BY <2>4, <1>a DEF SlotOwned, LockDiscipline, HoldsWrite
    <3> QED
      BY <2>4, <3>1 DEF Waits
  <2> QED
    BY <2>2, <2>3, <2>4
<1>3. ASSUME NEW c \in Calls
      PROVE  /\ pc[c] = "draining" /\ ~Waits(c) => writer = c /\ ~entered /\ readers = {}
             /\ pc[c] = "unlock" => HoldsWrite(c)
             /\ pc[c] = "runlock" => HoldsRead(c)
    BY <1>a DEF LockDiscipline, Waits, WriteSteps, HoldsRead
<1> QED
    BY <1>1, <1>2, <1>3 DEF NobodyStuck

(* NobodyStuck: no two calls wait for each other, no handler waits for a   *)
(* lock its own caller holds, and none gives back a lock it does not hold, *)
(* which would end the process (the deferred unlocks of tools.go:61-87).   *)
THEOREM NobodyIsStuck == Spec => []NobodyStuck
<1>1. LockedInv /\ [Next]_vars => LockedInv'
    BY LockedNext
<1>2. LockedInv /\ SlotOwned /\ [Next]_vars => SlotOwned'
    BY SlotNext
<1> QED
    BY <1>1, <1>2, LockedInit, SlotInit, HoldersGo, PTL DEF Spec
(* How much of a call is left at each of its steps.                        *)
Left(step) ==
    CASE step = "idle" -> 0
      [] step = "answered" -> 1
      [] step \in {"unlock", "runlock"} -> 2
      [] step \in {"readback", "delete", "reading"} -> 3
      [] step \in {"edit", "create"} -> 4
      [] step = "compare" -> 5
      [] step = "seed" -> 6
      [] step = "draining" -> 7
      [] step = "start" -> 8

CallsRunDown ==
    [][\A c \in Calls :
        /\ Step(c) => Left(pc'[c]) < Left(pc[c])
        /\ pc[c] # "idle" => Left(pc'[c]) <= Left(pc[c])]_vars

LEMMA GoesDown ==
    ASSUME LockedInv, NEW c \in Calls, NEW s, Go(c, s), Left(s) < Left(pc[c])
    PROVE  /\ Left(pc'[c]) < Left(pc[c])
           /\ \A d \in Calls \ {c} : pc'[d] = pc[d]
BY DEF LockedInv, TypeOK, Go

(* Whatever it is answered, a call's step takes it on.                     *)
LEMMA StepGoesDown ==
    ASSUME LockedInv, NEW c \in Calls, Step(c)
    PROVE  \E s : Go(c, s) /\ Left(s) < Left(pc[c])
<1>1. CASE RejectInput(c) \/ LockWrites(c) \/ RLockReads(c)
    BY <1>1 DEF RejectInput, LockWrites, RLockReads, Left
<1>2. CASE EnterWrite(c)
  <2>1. FirstStep(req[c].op) \in {"seed", "create", "delete"}
    BY <1>2 DEF EnterWrite, FirstStep, LockedInv, StepFitsRequest, WriteOps, PatchOps
  <2> QED
    BY <1>2, <2>1 DEF EnterWrite, Left
<1>3. CASE UnlockWrite(c) \/ UnlockRead(c) \/ ReadNode(c)
    BY <1>3 DEF UnlockWrite, UnlockRead, ReadNode, Left
<1>4. CASE CreateNode(c) \/ EditNode(c)
  <2>1. Go(c, "readback") \/ Go(c, "unlock")
    BY <1>4 DEF CreateNode, EditNode, Send
  <2> QED
    BY <1>4, <2>1 DEF CreateNode, EditNode, Left
<1>5. CASE DeleteNode(c)
  <2>1. Go(c, "unlock")
    BY <1>5 DEF DeleteNode, Send
  <2> QED
    BY <1>5, <2>1 DEF DeleteNode, Left
<1>6. CASE SeedRead(c) \/ CompareStored(c)
    BY <1>6 DEF SeedRead, CompareStored, Left
<1>7. CASE SeedFails(c) \/ CompareFails(c) \/ ReadBackFails(c) \/ ReadBack(c)
    BY <1>7 DEF SeedFails, CompareFails, ReadBackFails, ReadBack, GiveUp, Left
<1> QED
    BY <1>1, <1>2, <1>3, <1>4, <1>5, <1>6, <1>7 DEF Step

(* CallsRunDown: every step of a handler takes its call on, and nothing    *)
(* another call or the device does takes it back, so that a call is over   *)
(* after eight steps of its own, each a request to the device or the lock  *)
(* (the *Core functions of tools.go retry nothing).                        *)
THEOREM CallsAreShort == Spec => CallsRunDown
<1>1. ASSUME LockedInv, [Next]_vars
      PROVE  \A c \in Calls :
                /\ Step(c) => Left(pc'[c]) < Left(pc[c])
                /\ pc[c] # "idle" => Left(pc'[c]) <= Left(pc[c])
  <2>a. pc \in [Calls -> Steps] /\ \A s \in Steps : Left(s) \in Int
    BY <1>1 DEF LockedInv, TypeOK, Steps, Left
  <2>1. ASSUME NEW c \in Calls, Step(c) PROVE Left(pc'[c]) < Left(pc[c])
    BY <1>1, <2>1, StepGoesDown, GoesDown
  <2>2. ASSUME NEW c \in Calls, pc[c] # "idle" PROVE Left(pc'[c]) <= Left(pc[c])
    <3>1. CASE pc'[c] = pc[c]
      BY <3>1, <2>a
    <3>2. CASE Step(c)
      <4>1. PICK s : Go(c, s) /\ Left(s) < Left(pc[c])
        BY <3>2, <1>1, StepGoesDown
      <4>2. pc'[c] = s /\ pc'[c] \in Steps
        BY <4>1, <2>a, <1>1, LockedNext DEF Go, LockedInv, TypeOK
      <4>3. Left(s) \in Int /\ Left(pc[c]) \in Int
        BY <4>2, <2>a
      <4> QED
        BY <4>1, <4>2, <4>3
    <3>3. CASE Return(c)
      <4>1. pc[c] = "answered" /\ pc'[c] = "idle"
        BY <3>3, <2>a DEF Return, Go
      <4> QED
        BY <4>1 DEF Left
    <3>4. ASSUME NEW d \in Calls, d # c, Invoke(d) \/ Step(d) \/ Return(d)
          PROVE  pc'[c] = pc[c]
      <4>1. \E s : Go(d, s)
        BY <3>4, <1>1, StepGoesDown DEF Invoke, Return
      <4> QED
        BY <4>1, <3>4, <2>a DEF Go
    <3>5. ASSUME (\E w \in late : Land(w)) \/ UNCHANGED vars PROVE pc'[c] = pc[c]
      BY <3>5 DEF Land, vars
    <3>6. ~Invoke(c)
      BY <2>2 DEF Invoke
    <3> QED
      BY <1>1, <3>1, <3>2, <3>3, <3>4, <3>5, <3>6 DEF Next
  <2> QED
    BY <2>1, <2>2
<1>2. LockedInv /\ [Next]_vars => LockedInv'
    BY LockedNext
<1> QED
    BY <1>1, <1>2, LockedInit, PTL DEF Spec, CallsRunDown
=============================================================================
