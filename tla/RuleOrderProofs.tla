--------------------------- MODULE RuleOrderProofs ---------------------------
(***************************************************************************)
(* Theorems about RuleOrder, for every set of calls and rules: the lock    *)
(* discipline, and what it gives the two-step placement, that a plan is    *)
(* still about the rulebase when the move is sent and that no list shows   *)
(* a rule waiting for its move.                                            *)
(*                                                                         *)
(* What a move makes of the rulebase is in the lemmas on Without, Moved    *)
(* and Created; OrderInv carries it from the plan to the answer.  Last,    *)
(* that the handlers implement RuleStore.                                  *)
(***************************************************************************)
EXTENDS RuleHistory, WriteMuProofs, SequenceTheorems

(* Of the types, those that the lock discipline depends on.                *)
CallTypes ==
    /\ MuTypeOK
    /\ pc \in [Calls -> Steps]
    /\ req \in [Calls -> Requests \cup {NoRequest}]
    /\ listed = [c \in Calls |-> listed[c]]
    /\ ans \in [Calls -> Answers]

StepFits ==
    \A c \in Calls :
        pc[c] \in {"draining"} \cup WriteSteps => req[c].op \in {"create", "move", "delete"}

LockedInv == CallTypes /\ LockDiscipline /\ StepFits

(* The handlers start with the lock free and every call idle.              *)
LEMMA LockedInit == Init => LockedInv
<1> SUFFICES ASSUME Init PROVE LockedInv
    OBVIOUS
<1>1. MuInv
    BY MuInitInv DEF Init
<1>2. CallTypes
    BY <1>1 DEF Init, CallTypes, MuInv, Steps, Answers
<1>3. LockDiscipline
    BY <1>1, NoCallAssumption DEF Init, LockDiscipline, MuInit, HoldsWrite, WriteSteps
<1>4. StepFits
    BY DEF Init, StepFits, WriteSteps
<1> QED
    BY <1>2, <1>3, <1>4 DEF LockedInv

(* At most one call is inside a write handler, and then no reader is.      *)
LEMMA OneInside ==
    ASSUME LockedInv, NEW c \in Calls, NEW d \in Calls,
           pc[c] \in WriteSteps, pc[d] \in WriteSteps
    PROVE  c = d /\ readers = {}
BY DEF LockedInv, LockDiscipline, HoldsWrite, MuInv

(* A step inside the write lock leaves the lock as it was.                 *)
LEMMA InsideWrite ==
    ASSUME LockedInv, NEW c \in Calls, NEW s \in WriteSteps,
           pc[c] \in WriteSteps, Go(c, s), UNCHANGED <<muVars, req>>,
           ans' \in [Calls -> Answers],
           UNCHANGED listed \/ listed' = [listed EXCEPT ![c] = rules]
    PROVE  LockedInv'
<1>1. MuInv'
    BY MuStutter DEF LockedInv, LockDiscipline
<1>2. pc \in [Calls -> Steps] /\ pc' \in [Calls -> Steps]
    BY DEF LockedInv, CallTypes, Go, Steps, WriteSteps
<1>3. LockDiscipline'
    BY <1>1, <1>2 DEF LockedInv, LockDiscipline, Go, muVars, WriteSteps, HoldsWrite
<1>4. listed' = [d \in Calls |-> listed'[d]]
    BY DEF LockedInv, CallTypes
<1>5. CallTypes'
    BY <1>1, <1>2, <1>4 DEF LockedInv, CallTypes, MuInv
<1>6. StepFits'
    BY <1>2 DEF LockedInv, StepFits, Go
<1> QED
    BY <1>3, <1>5, <1>6 DEF LockedInv

(* The answers of a step inside the lock.                                  *)
LEMMA SendStep ==
    ASSUME LockedInv, NEW c \in Calls, NEW s, NEW next \in {"readback", "unlock"},
           NEW error \in {"error", "positioning failed"}, Send(c, s, next, error)
    PROVE  /\ Go(c, next) \/ Go(c, "unlock")
           /\ UNCHANGED <<muVars, req, listed>>
           /\ ans' \in [Calls -> Answers]
BY DEF Send, Answer, LockedInv, CallTypes, Answers

LEMMA LockedNext == LockedInv /\ [Next]_vars => LockedInv'
<1> SUFFICES ASSUME LockedInv, [Next]_vars PROVE LockedInv'
    OBVIOUS
<1> USE DEF LockedInv
<1>a. MuInv /\ MuTypeOK
    BY DEF LockDiscipline, CallTypes
<1>b. /\ pc \in [Calls -> Steps] /\ req \in [Calls -> Requests \cup {NoRequest}]
      /\ \A c \in Calls : c # NoCall
    BY NoCallAssumption DEF CallTypes
<1>1. ASSUME NEW c \in Calls, Invoke(c) \/ Return(c) \/ RejectPlace(c) PROVE LockedInv'
  <2>1. /\ UNCHANGED muVars
        /\ pc[c] \in {"idle", "answered", "start"}
        /\ \E s \in {"idle", "answered", "start"} : Go(c, s)
    BY <1>1 DEF Invoke, Return, RejectPlace
  <2>2. CallTypes'
    BY <1>1, <1>a
    DEF Invoke, Return, RejectPlace, CallTypes, Go, Answer, Steps, muVars, MuTypeOK, Answers
  <2>3. LockDiscipline'
    BY <2>1, <1>a, <1>b, MuStutter DEF LockDiscipline, Go, WriteSteps, HoldsWrite, muVars
  <2>4. StepFits'
    BY <1>1, <2>1, <1>b DEF Invoke, Return, RejectPlace, StepFits, Go, WriteSteps
  <2> QED
    BY <2>2, <2>3, <2>4
<1>2. ASSUME NEW c \in Calls, LockWrites(c) PROVE LockedInv'
  <2>1. CallTypes'
    BY <1>2, <1>a, LockClaimInv DEF LockWrites, CallTypes, Go, Steps, MuInv
  <2>2. LockDiscipline'
    BY <1>2, <1>a, <1>b, LockClaimInv
    DEF LockWrites, LockClaim, LockDiscipline, Go, WriteSteps, HoldsWrite
  <2>3. StepFits'
    BY <1>2, <1>b DEF LockWrites, StepFits, Go, WriteSteps
  <2> QED
    BY <2>1, <2>2, <2>3
<1>3. ASSUME NEW c \in Calls, EnterWrite(c) PROVE LockedInv'
  <2>1. /\ LockEnter(c) /\ pc[c] = "draining" /\ UNCHANGED <<rules, req, listed, ans>>
        /\ \E s \in {"create", "check", "delete"} : Go(c, s)
    BY <1>3 DEF EnterWrite, StepFits
  <2>2. CallTypes'
    BY <2>1, <1>a, LockEnterInv DEF CallTypes, Go, Steps, MuInv
  <2>3. LockDiscipline'
    BY <2>1, <1>a, <1>b, LockEnterInv
    DEF LockEnter, LockDiscipline, Go, WriteSteps, HoldsWrite
  <2>4. StepFits'
    BY <2>1, <1>b DEF StepFits, Go, WriteSteps
  <2> QED
    BY <2>2, <2>3, <2>4
<1>4. ASSUME NEW c \in Calls, UnlockWrite(c) PROVE LockedInv'
  <2>1. CallTypes'
    BY <1>4, <1>a, UnlockInv DEF UnlockWrite, CallTypes, Go, Steps, MuInv
  <2>2. LockDiscipline'
    BY <1>4, <1>a, <1>b, UnlockInv
    DEF UnlockWrite, Unlock, LockDiscipline, Go, WriteSteps, HoldsWrite, MuInv
  <2>3. StepFits'
    BY <1>4, <1>b DEF UnlockWrite, StepFits, Go, WriteSteps
  <2> QED
    BY <2>1, <2>2, <2>3
<1>5. ASSUME NEW c \in Calls, RLockReads(c) PROVE LockedInv'
  <2>0. c \notin readers
    BY <1>5 DEF RLockReads, LockDiscipline
  <2>1. CallTypes'
    BY <1>5, <2>0, <1>a, RLockInv DEF RLockReads, CallTypes, Go, Steps, MuInv
  <2>2. LockDiscipline'
    BY <1>5, <2>0, <1>a, <1>b, RLockInv
    DEF RLockReads, LockDiscipline, Go, WriteSteps, HoldsWrite
  <2>3. StepFits'
    BY <1>5, <1>b DEF RLockReads, StepFits, Go, WriteSteps
  <2> QED
    BY <2>1, <2>2, <2>3
<1>6. ASSUME NEW c \in Calls, UnlockRead(c) PROVE LockedInv'
  <2>1. CallTypes'
    BY <1>6, <1>a, RUnlockInv DEF UnlockRead, CallTypes, Go, Steps, MuInv
  <2>2. LockDiscipline'
    BY <1>6, <1>a, <1>b, RUnlockInv
    DEF UnlockRead, LockDiscipline, Go, WriteSteps, HoldsWrite, MuInv
  <2>3. StepFits'
    BY <1>6, <1>b DEF UnlockRead, StepFits, Go, WriteSteps
  <2> QED
    BY <2>1, <2>2, <2>3
<1>7. ASSUME NEW c \in Calls, ListRules(c) PROVE LockedInv'
  <2>1. /\ UNCHANGED muVars /\ Go(c, "runlock") /\ pc[c] = "reading" /\ c \in readers
    BY <1>7 DEF ListRules, HoldsRead
  <2>2. CallTypes'
    BY <1>7, <1>a DEF ListRules, CallTypes, Go, Answer, Steps, muVars, MuTypeOK, Answers
  <2>3. LockDiscipline'
    BY <2>1, <1>a, <1>b, MuStutter DEF LockDiscipline, Go, WriteSteps, HoldsWrite, muVars
  <2>4. StepFits'
    BY <1>7, <1>b DEF ListRules, StepFits, Go, WriteSteps
  <2> QED
    BY <2>2, <2>3, <2>4
<1>8. ASSUME NEW c \in Calls, CreateRule(c) \/ MoveRule(c) \/ DeleteRule(c) PROVE LockedInv'
  <2>1. PICK next \in {"readback", "unlock"}, error \in {"error", "positioning failed"} :
            (\E s : Send(c, s, next, error)) /\ pc[c] \in WriteSteps
    BY <1>8 DEF CreateRule, MoveRule, DeleteRule, MoveError, WriteSteps
  <2>2. PICK s : Send(c, s, next, error)
    BY <2>1
  <2> QED
    BY <2>1, <2>2, SendStep, InsideWrite DEF WriteSteps
<1>9. ASSUME NEW c \in Calls, ReadBack(c) \/ CheckRule(c) \/ PlanMove(c) PROVE LockedInv'
  <2>1. /\ pc[c] \in WriteSteps /\ UNCHANGED <<muVars, req>>
        /\ \E s \in WriteSteps : Go(c, s)
    BY <1>9 DEF ReadBack, CheckRule, PlanMove, WriteSteps
  <2>2. ans' \in [Calls -> Answers]
    BY <1>9 DEF ReadBack, CheckRule, PlanMove, Answer, Answers, MoveError, CallTypes
  <2>3. UNCHANGED listed \/ listed' = [listed EXCEPT ![c] = rules]
    BY <1>9 DEF ReadBack, CheckRule, PlanMove
  <2> QED
    BY <2>1, <2>2, <2>3, InsideWrite
<1>10. CASE UNCHANGED vars
  BY <1>10, <1>a, MuStutter
  DEF vars, muVars, CallTypes, MuTypeOK, LockDiscipline, StepFits, HoldsWrite
<1> QED
  BY <1>1, <1>2, <1>3, <1>4, <1>5, <1>6, <1>7, <1>8, <1>9, <1>10 DEF Next, Step

(* LockedInv: the lock discipline, with each call at a step that fits its  *)
(* tool (ruleCreateHandler, moveHandler).                                  *)
THEOREM LockedHolds == Spec => []LockedInv
BY LockedInit, LockedNext, PTL DEF Spec

(* LockDiscipline: the write lock spans a create and its move, and no list *)
(* is inside meanwhile (ruleCreateHandler, moveHandler).                   *)
THEOREM LockDisciplineHolds == Spec => []LockDiscipline
<1>1. LockedInv => LockDiscipline
    BY DEF LockedInv
<1> QED
    BY <1>1, LockedHolds, PTL

-----------------------------------------------------------------------------
(* The rulebase changes only in a step of the call inside.                 *)
LEMMA RulesChange ==
    ASSUME LockedInv, NEW c \in Calls, Invoke(c) \/ Step(c) \/ Return(c),
           pc[c] \notin WriteSteps
    PROVE  rules' = rules
BY DEF Invoke, Step, Return, RejectPlace, LockWrites, EnterWrite, UnlockWrite, RLockReads,
       ListRules, UnlockRead, CreateRule, ReadBack, CheckRule, PlanMove, MoveRule,
       DeleteRule, WriteSteps

(* Nobody's step touches another call's part of the state.                 *)
LEMMA OwnPart ==
    ASSUME LockedInv, NEW c \in Calls, Invoke(c) \/ Step(c) \/ Return(c),
           NEW d \in Calls, d # c
    PROVE  UNCHANGED <<pc[d], req[d], listed[d], ans[d]>>
<1>1. /\ pc \in [Calls -> Steps] /\ req \in [Calls -> Requests \cup {NoRequest}]
      /\ ans \in [Calls -> Answers] /\ listed = [e \in Calls |-> listed[e]]
    BY DEF LockedInv, CallTypes
<1>2. \/ pc' = pc \/ \E s : Go(c, s)
    BY DEF Invoke, Step, Return, RejectPlace, LockWrites, EnterWrite, UnlockWrite,
           RLockReads, ListRules, UnlockRead, CreateRule, ReadBack, CheckRule, PlanMove,
           MoveRule, DeleteRule, Send
<1>3. \/ UNCHANGED req \/ \E r : req' = [req EXCEPT ![c] = r]
    BY DEF Invoke, Step, Return, RejectPlace, LockWrites, EnterWrite, UnlockWrite,
           RLockReads, ListRules, UnlockRead, CreateRule, ReadBack, CheckRule, PlanMove,
           MoveRule, DeleteRule, Send
<1>4. \/ UNCHANGED listed \/ \E s : listed' = [listed EXCEPT ![c] = s]
    BY DEF Invoke, Step, Return, RejectPlace, LockWrites, EnterWrite, UnlockWrite,
           RLockReads, ListRules, UnlockRead, CreateRule, ReadBack, CheckRule, PlanMove,
           MoveRule, DeleteRule, Send
<1>5. \/ UNCHANGED ans \/ \E a : Answer(c, a)
    BY DEF Invoke, Step, Return, RejectPlace, LockWrites, EnterWrite, UnlockWrite,
           RLockReads, ListRules, UnlockRead, CreateRule, ReadBack, CheckRule, PlanMove,
           MoveRule, DeleteRule, Send, Answer
<1> QED
    BY <1>1, <1>2, <1>3, <1>4, <1>5 DEF Go, Answer

(* A call comes to its move only from a plan that found rule and pivot in  *)
(* the rulebase it listed.                                                 *)
LEMMA PlansThenMoves ==
    ASSUME LockedInv, NEW c \in Calls, Invoke(c) \/ Step(c) \/ Return(c), pc'[c] = "move"
    PROVE  /\ listed'[c] = rules /\ rules' = rules
           /\ Holds(rules, req'[c].rule)
           /\ req'[c].place.pivot # NoRule => Holds(rules, req'[c].place.pivot)
<1>1. pc \in [Calls -> Steps] /\ listed = [e \in Calls |-> listed[e]]
    BY DEF LockedInv, CallTypes
<1>2. PlanMove(c)
    <2>1. ASSUME EnterWrite(c) PROVE FALSE
        BY <1>1, <2>1 DEF EnterWrite, Go, LockedInv, StepFits
    <2> QED
        BY <1>1, <2>1
        DEF Invoke, Step, Return, RejectPlace, LockWrites, UnlockWrite, RLockReads,
            ListRules, UnlockRead, CreateRule, ReadBack, CheckRule, MoveRule, DeleteRule,
            Send, Go
<1> QED
    BY <1>1, <1>2 DEF PlanMove, Movable, Go

(* A list comes to its unlock with the rulebase as it is.                  *)
LEMMA ListsThenUnlocks ==
    ASSUME LockedInv, NEW c \in Calls, Invoke(c) \/ Step(c) \/ Return(c),
           pc'[c] = "runlock", ans'[c] = "ok"
    PROVE  listed'[c] = rules /\ rules' = rules
<1>1. /\ pc \in [Calls -> Steps] /\ listed = [e \in Calls |-> listed[e]]
      /\ ans \in [Calls -> Answers]
    BY DEF LockedInv, CallTypes
<1>2. ListRules(c)
    <2>1. ASSUME EnterWrite(c) PROVE FALSE
        BY <1>1, <2>1 DEF EnterWrite, Go, LockedInv, StepFits
    <2> QED
        BY <1>1, <2>1
        DEF Invoke, Step, Return, RejectPlace, LockWrites, UnlockWrite, RLockReads,
            UnlockRead, CreateRule, ReadBack, CheckRule, PlanMove, MoveRule, DeleteRule,
            Send, Go
<1> QED
    BY <1>1, <1>2 DEF ListRules, Answer

ListsShowRules ==
    \A c \in Calls : pc[c] = "runlock" /\ ans[c] = "ok" => listed[c] = rules

FreshInv == LockedInv /\ PlanFresh /\ ListsShowRules

LEMMA FreshInit == Init => FreshInv
BY LockedInit DEF Init, FreshInv, PlanFresh, ListsShowRules

LEMMA FreshNext == FreshInv /\ [Next]_vars => FreshInv'
<1> SUFFICES ASSUME FreshInv, [Next]_vars PROVE FreshInv'
    OBVIOUS
<1>1. LockedInv /\ LockedInv'
    BY LockedNext DEF FreshInv
<1>2. CASE UNCHANGED vars
    BY <1>1, <1>2 DEF vars, FreshInv, PlanFresh, ListsShowRules
<1>3. ASSUME NEW c \in Calls, Invoke(c) \/ Step(c) \/ Return(c)
      PROVE  FreshInv'
    <2>1. ASSUME NEW d \in Calls, d # c,
                 pc[d] = "move" \/ (pc[d] = "runlock" /\ d \in readers)
          PROVE  rules' = rules
        <3>1. pc[c] \notin WriteSteps
            BY <1>1, <2>1, OneInside DEF WriteSteps
        <3> QED
            BY <1>1, <1>3, <3>1, RulesChange
    <2>2. PlanFresh'
        <3> SUFFICES ASSUME NEW d \in Calls, pc'[d] = "move"
                     PROVE  /\ listed'[d] = rules'
                            /\ Holds(rules', req'[d].rule)
                            /\ req'[d].place.pivot # NoRule =>
                                Holds(rules', req'[d].place.pivot)
            BY DEF PlanFresh, Holds
        <3>1. CASE d = c
            BY <1>1, <1>3, <3>1, PlansThenMoves
        <3>2. CASE d # c
            BY <1>1, <1>3, <2>1, <3>2, OwnPart DEF FreshInv, PlanFresh
        <3> QED
            BY <3>1, <3>2
    <2>3. ListsShowRules'
        <3> SUFFICES ASSUME NEW d \in Calls, pc'[d] = "runlock", ans'[d] = "ok"
                     PROVE  listed'[d] = rules'
            BY DEF ListsShowRules
        <3>1. CASE d = c
            BY <1>1, <1>3, <3>1, ListsThenUnlocks
        <3>2. CASE d # c
            <4>1. pc[d] = "runlock" /\ ans[d] = "ok" /\ listed'[d] = listed[d]
                BY <1>1, <1>3, <3>2, OwnPart
            <4>2. d \in readers
                BY <1>1, <4>1 DEF LockedInv, LockDiscipline
            <4> QED
                BY <2>1, <3>2, <4>1, <4>2 DEF FreshInv, ListsShowRules
        <3> QED
            BY <3>1, <3>2
    <2> QED
        BY <1>1, <2>2, <2>3 DEF FreshInv
<1> QED
    BY <1>2, <1>3 DEF Next

(* PlanFresh: what MoveGroup planned from is still the rulebase when its   *)
(* move is sent, so its pivot is there.                                    *)
THEOREM PlansStayFresh == Spec => []PlanFresh
<1>1. FreshInv => PlanFresh
    BY DEF FreshInv
<1> QED
    BY <1>1, FreshInit, FreshNext, PTL DEF Spec

(* NoHalfPlacedRead: a list answers with the rulebase as it still is, and  *)
(* no rule in it waits for its move (tools.go:28-30).                      *)
THEOREM NoReadIsHalfPlaced == Spec => []NoHalfPlacedRead
<1>1. FreshInv => NoHalfPlacedRead
    <2> SUFFICES ASSUME FreshInv, NEW c \in Calls, pc[c] = "runlock", ans[c] = "ok"
                 PROVE  /\ listed[c] = rules
                        /\ \A d \in Calls : pc[d] \notin {"readback", "plan", "move"}
        BY DEF NoHalfPlacedRead
    <2>1. c \in readers
        BY DEF FreshInv, LockedInv, LockDiscipline
    <2>2. \A d \in Calls : pc[d] \notin WriteSteps
        BY <2>1, OneInside DEF FreshInv
    <2> QED
        BY <2>2 DEF FreshInv, ListsShowRules, WriteSteps
<1> QED
    BY <1>1, FreshInit, FreshNext, PTL DEF Spec
-----------------------------------------------------------------------------
(* The rulebase as data.                                                   *)

(* A sequence without its k-th element, and one with an element more.      *)
LEMMA RemoveAtIs ==
    ASSUME NEW s \in Seq(Rules), NEW k \in 1 .. Len(s)
    PROVE  /\ RemoveAt(s, k) \in Seq(Rules) /\ Len(RemoveAt(s, k)) = Len(s) - 1
           /\ \A i \in 1 .. Len(s) - 1 :
                RemoveAt(s, k)[i] = IF i < k THEN s[i] ELSE s[i + 1]
<1> DEFINE a == SubSeq(s, 1, k - 1)
           b == SubSeq(s, k + 1, Len(s))
           n == Len(s)
<1>1. n \in Nat /\ \A i \in 1 .. n : s[i] \in Rules
  BY LenProperties, ElementOfSeq
<1>2. a \in Seq(Rules) /\ Len(a) = k - 1 /\ \A i \in 1 .. k - 1 : a[i] = s[i]
  <2>1. \A i \in 1 .. k - 1 : s[i] \in Rules
    BY <1>1
  <2>2. /\ a \in Seq(Rules) /\ Len(a) = IF 1 <= k - 1 THEN k - 1 - 1 + 1 ELSE 0
        /\ \A i \in 1 .. k - 1 - 1 + 1 : a[i] = s[1 + i - 1]
    BY <2>1, SubSeqProperties
  <2> HIDE DEF a
  <2> QED
    BY <2>2
<1>3. b \in Seq(Rules) /\ Len(b) = n - k /\ \A i \in 1 .. n - k : b[i] = s[k + i]
  <2>1. \A i \in k + 1 .. n : s[i] \in Rules
    BY <1>1
  <2>2. /\ b \in Seq(Rules) /\ Len(b) = IF k + 1 <= n THEN n - (k + 1) + 1 ELSE 0
        /\ \A i \in 1 .. n - (k + 1) + 1 : b[i] = s[(k + 1) + i - 1]
    BY <1>1, <2>1, SubSeqProperties
  <2> HIDE DEF b, n
  <2> QED
    BY <1>1, <2>2 DEF n
<1> HIDE DEF a, b
<1>4. /\ a \o b \in Seq(Rules) /\ Len(a \o b) = Len(a) + Len(b)
      /\ \A i \in 1 .. Len(a) + Len(b) :
            (a \o b)[i] = IF i <= Len(a) THEN a[i] ELSE b[i - Len(a)]
  BY <1>2, <1>3, ConcatProperties
<1>5. RemoveAt(s, k) = a \o b
  BY DEF RemoveAt, a, b
<1> DEFINE t == a \o b
<1> HIDE DEF t
<1>6. /\ t \in Seq(Rules) /\ Len(t) = Len(a) + Len(b)
      /\ \A i \in 1 .. Len(a) + Len(b) :
            t[i] = IF i <= Len(a) THEN a[i] ELSE b[i - Len(a)]
  BY <1>4 DEF t
<1>7. /\ t \in Seq(Rules) /\ Len(t) = n - 1
      /\ \A i \in 1 .. n - 1 : t[i] = IF i < k THEN s[i] ELSE s[i + 1]
  <2>1. Len(a) + Len(b) = n - 1
    BY <1>1, <1>2, <1>3
  <2>2. ASSUME NEW i \in 1 .. n - 1, i < k PROVE t[i] = s[i]
    BY <1>1, <1>2, <1>6, <2>1, <2>2
  <2>3. ASSUME NEW i \in 1 .. n - 1, i >= k PROVE t[i] = s[i + 1]
    <3>1. i - Len(a) \in 1 .. n - k /\ k + (i - Len(a)) = i + 1
      BY <1>1, <1>2, <2>3
    <3>2. b[i - Len(a)] = s[k + (i - Len(a))]
      BY <1>3, <3>1
    <3> QED
      BY <1>1, <1>2, <1>6, <2>1, <2>3, <3>1, <3>2
  <2> QED
    BY <1>1, <1>6, <2>1, <2>2, <2>3
<1> QED
  BY <1>5, <1>7 DEF t

LEMMA InsertAtIs ==
    ASSUME NEW s \in Seq(Rules), NEW r \in Rules, NEW k \in 1 .. Len(s) + 1
    PROVE  /\ InsertAt(s, k, r) \in Seq(Rules) /\ Len(InsertAt(s, k, r)) = Len(s) + 1
           /\ \A i \in 1 .. Len(s) + 1 : InsertAt(s, k, r)[i] =
                    IF i < k THEN s[i] ELSE IF i = k THEN r ELSE s[i - 1]
<1> DEFINE a == SubSeq(s, 1, k - 1)
           b == SubSeq(s, k, Len(s))
           n == Len(s)
           o == <<r>>
<1>1. n \in Nat /\ \A i \in 1 .. n : s[i] \in Rules
  BY LenProperties, ElementOfSeq
<1>2. a \in Seq(Rules) /\ Len(a) = k - 1 /\ \A i \in 1 .. k - 1 : a[i] = s[i]
  <2>1. \A i \in 1 .. k - 1 : s[i] \in Rules
    BY <1>1
  <2>2. /\ a \in Seq(Rules) /\ Len(a) = IF 1 <= k - 1 THEN k - 1 - 1 + 1 ELSE 0
        /\ \A i \in 1 .. k - 1 - 1 + 1 : a[i] = s[1 + i - 1]
    BY <1>1, <2>1, SubSeqProperties
  <2> HIDE DEF a
  <2> QED
    BY <1>1, <2>2
<1>3. b \in Seq(Rules) /\ Len(b) = n - k + 1 /\ \A i \in 1 .. n - k + 1 : b[i] = s[k + i - 1]
  <2>1. \A i \in k .. n : s[i] \in Rules
    BY <1>1
  <2>2. /\ b \in Seq(Rules) /\ Len(b) = IF k <= n THEN n - k + 1 ELSE 0
        /\ \A i \in 1 .. n - k + 1 : b[i] = s[k + i - 1]
    BY <1>1, <2>1, SubSeqProperties
  <2> HIDE DEF b, n
  <2> QED
    BY <1>1, <2>2 DEF n
<1>4. o \in Seq(Rules) /\ Len(o) = 1 /\ o[1] = r
  OBVIOUS
<1>5. InsertAt(s, k, r) = (a \o o) \o b
  BY DEF InsertAt
<1> HIDE DEF a, b, o
<1> DEFINE ao == a \o o
           t == ao \o b
<1>6. /\ ao \in Seq(Rules) /\ Len(ao) = Len(a) + Len(o)
      /\ \A i \in 1 .. Len(a) + Len(o) :
            ao[i] = IF i <= Len(a) THEN a[i] ELSE o[i - Len(a)]
  BY <1>2, <1>4, ConcatProperties
<1> HIDE DEF ao
<1>7. /\ t \in Seq(Rules) /\ Len(t) = Len(ao) + Len(b)
      /\ \A i \in 1 .. Len(ao) + Len(b) :
            t[i] = IF i <= Len(ao) THEN ao[i] ELSE b[i - Len(ao)]
  <2>1. ao \in Seq(Rules) /\ b \in Seq(Rules)
    BY <1>3, <1>6
  <2> QED
    BY <2>1, ConcatProperties
<1>8. Len(ao) = k /\ \A i \in 1 .. k : ao[i] = IF i < k THEN s[i] ELSE r
  BY <1>1, <1>2, <1>4, <1>6
<1> HIDE DEF t
<1>9. /\ t \in Seq(Rules) /\ Len(t) = n + 1
      /\ \A i \in 1 .. n + 1 :
            t[i] = IF i < k THEN s[i] ELSE IF i = k THEN r ELSE s[i - 1]
  <2>1. Len(ao) + Len(b) = n + 1
    BY <1>1, <1>3, <1>8
  <2>2. ASSUME NEW i \in 1 .. k PROVE t[i] = IF i < k THEN s[i] ELSE r
    BY <1>1, <1>7, <1>8, <2>1
  <2>3. ASSUME NEW i \in 1 .. n + 1, i > k PROVE t[i] = s[i - 1]
    <3>1. i - k \in 1 .. n - k + 1 /\ k + (i - k) - 1 = i - 1
      BY <1>1, <2>3
    <3>2. b[i - k] = s[k + (i - k) - 1]
      BY <1>3, <3>1
    <3> QED
      BY <1>1, <1>7, <1>8, <2>1, <2>3, <3>1, <3>2
  <2> QED
    BY <1>1, <1>7, <2>1, <2>2, <2>3
<1> QED
  BY <1>5, <1>9 DEF t, ao

(* A rulebase names every rule once, so that a rule has one place in it.   *)
LEMMA RulebaseFacts ==
    ASSUME NEW s \in Rulebases
    PROVE  /\ s \in Seq(Rules) /\ Len(s) \in Nat /\ DOMAIN s = 1 .. Len(s)
           /\ \A i \in 1 .. Len(s) : s[i] \in Rules
           /\ \A i, j \in 1 .. Len(s) : s[i] = s[j] => i = j
BY LenProperties, ElementOfSeq DEF Rulebases

LEMMA IndexIs ==
    ASSUME NEW s \in Rulebases, NEW i \in 1 .. Len(s)
    PROVE  IndexOf(s, s[i]) = i
BY RulebaseFacts DEF IndexOf

LEMMA IndexHolds ==
    ASSUME NEW s \in Rulebases, NEW r, Holds(s, r)
    PROVE  IndexOf(s, r) \in 1 .. Len(s) /\ s[IndexOf(s, r)] = r
BY RulebaseFacts DEF IndexOf, Holds

(* Taking a rule out leaves the others in their order.                     *)
LEMMA WithoutIs ==
    ASSUME NEW s \in Rulebases, NEW r
    PROVE  /\ Without(s, r) \in Rulebases
           /\ ~Holds(Without(s, r), r)
           /\ \A x : x # r => (Holds(Without(s, r), x) <=> Holds(s, x))
<1>1. CASE ~Holds(s, r)
  BY <1>1 DEF Without
<1>2. CASE Holds(s, r)
  <2> DEFINE k == IndexOf(s, r)
             t == RemoveAt(s, k)
  <2>1. k \in 1 .. Len(s) /\ s[k] = r
    BY <1>2, IndexHolds
  <2>2. Without(s, r) = t
    BY <1>2 DEF Without
  <2> HIDE DEF k
  <2>3. /\ s \in Seq(Rules) /\ Len(s) \in Nat /\ DOMAIN s = 1 .. Len(s)
        /\ \A i \in 1 .. Len(s) : s[i] \in Rules
        /\ \A i, j \in 1 .. Len(s) : s[i] = s[j] => i = j
    BY RulebaseFacts
  <2>4. /\ t \in Seq(Rules) /\ Len(t) = Len(s) - 1
        /\ \A i \in 1 .. Len(s) - 1 : t[i] = IF i < k THEN s[i] ELSE s[i + 1]
    BY <2>1, <2>3, RemoveAtIs
  <2> HIDE DEF t
  <2>5. DOMAIN t = 1 .. Len(s) - 1
    BY <2>4, LenProperties
  <2>6. t \in Rulebases
    BY <2>1, <2>3, <2>4, <2>5 DEF Rulebases
  <2>7. ~Holds(t, r)
    BY <2>1, <2>3, <2>4, <2>5 DEF Holds
  <2>8. ASSUME NEW x, x # r PROVE Holds(t, x) <=> Holds(s, x)
    <3>1. ASSUME NEW i \in 1 .. Len(s), s[i] = x PROVE Holds(t, x)
      <4>1. CASE i < k
        BY <2>1, <2>3, <2>4, <2>5, <3>1, <4>1 DEF Holds
      <4>2. CASE i > k
        <5>1. i - 1 \in 1 .. Len(s) - 1 /\ t[i - 1] = s[i]
          BY <2>1, <2>3, <2>4, <4>2
        <5> QED
          BY <2>5, <3>1, <5>1 DEF Holds
      <4> QED
        BY <2>1, <2>8, <3>1, <4>1, <4>2
    <3>2. ASSUME NEW i \in 1 .. Len(s) - 1, t[i] = x PROVE Holds(s, x)
      <4>1. i \in 1 .. Len(s) /\ i + 1 \in 1 .. Len(s) /\ (s[i] = x \/ s[i + 1] = x)
        BY <2>3, <2>4, <3>2
      <4> QED
        BY <2>3, <4>1 DEF Holds
    <3> QED
      BY <2>3, <2>5, <3>1, <3>2 DEF Holds
  <2> QED
    BY <2>2, <2>6, <2>7, <2>8
<1> QED
  BY <1>1, <1>2

(* Putting a rule in moves those from its place on down by one.            *)
LEMMA InsertedIs ==
    ASSUME NEW s \in Rulebases, NEW r \in Rules, ~Holds(s, r), NEW k \in 1 .. Len(s) + 1
    PROVE  LET t == InsertAt(s, k, r) IN
           /\ t \in Rulebases /\ Len(t) = Len(s) + 1
           /\ \A i \in 1 .. Len(t) :
                t[i] = IF i < k THEN s[i] ELSE IF i = k THEN r ELSE s[i - 1]
<1> DEFINE t == InsertAt(s, k, r)
<1>1. /\ s \in Seq(Rules) /\ Len(s) \in Nat /\ DOMAIN s = 1 .. Len(s)
      /\ \A i \in 1 .. Len(s) : s[i] \in Rules
      /\ \A i, j \in 1 .. Len(s) : s[i] = s[j] => i = j
  BY RulebaseFacts
<1>2. s \in Seq(Rules) /\ k \in 1 .. Len(s) + 1
  BY <1>1
<1>3. /\ InsertAt(s, k, r) \in Seq(Rules) /\ Len(InsertAt(s, k, r)) = Len(s) + 1
      /\ \A i \in 1 .. Len(s) + 1 : InsertAt(s, k, r)[i] =
                IF i < k THEN s[i] ELSE IF i = k THEN r ELSE s[i - 1]
  BY <1>2, InsertAtIs
<1>4. /\ t \in Seq(Rules) /\ Len(t) = Len(s) + 1
      /\ \A i \in 1 .. Len(s) + 1 :
            t[i] = IF i < k THEN s[i] ELSE IF i = k THEN r ELSE s[i - 1]
  BY <1>3, Zenon
<1> HIDE DEF t
<1>5. DOMAIN t = 1 .. Len(s) + 1
  BY <1>4, LenProperties
<1>6. ASSUME NEW i \in 1 .. Len(s) + 1, NEW j \in 1 .. Len(s) + 1, t[i] = t[j]
      PROVE  i = j
  <2>1. \A m \in 1 .. Len(s) : s[m] # r
    BY <1>1 DEF Holds
  <2> QED
    BY <1>1, <1>4, <1>6, <2>1
<1> QED
  BY <1>4, <1>5, <1>6 DEF Rulebases, t

(* The device's move puts the rule directly where it is asked for, if the  *)
(* pivot is there and another rule.                                        *)
LEMMA MovedIsPlaced ==
    ASSUME NEW s \in Rulebases, NEW r \in Rules, Holds(s, r), NEW place \in Places,
           place.pivot # NoRule => place.pivot # r /\ Holds(s, place.pivot)
    PROVE  /\ Moved(s, r, place) \in Rulebases
           /\ Holds(Moved(s, r, place), r)
           /\ Placed(Moved(s, r, place), r, place)
<1> DEFINE rest == Without(s, r)
           p == IndexOf(rest, place.pivot)
           k == CASE place.where = "top" -> 1
                  [] place.where = "bottom" -> Len(rest) + 1
                  [] place.where = "before" -> p
                  [] place.where = "after" -> p + 1
           t == InsertAt(rest, k, r)
<1>1. Moved(s, r, place) = t
  BY DEF Moved
<1>2. /\ rest \in Rulebases /\ ~Holds(rest, r) /\ Len(rest) \in Nat
      /\ \A x : x # r => (Holds(rest, x) <=> Holds(s, x))
  BY WithoutIs, RulebaseFacts
<1> HIDE DEF rest
<1>3. /\ place.where \in {"top", "bottom", "before", "after"}
      /\ place.where \in {"before", "after"} =>
            place.pivot # r /\ p \in 1 .. Len(rest) /\ rest[p] = place.pivot
  <2>1. CASE place.where \in {"top", "bottom"}
    BY <2>1
  <2>2. CASE place.where \in {"before", "after"}
    <3>1. place.pivot \in Rules /\ place.pivot # NoRule
      BY <2>2, NoRuleAssumption DEF Places
    <3> QED
      BY <1>2, <2>2, <3>1, IndexHolds
  <2> QED
    BY <2>1, <2>2 DEF Places
<1> HIDE DEF p
<1>4. k \in 1 .. Len(rest) + 1
  BY <1>2, <1>3
<1>5. /\ t \in Rulebases /\ Len(t) = Len(rest) + 1
      /\ \A i \in 1 .. Len(t) :
           t[i] = IF i < k THEN rest[i] ELSE IF i = k THEN r ELSE rest[i - 1]
  <2> HIDE DEF k
  <2> QED
    BY <1>2, <1>4, InsertedIs
<1> HIDE DEF t
<1>6. IndexOf(t, r) = k /\ Holds(t, r)
  <2> HIDE DEF k
  <2>1. k \in 1 .. Len(t) /\ t[k] = r
    BY <1>2, <1>4, <1>5
  <2> QED
    BY <1>5, <2>1, IndexIs, RulebaseFacts DEF Holds
<1>7. ASSUME place.where = "before" 
      PROVE  Holds(t, place.pivot) /\ IndexOf(t, place.pivot) = k + 1
  <2>1. k + 1 \in 1 .. Len(t) /\ t[k + 1] = place.pivot
    BY <1>2, <1>3, <1>4, <1>5, <1>7
  <2> QED
    BY <1>5, <2>1, IndexIs, RulebaseFacts DEF Holds
<1>8. ASSUME place.where = "after" 
      PROVE  Holds(t, place.pivot) /\ IndexOf(t, place.pivot) + 1 = k
  <2>1. p \in 1 .. Len(t) /\ t[p] = place.pivot /\ p + 1 = k
    BY <1>2, <1>3, <1>4, <1>5, <1>8
  <2> QED
    BY <1>5, <2>1, IndexIs, RulebaseFacts DEF Holds
<1>9. Placed(t, r, place)
  BY <1>2, <1>3, <1>5, <1>6, <1>7, <1>8 DEF Placed
<1> QED
  BY <1>1, <1>5, <1>6, <1>9

LEMMA CreatedIs ==
    ASSUME NEW s \in Rulebases, NEW r \in Rules
    PROVE  Created(s, r) \in Rulebases /\ Holds(Created(s, r), r)
<1>1. CASE Holds(s, r)
  BY <1>1 DEF Created
<1>2. CASE ~Holds(s, r)
  <2> DEFINE t == Append(s, r)
  <2>1. Created(s, r) = t
    BY <1>2 DEF Created
  <2>2. /\ s \in Seq(Rules) /\ Len(s) \in Nat /\ DOMAIN s = 1 .. Len(s)
        /\ \A i, j \in 1 .. Len(s) : s[i] = s[j] => i = j
    BY RulebaseFacts
  <2>3. /\ t \in Seq(Rules) /\ Len(t) = Len(s) + 1
        /\ \A i \in 1 .. Len(s) : t[i] = s[i]
        /\ t[Len(s) + 1] = r
    BY <2>2, AppendProperties
  <2> HIDE DEF t
  <2>4. DOMAIN t = 1 .. Len(s) + 1
    BY <2>3, LenProperties
  <2>5. \A i \in 1 .. Len(s) : s[i] # r
    BY <1>2, <2>2 DEF Holds
  <2>6. ASSUME NEW i \in 1 .. Len(s) + 1, NEW j \in 1 .. Len(s) + 1, t[i] = t[j]
        PROVE  i = j
    BY <2>2, <2>3, <2>5, <2>6
  <2> QED
    BY <2>1, <2>2, <2>3, <2>4, <2>6 DEF Rulebases, Holds
<1> QED
  BY <1>1, <1>2
-----------------------------------------------------------------------------
(* What a call has in hand at each step: a place that movePosition has     *)
(* accepted, and a rule and a pivot that are there.                        *)
PlaceFits(c) ==
    /\ pc[c] \in {"draining"} \cup WriteSteps => req[c].place # BadPlace
    /\ pc[c] \in {"check", "plan", "move"} => req[c].place \in Places
    /\ pc[c] = "delete" => req[c].op = "delete"
    /\ pc[c] = "readback" => Holds(rules, req[c].rule)
    /\ pc[c] = "move" => req[c].place.pivot # req[c].rule

OkPlaced(c) ==
    pc[c] = "unlock" /\ ans[c] = "ok" /\ req[c].op \in {"create", "move"} =>
        /\ Holds(rules, req[c].rule)
        /\ req[c].place # Anywhere => Placed(rules, req[c].rule, req[c].place)

OrderInv ==
    /\ FreshInv
    /\ rules \in Rulebases
    /\ listed \in [Calls -> Rulebases]
    /\ \A c \in Calls : PlaceFits(c) /\ OkPlaced(c)

LEMMA OrderInit == Init => OrderInv
<1> SUFFICES ASSUME Init PROVE OrderInv
    OBVIOUS
<1>1. <<>> \in Rulebases
    BY DEF Rulebases
<1>2. \A c \in Calls : PlaceFits(c) /\ OkPlaced(c)
    BY DEF Init, PlaceFits, OkPlaced, WriteSteps
<1> QED
    BY <1>1, <1>2, FreshInit DEF Init, OrderInv

(* A write handler has a request with a rule in it.                        *)
LEMMA HasRule ==
    ASSUME LockedInv, NEW c \in Calls, pc[c] \in {"draining"} \cup WriteSteps
    PROVE  req[c] \in Requests /\ req[c].rule \in Rules
BY DEF LockedInv, CallTypes, StepFits, NoRequest, Requests

(* What the move of a call makes of the rulebase.                          *)
LEMMA MoveLands ==
    ASSUME OrderInv, NEW c \in Calls, pc[c] = "move"
    PROVE  LET s == Moved(rules, req[c].rule, req[c].place) IN
           s \in Rulebases /\ Holds(s, req[c].rule) /\ Placed(s, req[c].rule, req[c].place)
<1>1. /\ Holds(rules, req[c].rule) /\ rules \in Rulebases
      /\ req[c].place.pivot # NoRule => Holds(rules, req[c].place.pivot)
    BY DEF OrderInv, FreshInv, PlanFresh
<1>2. req[c].place \in Places /\ req[c].place.pivot # req[c].rule
    BY DEF OrderInv, PlaceFits
<1>3. req[c].rule \in Rules
    BY HasRule DEF OrderInv, FreshInv, WriteSteps
<1> QED
    BY <1>1, <1>2, <1>3, MovedIsPlaced

LEMMA RulesStay ==
    ASSUME OrderInv, NEW c \in Calls, Invoke(c) \/ Step(c) \/ Return(c)
    PROVE  rules' \in Rulebases /\ listed' \in [Calls -> Rulebases]
<1>1. rules' \in Rulebases
    <2>1. CASE CreateRule(c)
        <3>1. req[c].rule \in Rules
            BY <2>1, HasRule DEF CreateRule, OrderInv, FreshInv, WriteSteps
        <3> QED
            BY <2>1, <3>1, CreatedIs DEF CreateRule, Send, OrderInv
    <2>2. CASE MoveRule(c)
        BY <2>2, MoveLands DEF MoveRule, Send, OrderInv
    <2>3. CASE DeleteRule(c)
        BY <2>3, WithoutIs DEF DeleteRule, Send, OrderInv
    <2>4. CASE ~(CreateRule(c) \/ MoveRule(c) \/ DeleteRule(c))
        <3>1. rules' = rules
            BY <2>4
            DEF Invoke, Step, Return, RejectPlace, LockWrites, EnterWrite, UnlockWrite,
                RLockReads, ListRules, UnlockRead, ReadBack, CheckRule, PlanMove
        <3> QED
            BY <3>1 DEF OrderInv
    <2> QED
        BY <2>1, <2>2, <2>3, <2>4
<1>2. \/ UNCHANGED listed \/ listed' = [listed EXCEPT ![c] = <<>>]
      \/ listed' = [listed EXCEPT ![c] = rules]
    BY DEF Invoke, Step, Return, RejectPlace, LockWrites, EnterWrite, UnlockWrite,
           RLockReads, ListRules, UnlockRead, CreateRule, ReadBack, CheckRule, PlanMove,
           MoveRule, DeleteRule, Send
<1>3. <<>> \in Rulebases
    BY DEF Rulebases
<1> QED
    BY <1>1, <1>2, <1>3 DEF OrderInv

(* The steps that a call can be at after its own step, and what they need. *)
LEMMA OwnPlace ==
    ASSUME OrderInv, NEW c \in Calls, Invoke(c) \/ Step(c) \/ Return(c)
    PROVE  PlaceFits(c)' /\ OkPlaced(c)'
<1>1. /\ pc \in [Calls -> Steps] /\ req \in [Calls -> Requests \cup {NoRequest}]
      /\ ans \in [Calls -> Answers] /\ PlaceFits(c) /\ LockedInv /\ rules \in Rulebases
    BY DEF OrderInv, FreshInv, LockedInv, CallTypes
<1>2. CASE \/ Invoke(c) \/ Return(c) \/ RejectPlace(c) \/ RLockReads(c)
           \/ ListRules(c) \/ UnlockRead(c) \/ UnlockWrite(c)
    <2>1. pc'[c] \in {"start", "idle", "answered", "reading", "runlock"}
        BY <1>1, <1>2 DEF Invoke, Return, RejectPlace, RLockReads, ListRules, UnlockRead,
                          UnlockWrite, Go
    <2> QED
        BY <2>1 DEF PlaceFits, OkPlaced, WriteSteps
<1>3. CASE LockWrites(c)
    BY <1>1, <1>3 DEF LockWrites, Go, PlaceFits, OkPlaced, WriteSteps
<1>4. CASE EnterWrite(c)
    <2>1. /\ req[c].op \in {"create", "move", "delete"} /\ req[c] \in Requests
          /\ req[c].place # BadPlace
        BY <1>1, <1>4, HasRule DEF EnterWrite, LockedInv, StepFits, PlaceFits
    <2>2. req[c].op = "move" => req[c].place \in Places
        BY <2>1 DEF Requests, Anywhere
    <2>3. /\ req' = req
          /\ pc'[c] = CASE req[c].op = "create" -> "create"
                         [] req[c].op = "move" -> "check"
                         [] req[c].op = "delete" -> "delete"
        BY <1>1, <1>4 DEF EnterWrite, Go
    <2> QED
        BY <2>1, <2>2, <2>3 DEF PlaceFits, OkPlaced, WriteSteps
<1>5. CASE CreateRule(c)
    <2>1. req[c].rule \in Rules /\ req[c].place # BadPlace
        BY <1>1, <1>5, HasRule DEF CreateRule, PlaceFits, WriteSteps
    <2>2. Holds(Created(rules, req[c].rule), req[c].rule)
        BY <1>1, <2>1, CreatedIs
    <2>3. \/ /\ pc'[c] = "readback" /\ rules' = Created(rules, req[c].rule)
          \/ pc'[c] = "unlock" /\ ans'[c] = "error"
        BY <1>1, <1>5 DEF CreateRule, Send, Go, Answer
    <2>4. req' = req
        BY <1>5 DEF CreateRule, Send
    <2> QED
        BY <2>1, <2>2, <2>3, <2>4 DEF PlaceFits, OkPlaced, Holds
<1>6. CASE ReadBack(c)
    <2>1. /\ req[c] \in Requests /\ req[c].place # BadPlace /\ Holds(rules, req[c].rule)
          /\ req' = req /\ rules' = rules
        BY <1>1, <1>6, HasRule DEF ReadBack, PlaceFits, WriteSteps
    <2>2. req[c].place # Anywhere => req[c].place \in Places
        BY <2>1 DEF Requests
    <2>3. \/ pc'[c] = "unlock" /\ (req[c].place = Anywhere \/ ans'[c] = "error")
          \/ pc'[c] = "plan" /\ req[c].place # Anywhere
        BY <1>1, <1>6 DEF ReadBack, Go, Answer
    <2> QED
        BY <2>1, <2>2, <2>3 DEF PlaceFits, OkPlaced, Holds
<1>7. CASE CheckRule(c)
    <2>1. req[c].place \in Places /\ req[c].place # BadPlace /\ req' = req
        BY <1>1, <1>7 DEF CheckRule, PlaceFits, WriteSteps
    <2>2. pc'[c] = "plan" \/ (pc'[c] = "unlock" /\ ans'[c] = "error")
        BY <1>1, <1>7 DEF CheckRule, Go, Answer
    <2> QED
        BY <2>1, <2>2 DEF PlaceFits, OkPlaced
<1>8. CASE PlanMove(c)
    <2>1. req[c].place \in Places /\ req[c].place # BadPlace /\ req' = req /\ rules' = rules
        BY <1>1, <1>8 DEF PlanMove, PlaceFits, WriteSteps
    <2>2. req[c].rule \in Rules /\ NoRule \notin Rules
        BY <1>1, <1>8, HasRule, NoRuleAssumption DEF PlanMove, WriteSteps
    <2>3. \/ /\ Holds(rules, req[c].rule) /\ req[c].place.pivot # req[c].rule
             /\ \/ pc'[c] = "unlock" /\ Placed(rules, req[c].rule, req[c].place)
                \/ pc'[c] = "move"
          \/ pc'[c] = "unlock" /\ ans'[c] # "ok"
        BY <1>1, <1>8, <2>2 DEF PlanMove, Movable, Go, Answer, MoveError
    <2> QED
        BY <2>1, <2>3 DEF PlaceFits, OkPlaced, Holds, Placed, IndexOf
<1>9. CASE MoveRule(c)
    <2> DEFINE s == Moved(rules, req[c].rule, req[c].place)
    <2>1. Holds(s, req[c].rule) /\ Placed(s, req[c].rule, req[c].place)
        BY <1>9, MoveLands DEF MoveRule
    <2>2. /\ pc'[c] = "unlock" /\ (rules' = s \/ ans'[c] # "ok")
          /\ req' = req /\ req[c].place # BadPlace
        BY <1>1, <1>9 DEF MoveRule, Send, Go, Answer, MoveError, PlaceFits, WriteSteps
    <2> HIDE DEF s
    <2> QED
        BY <2>1, <2>2 DEF PlaceFits, OkPlaced
<1>10. CASE DeleteRule(c)
    <2>1. pc'[c] = "unlock" /\ req'[c].op = "delete" /\ req'[c].place # BadPlace
        BY <1>1, <1>10 DEF DeleteRule, Send, Go, PlaceFits, WriteSteps
    <2> QED
        BY <2>1 DEF PlaceFits, OkPlaced
<1> QED
    BY <1>2, <1>3, <1>4, <1>5, <1>6, <1>7, <1>8, <1>9, <1>10 DEF Step

LEMMA OrderNext == OrderInv /\ [Next]_vars => OrderInv'
<1> SUFFICES ASSUME OrderInv, [Next]_vars PROVE OrderInv'
    OBVIOUS
<1>1. FreshInv /\ FreshInv'
    BY FreshNext DEF OrderInv
<1>2. CASE UNCHANGED vars
    BY <1>1, <1>2 DEF vars, OrderInv, PlaceFits, OkPlaced
<1>3. ASSUME NEW c \in Calls, Invoke(c) \/ Step(c) \/ Return(c)
      PROVE  OrderInv'
    <2>1. ASSUME NEW d \in Calls, d # c PROVE PlaceFits(d)' /\ OkPlaced(d)'
        <3>1. UNCHANGED <<pc[d], req[d], listed[d], ans[d]>>
            BY <1>1, <1>3, <2>1, OwnPart DEF FreshInv
        <3>2. CASE pc[d] \in WriteSteps
            <4>1. pc[c] \notin WriteSteps
                BY <1>1, <2>1, <3>2, OneInside DEF FreshInv
            <4>2. rules' = rules
                BY <1>1, <1>3, <4>1, RulesChange DEF FreshInv
            <4> QED
                BY <3>1, <4>2 DEF OrderInv, PlaceFits, OkPlaced
        <3>3. CASE pc[d] \notin WriteSteps
            BY <3>1, <3>3 DEF OrderInv, PlaceFits, OkPlaced, WriteSteps
        <3> QED
            BY <3>2, <3>3
    <2> QED
        BY <1>1, <1>3, <2>1, RulesStay, OwnPlace DEF OrderInv
<1> QED
    BY <1>2, <1>3 DEF Next

(* TypeOK: the rulebase stays a list of distinct rules, created again,     *)
(* moved or deleted by whichever calls (the device's set, move, delete).   *)
THEOREM RulesStayDistinct == Spec => []TypeOK
<1>1. OrderInv => TypeOK
    BY DEF OrderInv, FreshInv, LockedInv, CallTypes, TypeOK
<1> QED
    BY <1>1, OrderInit, OrderNext, PTL DEF Spec

(* OkIsPlaced: a create or a move that answers ok leaves the rule directly *)
(* where it was asked for, at the moment the lock is given back, whatever  *)
(* creates, moves and deletes came in meanwhile (ruleCreateHandler,        *)
(* moveHandler).                                                           *)
THEOREM OkMeansPlaced == Spec => []OkIsPlaced
<1>1. OrderInv => OkIsPlaced
    BY DEF OrderInv, OkPlaced, OkIsPlaced
<1> QED
    BY <1>1, OrderInit, OrderNext, PTL DEF Spec
-----------------------------------------------------------------------------
(* The rule handlers as RuleStore.                                         *)

(* A rule that is in place already would be put back where it is, so that  *)
(* MoveGroup need not send that move.                                      *)
LEMMA MovedInPlace ==
    ASSUME NEW s \in Rulebases, NEW r \in Rules, NEW place \in Places,
           Movable(s, r, place), Placed(s, r, place)
    PROVE  Moved(s, r, place) = s
<1> DEFINE rest == Without(s, r)
           m == IndexOf(s, r)
           p == IndexOf(rest, place.pivot)
           k == CASE place.where = "top" -> 1
                  [] place.where = "bottom" -> Len(rest) + 1
                  [] place.where = "before" -> p
                  [] place.where = "after" -> p + 1
           t == InsertAt(rest, k, r)
<1>1. Moved(s, r, place) = t
  BY DEF Moved
<1>2. m \in 1 .. Len(s) /\ s[m] = r /\ rest = RemoveAt(s, m)
  BY IndexHolds DEF Movable, Without
<1>3. /\ s \in Seq(Rules) /\ Len(s) \in Nat /\ DOMAIN s = 1 .. Len(s)
      /\ \A i, j \in 1 .. Len(s) : s[i] = s[j] => i = j
  BY RulebaseFacts
<1>4. rest \in Rulebases /\ ~Holds(rest, r)
  BY WithoutIs
<1> HIDE DEF m, rest
<1>5. /\ Len(rest) = Len(s) - 1
      /\ \A i \in 1 .. Len(s) - 1 : rest[i] = IF i < m THEN s[i] ELSE s[i + 1]
  BY <1>2, <1>3, RemoveAtIs
<1>6. k = m
  <2>1. CASE place.where = "top"
    BY <2>1 DEF Placed, m
  <2>2. CASE place.where = "bottom"
    BY <1>3, <1>5, <2>2 DEF Placed, m
  <2>3. CASE place.where \in {"before", "after"}
    <3> DEFINE q == IndexOf(s, place.pivot)
    <3>1. place.pivot \in Rules /\ place.pivot # NoRule
      BY <2>3, NoRuleAssumption DEF Places
    <3>2. Holds(s, place.pivot) /\ place.pivot # r
      BY <3>1 DEF Movable
    <3>3. q \in 1 .. Len(s) /\ s[q] = place.pivot
      BY <3>2, IndexHolds
    <3> HIDE DEF q
    <3>4. CASE place.where = "before"
      <4>1. q = m + 1
        BY <1>2, <1>3, <3>3, <3>4 DEF Placed, m, q
      <4>2. m \in 1 .. Len(rest) /\ rest[m] = place.pivot
        BY <1>2, <1>3, <1>5, <3>3, <4>1
      <4>3. p = m
        BY <1>4, <4>2, IndexIs
      <4> QED
        BY <3>4, <4>3
    <3>5. CASE place.where = "after"
      <4>1. m = q + 1
        BY <1>2, <1>3, <3>3, <3>5 DEF Placed, m, q
      <4>2. q \in 1 .. Len(rest) /\ rest[q] = place.pivot
        BY <1>2, <1>3, <1>5, <3>3, <4>1
      <4>3. p = q
        BY <1>4, <4>2, IndexIs
      <4> QED
        BY <3>5, <4>1, <4>3
    <3> QED
      BY <2>3, <3>4, <3>5
  <2> QED
    BY <2>1, <2>2, <2>3 DEF Places
<1> HIDE DEF k
<1>7. /\ t \in Rulebases /\ Len(t) = Len(s)
      /\ \A i \in 1 .. Len(t) :
           t[i] = IF i < k THEN rest[i] ELSE IF i = k THEN r ELSE rest[i - 1]
  <2>1. k \in 1 .. Len(rest) + 1
    BY <1>2, <1>3, <1>5, <1>6
  <2>2. /\ t \in Rulebases /\ Len(t) = Len(rest) + 1
        /\ \A i \in 1 .. Len(t) :
             t[i] = IF i < k THEN rest[i] ELSE IF i = k THEN r ELSE rest[i - 1]
    BY <1>4, <2>1, InsertedIs
  <2> HIDE DEF t
  <2> QED
    BY <1>3, <1>5, <2>2
<1> HIDE DEF t
<1>8. ASSUME NEW i \in 1 .. Len(s) PROVE t[i] = s[i]
  <2>1. CASE i < m
    BY <1>2, <1>3, <1>5, <1>6, <1>7, <2>1
  <2>2. CASE i = m
    BY <1>2, <1>3, <1>6, <1>7, <2>2
  <2>3. CASE i > m
    <3>1. i - 1 \in 1 .. Len(s) - 1 /\ ~(i - 1 < m) /\ (i - 1) + 1 = i
      BY <1>2, <1>3, <2>3
    <3>2. rest[i - 1] = s[(i - 1) + 1]
      BY <1>5, <3>1
    <3> QED
      BY <1>2, <1>3, <1>6, <1>7, <2>3, <3>1, <3>2
  <2> QED
    BY <1>2, <1>3, <2>1, <2>2, <2>3
<1>9. t = s
  <2>1. t \in Seq(Rules)
    BY <1>7 DEF Rulebases
  <2> QED
    BY <1>3, <1>7, <1>8, <2>1, SeqEqual
<1> QED
  BY <1>1, <1>9
(* RuleStore's rulebases are the same data.                                *)
LEMMA StoreSteps ==
    ASSUME NEW s, NEW k, NEW r
    PROVE  Store!RemoveAt(s, k) = RemoveAt(s, k) /\ Store!InsertAt(s, k, r) = InsertAt(s, k, r)
BY DEF Store!RemoveAt, RemoveAt, Store!InsertAt, InsertAt

LEMMA StoreHolds ==
    ASSUME NEW s, NEW r
    PROVE  /\ Store!Holds(s, r) <=> Holds(s, r)
           /\ Store!IndexOf(s, r) = IndexOf(s, r)
           /\ Store!Without(s, r) = Without(s, r)
           /\ Store!Created(s, r) = Created(s, r)
<1>1. Store!Holds(s, r) <=> Holds(s, r)
    BY DEF Store!Holds, Holds
<1>2. Store!IndexOf(s, r) = IndexOf(s, r)
    BY DEF Store!IndexOf, IndexOf
<1> QED
    BY <1>1, <1>2, StoreSteps DEF Store!Without, Without, Store!Created, Created

LEMMA StoreMoved ==
    ASSUME NEW s, NEW r, NEW place
    PROVE  /\ Store!Moved(s, r, place) = Moved(s, r, place)
           /\ Store!Movable(s, r, place) <=> Movable(s, r, place)
BY StoreSteps, StoreHolds DEF Store!Moved, Moved, Store!Movable, Movable

LEMMA StoreRequests ==
    /\ Store!Requests = Requests /\ Store!NoRequest = NoRequest
    /\ Store!Anywhere = Anywhere /\ Store!BadPlace = BadPlace
    /\ Store!Rulebases = Rulebases
BY DEF Store!Requests, Requests, Store!NoRequest, NoRequest, Store!Anywhere, Anywhere,
       Store!BadPlace, BadPlace, Store!Places, Places, Store!Rulebases, Rulebases
-----------------------------------------------------------------------------
(* What a call inside has made of the rulebase so far, told by the         *)
(* rulebase before it: nothing yet, the rule created, or one of the        *)
(* outcomes of its answer.                                                 *)
Base(c) == IF req[c].op = "create" THEN Created(before, req[c].rule) ELSE before

CallHistory(c) ==
    /\ IF pc[c] = "idle" THEN req[c] = NoRequest ELSE req[c] \in Requests
    /\ pc[c] \in {"reading", "runlock"} => req[c].op = "list"
    /\ pc[c] \in {"idle", "start", "reading"} => listed[c] = <<>>
    /\ pc[c] \in {"check", "create", "delete"} => rules = before
    /\ pc[c] = "check" => req[c].op = "move"
    /\ pc[c] \in {"create", "readback"} => req[c].op = "create"
    /\ pc[c] = "readback" => ans[c] = "ok"
    /\ pc[c] \in {"plan", "move"} => req[c].op \in {"create", "move"}
    /\ pc[c] \in {"readback", "plan", "move"} => rules = Base(c)
    /\ pc[c] = "unlock" =>
        ans[c] # "none" /\ rules \in Store!Outcomes(before, req[c], ans[c])
    /\ pc[c] \in {"runlock", "answered"} => ans[c] # "none"
    /\ pc[c] = "runlock" => ans[c] \in {"ok", "error"}

HistoryInv ==
    /\ OrderInv
    /\ ~entered => before = rules
    /\ \A c \in Calls : CallHistory(c)
(* What each answer allows.                                                *)
LEMMA OutcomesOf ==
    ASSUME NEW s, NEW r
    PROVE  LET made == Created(s, r.rule) IN
           /\ r.op = "create" =>
                /\ s \in Store!Outcomes(s, r, "error") /\ made \in Store!Outcomes(s, r, "error")
                /\ r.place = Anywhere => made \in Store!Outcomes(s, r, "ok")
                /\ r.place # Anywhere =>
                    /\ made \in Store!Outcomes(s, r, "positioning failed")
                    /\ Movable(made, r.rule, r.place) =>
                        /\ Moved(made, r.rule, r.place) \in Store!Outcomes(s, r, "ok")
                        /\ Moved(made, r.rule, r.place)
                             \in Store!Outcomes(s, r, "positioning failed")
           /\ r.op = "move" =>
                /\ s \in Store!Outcomes(s, r, "error")
                /\ Movable(s, r.rule, r.place) =>
                    /\ Moved(s, r.rule, r.place) \in Store!Outcomes(s, r, "ok")
                    /\ Moved(s, r.rule, r.place) \in Store!Outcomes(s, r, "error")
           /\ r.op = "delete" =>
                /\ s \in Store!Outcomes(s, r, "error")
                /\ Without(s, r.rule) \in Store!Outcomes(s, r, "ok")
                /\ Without(s, r.rule) \in Store!Outcomes(s, r, "error")
<1> DEFINE made == Created(s, r.rule)
<1>1. Store!Created(s, r.rule) = made /\ Store!Without(s, r.rule) = Without(s, r.rule)
    BY StoreHolds
<1>2. /\ Store!Anywhere = Anywhere
      /\ \A t : /\ Store!Moved(t, r.rule, r.place) = Moved(t, r.rule, r.place)
                /\ Store!Movable(t, r.rule, r.place) <=> Movable(t, r.rule, r.place)
    BY StoreMoved, StoreRequests
<1> HIDE DEF made
<1>3. /\ Store!Outcomes(s, r, "ok") = Store!Done(s, r)
      /\ Store!Outcomes(s, r, "error") =
            {s} \cup (IF r.op = "create" THEN {made} ELSE Store!Done(s, r))
      /\ r.op = "create" /\ r.place # Anywhere =>
            Store!Outcomes(s, r, "positioning failed") = {made} \cup Store!Done(s, r)
    BY <1>1, <1>2 DEF Store!Outcomes
<1>4. /\ r.op = "create" /\ r.place = Anywhere => Store!Done(s, r) = {made}
      /\ r.op = "create" /\ r.place # Anywhere => Store!Done(s, r) = Store!Rearranged(made, r)
      /\ r.op = "move" => Store!Done(s, r) = Store!Rearranged(s, r)
      /\ r.op = "delete" => Store!Done(s, r) = {Without(s, r.rule)}
    BY <1>1, <1>2 DEF Store!Done
<1>5. \A t : Movable(t, r.rule, r.place) =>
                Store!Rearranged(t, r) = {Moved(t, r.rule, r.place)}
    BY <1>2 DEF Store!Rearranged
<1>6. ASSUME r.op = "create"
      PROVE  /\ s \in Store!Outcomes(s, r, "error") /\ made \in Store!Outcomes(s, r, "error")
             /\ r.place = Anywhere => made \in Store!Outcomes(s, r, "ok")
             /\ r.place # Anywhere =>
                 /\ made \in Store!Outcomes(s, r, "positioning failed")
                 /\ Movable(made, r.rule, r.place) =>
                     /\ Moved(made, r.rule, r.place) \in Store!Outcomes(s, r, "ok")
                     /\ Moved(made, r.rule, r.place)
                          \in Store!Outcomes(s, r, "positioning failed")
    <2>1. s \in Store!Outcomes(s, r, "error") /\ made \in Store!Outcomes(s, r, "error")
        BY <1>3, <1>6
    <2>2. ASSUME r.place = Anywhere PROVE made \in Store!Outcomes(s, r, "ok")
        BY <1>3, <1>4, <1>6, <2>2
    <2>3. ASSUME r.place # Anywhere
          PROVE  /\ Store!Outcomes(s, r, "ok") = Store!Rearranged(made, r)
                 /\ Store!Outcomes(s, r, "positioning failed")
                        = {made} \cup Store!Rearranged(made, r)
        BY <1>3, <1>4, <1>6, <2>3
    <2>4. Movable(made, r.rule, r.place) =>
                Store!Rearranged(made, r) = {Moved(made, r.rule, r.place)}
        BY <1>5
    <2> QED
        BY <2>1, <2>2, <2>3, <2>4
<1>7. ASSUME r.op = "move"
      PROVE  /\ s \in Store!Outcomes(s, r, "error")
             /\ Movable(s, r.rule, r.place) =>
                 /\ Moved(s, r.rule, r.place) \in Store!Outcomes(s, r, "ok")
                 /\ Moved(s, r.rule, r.place) \in Store!Outcomes(s, r, "error")
    BY <1>3, <1>4, <1>5, <1>7
<1>8. ASSUME r.op = "delete"
      PROVE  /\ s \in Store!Outcomes(s, r, "error")
             /\ Without(s, r.rule) \in Store!Outcomes(s, r, "ok")
             /\ Without(s, r.rule) \in Store!Outcomes(s, r, "error")
    BY <1>3, <1>4, <1>8
<1> QED
    BY <1>6, <1>7, <1>8 DEF made

(* Only the unlock of the call inside ends a hold of the write lock.       *)
LEMMA StaysInside ==
    ASSUME NEW c \in Calls, Invoke(c) \/ Step(c) \/ Return(c), ~UnlockWrite(c), entered
    PROVE  entered'
BY DEF Invoke, Step, Return, RejectPlace, LockWrites, LockClaim, EnterWrite, LockEnter,
       RLockReads, RLock, ListRules, UnlockRead, RUnlock, CreateRule, ReadBack, CheckRule,
       PlanMove, MoveRule, DeleteRule, Send, muVars

(* The rulebase as it was before moves on with the unlock alone.           *)
LEMMA BeforeStays ==
    ASSUME HistoryInv, LockedInv', NEW c \in Calls, Invoke(c) \/ Step(c) \/ Return(c),
           before' = (IF entered' THEN before ELSE rules')
    PROVE  /\ \A d \in Calls : pc'[d] \in WriteSteps => before' = before
           /\ ~UnlockWrite(c) => before' = before
           /\ ~entered' => before' = rules'
<1>1. ASSUME NEW d \in Calls, pc'[d] \in WriteSteps PROVE entered'
    BY <1>1 DEF LockedInv, LockDiscipline, HoldsWrite
<1>2. ASSUME ~UnlockWrite(c), ~entered' PROVE before' = before
    <2>1. ~entered
        BY <1>2, StaysInside
    <2>2. pc[c] \notin WriteSteps
        BY <2>1 DEF HistoryInv, OrderInv, FreshInv, LockedInv, LockDiscipline, HoldsWrite
    <2>3. rules' = rules
        BY <2>2, RulesChange DEF HistoryInv, OrderInv, FreshInv
    <2> QED
        BY <1>2, <2>1, <2>3 DEF HistoryInv
<1> QED
    BY <1>1, <1>2
(* A call's own step.                                                      *)
LEMMA HistoryAt ==
    ASSUME NEW c \in Calls, pc'[c] = "unlock", req'[c] \in Requests, ans'[c] # "none",
           rules' \in Store!Outcomes(before', req'[c], ans'[c])
    PROVE  CallHistory(c)'
<1>1. (rules \in Store!Outcomes(before, req[c], ans[c]))'
    OBVIOUS
<1> QED
    BY <1>1 DEF CallHistory
LEMMA OwnHistory ==
    ASSUME HistoryInv, LockedInv', NEW c \in Calls, Invoke(c) \/ Step(c) \/ Return(c),
           before' = (IF entered' THEN before ELSE rules')
    PROVE  CallHistory(c)'
<1>1. /\ pc \in [Calls -> Steps] /\ req \in [Calls -> Requests \cup {NoRequest}]
      /\ ans \in [Calls -> Answers] /\ LockedInv /\ rules \in Rulebases /\ OrderInv
      /\ PlaceFits(c) /\ CallHistory(c) /\ listed = [d \in Calls |-> listed[d]]
    BY DEF HistoryInv, OrderInv, FreshInv, LockedInv, CallTypes
<1>2. pc'[c] \in WriteSteps => before' = before
    BY BeforeStays
<1>3. pc[c] \in WriteSteps =>
          /\ req[c] \in Requests /\ req[c].rule \in Rules /\ req[c].place # BadPlace
    BY <1>1, HasRule DEF PlaceFits
<1>4. CASE \/ Invoke(c) \/ Return(c) \/ RejectPlace(c) \/ LockWrites(c) \/ RLockReads(c)
           \/ ListRules(c) \/ UnlockRead(c) \/ UnlockWrite(c)
    BY <1>1, <1>4
    DEF CallHistory, Invoke, Return, RejectPlace, LockWrites, RLockReads, ListRules,
        UnlockRead, UnlockWrite, Go, Answer
<1>5. CASE EnterWrite(c)
    <2>1. /\ req[c].op \in {"create", "move", "delete"} /\ req[c] \in Requests
          /\ pc[c] = "draining" /\ req' = req /\ rules' = rules
        BY <1>1, <1>5, HasRule DEF EnterWrite, LockedInv, StepFits
    <2>2. before = rules
        BY <1>1, <2>1 DEF HistoryInv, LockedInv, LockDiscipline
    <2>3. pc'[c] = CASE req[c].op = "create" -> "create"
                     [] req[c].op = "move" -> "check"
                     [] req[c].op = "delete" -> "delete"
        BY <1>1, <1>5 DEF EnterWrite, Go
    <2> QED
        BY <1>2, <2>1, <2>2, <2>3 DEF CallHistory, WriteSteps
<1>6. CASE CreateRule(c)
    <2>1. pc[c] = "create" /\ req[c].op = "create" /\ rules = before /\ req' = req
        BY <1>1, <1>6 DEF CreateRule, Send, CallHistory
    <2>2. /\ req[c] \in Requests
          /\ \/ pc'[c] = "readback" /\ ans'[c] = "ok" /\ rules' = Created(rules, req[c].rule)
             \/ /\ pc'[c] = "unlock" /\ ans'[c] = "error"
                /\ rules' \in {rules, Created(rules, req[c].rule)}
        BY <1>1, <1>3, <1>6 DEF CreateRule, Send, Go, Answer, WriteSteps
    <2>3. CASE pc'[c] = "readback"
        BY <1>2, <2>1, <2>2, <2>3 DEF CallHistory, Base, WriteSteps
    <2>4. CASE pc'[c] = "unlock"
        <3>1. before' = before /\ rules' \in Store!Outcomes(before, req[c], "error")
            BY <1>2, <2>1, <2>2, <2>4, OutcomesOf DEF WriteSteps
        <3> QED
            BY <2>1, <2>2, <2>4, <3>1, HistoryAt
    <2> QED
        BY <2>2, <2>3, <2>4
<1>7. CASE ReadBack(c)
    <2>1. /\ pc[c] = "readback" /\ req[c].op = "create" /\ ans[c] = "ok"
          /\ rules = Created(before, req[c].rule) /\ req' = req /\ rules' = rules
          /\ req[c] \in Requests
        BY <1>1, <1>3, <1>7 DEF ReadBack, CallHistory, Base, WriteSteps
    <2>2. \/ pc'[c] = "unlock" /\ req[c].place = Anywhere /\ ans'[c] = "ok"
          \/ pc'[c] = "unlock" /\ ans'[c] = "error"
          \/ pc'[c] = "plan"
        BY <1>1, <1>7, <2>1 DEF ReadBack, Go, Answer
    <2>3. CASE pc'[c] = "plan"
        BY <1>2, <2>1, <2>3 DEF CallHistory, Base, WriteSteps
    <2>4. CASE pc'[c] = "unlock"
        <3>1. /\ before' = before /\ ans'[c] # "none"
              /\ rules' \in Store!Outcomes(before, req[c], ans'[c])
            BY <1>2, <2>1, <2>2, <2>4, OutcomesOf DEF WriteSteps
        <3> QED
            BY <2>1, <2>4, <3>1, HistoryAt
    <2> QED
        BY <2>2, <2>3, <2>4
<1>8. CASE CheckRule(c)
    <2>1. /\ pc[c] = "check" /\ req[c].op = "move" /\ rules = before /\ req' = req
          /\ rules' = rules /\ req[c] \in Requests
        BY <1>1, <1>3, <1>8 DEF CheckRule, CallHistory, WriteSteps
    <2>2. pc'[c] = "plan" \/ (pc'[c] = "unlock" /\ ans'[c] = "error")
        BY <1>1, <1>8 DEF CheckRule, Go, Answer
    <2>3. CASE pc'[c] = "plan"
        BY <1>2, <2>1, <2>3 DEF CallHistory, Base, WriteSteps
    <2>4. CASE pc'[c] = "unlock"
        <3>1. before' = before /\ rules' \in Store!Outcomes(before, req[c], "error")
            BY <1>2, <2>1, <2>4, OutcomesOf DEF WriteSteps
        <3> QED
            BY <2>1, <2>2, <2>4, <3>1, HistoryAt
    <2> QED
        BY <2>2, <2>3, <2>4
<1>9. CASE PlanMove(c)
    <2> DEFINE r == req[c].rule
               place == req[c].place
    <2>1. /\ pc[c] = "plan" /\ req[c].op \in {"create", "move"} /\ rules = Base(c)
          /\ req' = req /\ rules' = rules /\ req[c] \in Requests
          /\ place \in Places /\ place # Anywhere /\ r \in Rules
        BY <1>1, <1>3, <1>9 DEF PlanMove, CallHistory, PlaceFits, Places, Anywhere, WriteSteps
    <2>2. \/ pc'[c] = "unlock" /\ Movable(rules, r, place) /\ Placed(rules, r, place)
                /\ ans'[c] = "ok"
          \/ pc'[c] = "move"
          \/ pc'[c] = "unlock" /\ ans'[c] = MoveError(c)
        BY <1>1, <1>9 DEF PlanMove, Go, Answer, MoveError
    <2> HIDE DEF r, place
    <2>3. CASE pc'[c] = "move"
        BY <1>2, <2>1, <2>3 DEF CallHistory, Base, WriteSteps
    <2>4. CASE pc'[c] = "unlock"
        <3>1. rules \in Store!Outcomes(before, req[c], MoveError(c))
            BY <2>1, OutcomesOf DEF MoveError, Base, place
        <3>2. ASSUME Movable(rules, r, place), Placed(rules, r, place)
              PROVE  rules \in Store!Outcomes(before, req[c], "ok")
            <4>1. Moved(rules, r, place) = rules
                BY <1>1, <2>1, <3>2, MovedInPlace
            <4>2. Moved(rules, r, place) \in Store!Outcomes(before, req[c], "ok")
                BY <2>1, <3>2, OutcomesOf DEF Base, r, place
            <4> QED
                BY <4>1, <4>2
        <3>3. /\ before' = before /\ ans'[c] # "none"
              /\ rules' \in Store!Outcomes(before, req[c], ans'[c])
            BY <1>2, <2>1, <2>2, <2>4, <3>1, <3>2 DEF WriteSteps, MoveError
        <3> QED
            BY <2>1, <2>4, <3>3, HistoryAt
    <2> QED
        BY <2>2, <2>3, <2>4
<1>10. CASE MoveRule(c)
    <2> DEFINE r == req[c].rule
               place == req[c].place
    <2>1. /\ pc[c] = "move" /\ req[c].op \in {"create", "move"} /\ rules = Base(c)
          /\ req' = req /\ req[c] \in Requests /\ place \in Places /\ place # Anywhere
        BY <1>1, <1>3, <1>10
        DEF MoveRule, Send, CallHistory, PlaceFits, Places, Anywhere, WriteSteps
    <2>2. /\ pc'[c] = "unlock"
          /\ \/ rules' = Moved(rules, r, place) /\ ans'[c] = "ok"
             \/ rules' \in {rules, Moved(rules, r, place)} /\ ans'[c] = MoveError(c)
        BY <1>1, <1>10 DEF MoveRule, Send, Go, Answer
    <2>3. Movable(rules, r, place)
        BY <1>1, <2>1 DEF OrderInv, FreshInv, PlanFresh, PlaceFits, Movable
    <2> HIDE DEF r, place
    <2>4. /\ rules \in Store!Outcomes(before, req[c], MoveError(c))
          /\ Moved(rules, r, place) \in Store!Outcomes(before, req[c], "ok")
          /\ Moved(rules, r, place) \in Store!Outcomes(before, req[c], MoveError(c))
        BY <2>1, <2>3, OutcomesOf DEF MoveError, Base, r, place
    <2>5. /\ before' = before /\ ans'[c] # "none"
          /\ rules' \in Store!Outcomes(before, req[c], ans'[c])
        BY <1>2, <2>2, <2>4 DEF WriteSteps, MoveError
    <2> QED
        BY <2>1, <2>2, <2>5, HistoryAt
<1>11. CASE DeleteRule(c)
    <2>1. /\ pc[c] = "delete" /\ req[c].op = "delete" /\ rules = before /\ req' = req
          /\ req[c] \in Requests
        BY <1>1, <1>3, <1>11 DEF DeleteRule, Send, CallHistory, PlaceFits, WriteSteps
    <2>2. /\ pc'[c] = "unlock"
          /\ \/ rules' = Without(rules, req[c].rule) /\ ans'[c] = "ok"
             \/ rules' \in {rules, Without(rules, req[c].rule)} /\ ans'[c] = "error"
        BY <1>1, <1>11 DEF DeleteRule, Send, Go, Answer
    <2>3. /\ before' = before /\ ans'[c] # "none"
          /\ rules' \in Store!Outcomes(before, req[c], ans'[c])
        BY <1>2, <2>1, <2>2, OutcomesOf DEF WriteSteps
    <2> QED
        BY <2>1, <2>2, <2>3, HistoryAt
<1> QED
    BY <1>4, <1>5, <1>6, <1>7, <1>8, <1>9, <1>10, <1>11 DEF Step
(* No step touches what another call has done.                             *)
LEMMA OthersHistory ==
    ASSUME HistoryInv, LockedInv', NEW c \in Calls, Invoke(c) \/ Step(c) \/ Return(c),
           before' = (IF entered' THEN before ELSE rules'), NEW d \in Calls, d # c
    PROVE  CallHistory(d)'
<1>1. LockedInv /\ CallHistory(d)
    BY DEF HistoryInv, OrderInv, FreshInv
<1>2. UNCHANGED <<pc[d], req[d], listed[d], ans[d]>>
    BY <1>1, OwnPart
<1>3. CASE pc[d] \in WriteSteps
    <2>1. before' = before
        BY <1>2, <1>3, BeforeStays
    <2>2. rules' = rules
        BY <1>1, <1>3, OneInside, RulesChange
    <2> QED
        BY <1>1, <1>2, <2>1, <2>2 DEF CallHistory, Base
<1>4. CASE pc[d] \notin WriteSteps
    BY <1>1, <1>2, <1>4 DEF CallHistory, WriteSteps
<1> QED
    BY <1>3, <1>4

LEMMA HistoryStart == HistoryInit => HistoryInv
<1> SUFFICES ASSUME HistoryInit PROVE HistoryInv
    OBVIOUS
<1>1. OrderInv
    BY OrderInit DEF HistoryInit
<1>2. \A c \in Calls : CallHistory(c)
    BY DEF HistoryInit, Init, CallHistory
<1> QED
    BY <1>1, <1>2 DEF HistoryInit, HistoryInv

LEMMA HistoryStep == HistoryInv /\ [HistoryNext]_historyVars => HistoryInv'
<1> SUFFICES ASSUME HistoryInv, [HistoryNext]_historyVars PROVE HistoryInv'
    OBVIOUS
<1>1. [Next]_vars
    BY DEF HistoryNext, historyVars, Next
<1>2. OrderInv'
    BY <1>1, OrderNext DEF HistoryInv
<1>3. LockedInv'
    BY <1>2 DEF OrderInv, FreshInv
<1>4. CASE UNCHANGED historyVars
    <2>1. UNCHANGED <<writer, entered, rules, before, pc, req, listed, ans>>
        BY <1>4 DEF historyVars, vars, muVars
    <2> QED
        BY <1>2, <2>1 DEF HistoryInv, CallHistory, Base
<1>5. CASE HistoryNext
    <2>1. PICK c \in Calls : Invoke(c) \/ Step(c) \/ Return(c)
        BY <1>5 DEF HistoryNext
    <2>2. before' = (IF entered' THEN before ELSE rules')
        BY <1>5 DEF HistoryNext
    <2>3. \A d \in Calls : CallHistory(d)'
        BY <1>3, <2>1, <2>2, OwnHistory, OthersHistory
    <2> QED
        BY <1>2, <2>2, <2>3 DEF HistoryInv
<1> QED
    BY <1>4, <1>5

-----------------------------------------------------------------------------
(* Steps of RuleStore.                                                     *)

LEMMA StoreStart == HistoryInit => Store!Init
<1> SUFFICES ASSUME HistoryInit PROVE Store!Init
    OBVIOUS
<1>1. /\ before \in Store!Rulebases /\ req = [c \in Calls |-> Store!NoRequest]
    BY StoreRequests DEF HistoryInit, Init
<1>2. /\ StoreAns = [c \in Calls |-> "none"] /\ StoreListed = [c \in Calls |-> <<>>]
    BY DEF HistoryInit, Init, StoreAns, StoreListed, Over
<1> QED
    BY <1>1, <1>2 DEF Store!Init

(* What a step of one call shows of it.                                    *)
LEMMA ShownOf ==
    ASSUME LockedInv, NEW c \in Calls, Invoke(c) \/ Step(c) \/ Return(c)
    PROVE  /\ StoreAns' = [StoreAns EXCEPT ![c] = IF Over(c)' THEN ans'[c] ELSE "none"]
           /\ StoreListed' = [StoreListed EXCEPT ![c] =
                    IF Over(c)' /\ req'[c].op = "list" THEN listed'[c] ELSE <<>>]
<1>1. ASSUME NEW d \in Calls, d # c
      PROVE  /\ UNCHANGED <<pc[d], ans[d], req[d], listed[d]>>
             /\ Over(d)' <=> Over(d)
    BY <1>1, OwnPart DEF Over
<1> QED
    BY <1>1 DEF StoreAns, StoreListed

LEMMA ShownHere ==
    ASSUME NEW c \in Calls
    PROVE  /\ StoreAns[c] = IF Over(c) THEN ans[c] ELSE "none"
           /\ StoreListed[c] = IF Over(c) /\ req[c].op = "list" THEN listed[c] ELSE <<>>
           /\ StoreAns = [d \in Calls |-> StoreAns[d]]
           /\ StoreListed = [d \in Calls |-> StoreListed[d]]
BY DEF StoreAns, StoreListed
LEMMA StoreStep ==
    ASSUME HistoryInv, LockedInv', NEW c \in Calls, Invoke(c) \/ Step(c) \/ Return(c),
           before' = (IF entered' THEN before ELSE rules')
    PROVE  [Store!Next]_Store!vars
<1>1. /\ pc \in [Calls -> Steps] /\ req \in [Calls -> Requests \cup {NoRequest}]
      /\ ans \in [Calls -> Answers] /\ LockedInv /\ CallHistory(c) /\ PlaceFits(c)
    BY DEF HistoryInv, OrderInv, FreshInv, LockedInv, CallTypes
<1>2. /\ StoreAns' = [StoreAns EXCEPT ![c] = IF Over(c)' THEN ans'[c] ELSE "none"]
      /\ StoreListed' = [StoreListed EXCEPT ![c] =
                IF Over(c)' /\ req'[c].op = "list" THEN listed'[c] ELSE <<>>]
    BY <1>1, ShownOf
<1>3. /\ StoreAns[c] = IF Over(c) THEN ans[c] ELSE "none"
      /\ StoreListed[c] = IF Over(c) /\ req[c].op = "list" THEN listed[c] ELSE <<>>
      /\ StoreAns = [d \in Calls |-> StoreAns[d]]
      /\ StoreListed = [d \in Calls |-> StoreListed[d]]
    BY ShownHere
<1>4. /\ ~UnlockWrite(c) => before' = before
      /\ ~entered' => before' = rules'
    BY BeforeStays
<1>5. NoRequest \notin Requests
    BY DEF NoRequest, Requests
<1>6. CASE Invoke(c)
    <2>1. /\ ~Over(c) /\ ~Over(c)' /\ req[c] = NoRequest
          /\ \E r \in Requests : req' = [req EXCEPT ![c] = r]
        BY <1>1, <1>6 DEF Invoke, Go, Over, CallHistory
    <2>2. before' = before
        BY <1>4, <1>6 DEF Invoke, UnlockWrite
    <2>3. StoreAns' = StoreAns /\ StoreListed' = StoreListed
        BY <1>2, <1>3, <2>1
    <2>4. Store!Invoke(c)
        BY <2>1, <2>2, <2>3, StoreRequests DEF Store!Invoke
    <2> QED
        BY <2>4 DEF Store!Next
<1>7. CASE Return(c)
    <2>1. /\ Over(c) /\ ~Over(c)' /\ ans[c] # "none" /\ req' = [req EXCEPT ![c] = NoRequest]
        BY <1>1, <1>7 DEF Return, Go, Over, CallHistory
    <2>2. before' = before
        BY <1>4, <1>7 DEF Return, UnlockWrite
    <2>3. Store!Return(c)
        BY <1>2, <1>3, <2>1, <2>2, StoreRequests DEF Store!Return, Store!Reply
    <2> QED
        BY <2>3 DEF Store!Next
<1>8. CASE RejectPlace(c)
    <2>1. /\ ~Over(c) /\ Over(c)' /\ req' = req /\ ans'[c] = "error" /\ req[c] \in Requests
          /\ req[c].place = BadPlace
        BY <1>1, <1>8 DEF RejectPlace, Go, Answer, Over, CallHistory
    <2>2. before' = before
        BY <1>4, <1>8 DEF RejectPlace, UnlockWrite
    <2>3. req[c].op # "list"
        BY <2>1 DEF Requests, Anywhere, BadPlace
    <2>4. StoreListed' = StoreListed /\ StoreAns[c] = "none"
        BY <1>2, <1>3, <2>1, <2>3
    <2>5. Store!Refuse(c)
        BY <1>2, <1>5, <2>1, <2>2, <2>4, StoreRequests DEF Store!Refuse, Store!Open, Store!Reply
    <2> QED
        BY <2>5 DEF Store!Next
<1>9. CASE ListRules(c)
    <2>1. /\ ~Over(c) /\ Over(c)' /\ req' = req /\ req[c] \in Requests /\ req[c].op = "list"
          /\ c \in readers
          /\ \/ listed' = [listed EXCEPT ![c] = rules] /\ ans'[c] = "ok"
             \/ listed' = listed /\ ans'[c] = "error"
        BY <1>1, <1>9 DEF ListRules, HoldsRead, Go, Answer, Over, CallHistory
    <2>2. before' = before
        BY <1>4, <1>9 DEF ListRules, UnlockWrite
    <2>3. before = rules
        <3>1. ~entered
            BY <1>1, <2>1 DEF LockedInv, LockDiscipline, MuInv
        <3> QED
            BY <3>1 DEF HistoryInv
    <2>4. listed = [d \in Calls |-> listed[d]] /\ listed[c] = <<>>
        BY <1>1, <1>9 DEF ListRules, CallHistory, LockedInv, CallTypes
    <2>5. \/ StoreListed' = [StoreListed EXCEPT ![c] = before] /\ ans'[c] = "ok"
          \/ StoreListed' = StoreListed /\ ans'[c] = "error"
        <3>1. CASE listed' = [listed EXCEPT ![c] = rules] /\ ans'[c] = "ok"
            BY <1>2, <2>1, <2>3, <2>4, <3>1
        <3>2. CASE listed' = listed /\ ans'[c] = "error"
            BY <1>2, <1>3, <2>1, <2>4, <3>2
        <3> QED
            BY <2>1, <3>1, <3>2
    <2>6. Store!List(c)
        BY <1>2, <1>3, <1>5, <2>1, <2>2, <2>5, StoreRequests
        DEF Store!List, Store!Open, Store!Reply
    <2> QED
        BY <2>6 DEF Store!Next
<1>10. CASE UnlockWrite(c)
    <2>1. /\ pc[c] = "unlock" /\ pc'[c] = "answered" /\ UNCHANGED <<rules, req, listed, ans>>
          /\ ~entered'
        BY <1>1, <1>10 DEF UnlockWrite, Unlock, Go
    <2>2. /\ req[c] \in Requests /\ req[c].op \in {"create", "move", "delete"}
          /\ req[c].place # BadPlace /\ ans[c] \in {"ok", "error", "positioning failed"}
          /\ rules \in Store!Outcomes(before, req[c], ans[c])
        BY <1>1, <2>1
        DEF CallHistory, PlaceFits, LockedInv, StepFits, WriteSteps, Answers
    <2>3. ~Over(c) /\ Over(c)' /\ before' = rules
        BY <1>4, <2>1 DEF Over
    <2>4. StoreListed' = StoreListed /\ StoreAns[c] = "none"
        BY <1>2, <1>3, <2>1, <2>2, <2>3
    <2>5. StoreAns' = [StoreAns EXCEPT ![c] = ans[c]]
        BY <1>2, <2>1, <2>3
    <2>6. Store!Change(c)
        BY <1>5, <2>1, <2>2, <2>3, <2>4, <2>5, StoreRequests
        DEF Store!Change, Store!Open, Store!Reply
    <2> QED
        BY <2>6 DEF Store!Next
<1>11. CASE UnlockRead(c)
    <2>1. Over(c) /\ Over(c)' /\ UNCHANGED <<req, listed, ans>> /\ before' = before
        BY <1>1, <1>4, <1>11 DEF UnlockRead, UnlockWrite, Go, Over
    <2>2. StoreAns' = StoreAns /\ StoreListed' = StoreListed
        BY <1>2, <1>3, <2>1
    <2> QED
        BY <2>1, <2>2 DEF Store!vars
<1>12. CASE \/ LockWrites(c) \/ EnterWrite(c) \/ RLockReads(c) \/ CreateRule(c) \/ ReadBack(c)
            \/ CheckRule(c) \/ PlanMove(c) \/ MoveRule(c) \/ DeleteRule(c)
    <2>1. pc[c] \notin {"unlock", "runlock", "answered"} /\ req' = req
        BY <1>12 DEF LockWrites, EnterWrite, RLockReads, CreateRule, ReadBack, CheckRule,
                     PlanMove, MoveRule, DeleteRule, Send
    <2>2. pc'[c] \notin {"runlock", "answered"}
        <3>1. CASE EnterWrite(c)
            BY <1>1, <3>1 DEF EnterWrite, Go, LockedInv, StepFits
        <3> QED
            BY <1>1, <1>12, <3>1
            DEF LockWrites, RLockReads, CreateRule, ReadBack, CheckRule, PlanMove, MoveRule,
                DeleteRule, Send, Go
    <2>3. before' = before
        BY <1>4, <2>1 DEF UnlockWrite
    <2>4. StoreAns' = StoreAns /\ StoreListed' = StoreListed
        BY <1>2, <1>3, <2>1, <2>2 DEF Over
    <2> QED
        BY <2>1, <2>3, <2>4 DEF Store!vars
<1> QED
    BY <1>6, <1>7, <1>8, <1>9, <1>10, <1>11, <1>12 DEF Step

(* ImplementsRuleStore: with its place, its failures and its lost answers, *)
(* a rule create, move or delete is one step of the rulebase for everybody *)
(* else, and its answer tells which of the outcomes RuleStore allows there *)
(* was (ruleCreateHandler, moveHandler and deleteCore under LockWrites).   *)
THEOREM RuleStoreImplemented == HistorySpec => ImplementsRuleStore
<1>1. HistoryInv /\ HistoryInv' /\ [HistoryNext]_historyVars => [Store!Next]_Store!vars
    <2> SUFFICES ASSUME HistoryInv, HistoryInv', [HistoryNext]_historyVars
                 PROVE  [Store!Next]_Store!vars
        OBVIOUS
    <2>1. CASE UNCHANGED historyVars
        BY <2>1 DEF historyVars, vars, muVars, Store!vars, StoreAns, StoreListed, Over
    <2>2. CASE HistoryNext
        <3>1. PICK c \in Calls : Invoke(c) \/ Step(c) \/ Return(c)
            BY <2>2 DEF HistoryNext
        <3>2. LockedInv' /\ before' = (IF entered' THEN before ELSE rules')
            BY <2>2 DEF HistoryNext, HistoryInv, OrderInv, FreshInv
        <3> QED
            BY <3>1, <3>2, StoreStep
    <2> QED
        BY <2>1, <2>2
<1> QED
    BY <1>1, StoreStart, HistoryStart, HistoryStep, PTL
    DEF HistorySpec, ImplementsRuleStore, Store!Spec

-----------------------------------------------------------------------------
(* Nobody is stuck, whatever fails.                                        *)

(* A call that cannot make its next step: Lock and RLock block.            *)
Waits(c) ==
    \/ /\ pc[c] = "start" /\ writer # NoCall
       /\ req[c].op \in {"create", "move", "delete"} /\ req[c].place # BadPlace
    \/ pc[c] = "draining" /\ readers # {}
    \/ pc[c] = "reading" /\ c \notin readers

NobodyStuck ==
    \A c \in Calls :
        /\ HoldsWrite(c) \/ HoldsRead(c) => ~Waits(c)
        /\ Waits(c) => \E d \in Calls :
              ~Waits(d) /\ (HoldsWrite(d) \/ HoldsRead(d) \/ pc[d] = "draining")
        /\ pc[c] = "draining" /\ ~Waits(c) => writer = c /\ ~entered /\ readers = {}
        /\ pc[c] = "unlock" => HoldsWrite(c)
        /\ pc[c] = "runlock" => HoldsRead(c)

(* The writer slot belongs to a call that drains or is inside.             *)
SlotOwned == \A c \in Calls : writer = c => pc[c] \in {"draining"} \cup WriteSteps

LEMMA SlotInit == Init => SlotOwned
BY NoCallAssumption DEF Init, MuInit, SlotOwned

LEMMA SlotNext == LockedInv /\ SlotOwned /\ [Next]_vars => SlotOwned'
<1> SUFFICES ASSUME LockedInv, SlotOwned, [Next]_vars PROVE SlotOwned'
    OBVIOUS
<1>a. pc \in [Calls -> Steps] /\ \A c \in Calls : c # NoCall
    BY NoCallAssumption DEF LockedInv, CallTypes
<1>b. LockDiscipline
    BY DEF LockedInv
(* Steps beside the lock: the slot stays, and a call inside stays inside.  *)
<1>1. ASSUME NEW c \in Calls, NEW s, Go(c, s), UNCHANGED muVars,
             pc[c] \in WriteSteps => s \in WriteSteps,
             pc[c] # "draining"
      PROVE  SlotOwned'
    BY <1>1, <1>a DEF SlotOwned, Go, muVars
<1>2. ASSUME NEW c \in Calls, Invoke(c) \/ RejectPlace(c) \/ ListRules(c) \/ Return(c)
      PROVE  SlotOwned'
  <2>1. \E s : Go(c, s) /\ pc[c] \in {"idle", "start", "reading", "answered"}
    BY <1>2 DEF Invoke, RejectPlace, ListRules, Return
  <2>2. UNCHANGED muVars
    BY <1>2 DEF Invoke, RejectPlace, ListRules, Return
  <2> QED
    BY <2>1, <2>2, <1>1 DEF WriteSteps
<1>3. ASSUME NEW c \in Calls,
             \/ CreateRule(c) \/ ReadBack(c) \/ CheckRule(c)
             \/ PlanMove(c) \/ MoveRule(c) \/ DeleteRule(c)
      PROVE  SlotOwned'
  <2>1. \E s \in {"readback", "plan", "move", "unlock"} : Go(c, s)
    BY <1>3 DEF CreateRule, ReadBack, CheckRule, PlanMove, MoveRule, DeleteRule, Send
  <2>2. UNCHANGED muVars /\ pc[c] # "draining"
    BY <1>3 DEF CreateRule, ReadBack, CheckRule, PlanMove, MoveRule, DeleteRule, Send
  <2> QED
    BY <2>1, <2>2, <1>1 DEF WriteSteps
<1>4. ASSUME NEW c \in Calls, LockWrites(c) PROVE SlotOwned'
    BY <1>4, <1>a DEF LockWrites, LockClaim, SlotOwned, Go
<1>5. ASSUME NEW c \in Calls, EnterWrite(c) PROVE SlotOwned'
  <2>1. \E s \in {"create", "check", "delete"} : Go(c, s)
    BY <1>5 DEF EnterWrite, LockedInv, StepFits
  <2> QED
    BY <1>5, <2>1, <1>a DEF EnterWrite, LockEnter, SlotOwned, Go, WriteSteps
<1>6. ASSUME NEW c \in Calls, UnlockWrite(c) PROVE SlotOwned'
    BY <1>6, <1>a DEF UnlockWrite, Unlock, SlotOwned
<1>7. ASSUME NEW c \in Calls, RLockReads(c) \/ UnlockRead(c) PROVE SlotOwned'
    BY <1>7, <1>a
    DEF RLockReads, UnlockRead, RLock, RUnlock, SlotOwned, Go, WriteSteps
<1>8. ASSUME UNCHANGED vars PROVE SlotOwned'
    BY <1>8 DEF vars, SlotOwned, muVars
<1> QED
    BY <1>2, <1>3, <1>4, <1>5, <1>6, <1>7, <1>8 DEF Next, Step

(* A call that holds the lock does not wait, and whoever waits, waits for  *)
(* such a call or for a writer that may enter.                             *)
LEMMA HoldersGo == LockedInv /\ SlotOwned => NobodyStuck
<1> SUFFICES ASSUME LockedInv, SlotOwned PROVE NobodyStuck
    OBVIOUS
<1>a. MuInv /\ LockDiscipline
    BY DEF LockedInv, LockDiscipline
<1>1. ASSUME NEW c \in Calls, HoldsWrite(c) \/ HoldsRead(c) PROVE ~Waits(c)
  <2>1. CASE HoldsWrite(c)
    BY <2>1, <1>a DEF LockDiscipline, Waits, WriteSteps
  <2>2. CASE HoldsRead(c)
    BY <2>2, <1>a DEF LockDiscipline, Waits, HoldsRead
  <2> QED
    BY <1>1, <2>1, <2>2
<1>2. ASSUME NEW c \in Calls, Waits(c)
      PROVE  \E d \in Calls :
                ~Waits(d) /\ (HoldsWrite(d) \/ HoldsRead(d) \/ pc[d] = "draining")
  <2>1. writer # NoCall \/ readers # {}
    BY <1>2, <1>a DEF Waits, LockDiscipline, MuInv
  <2>2. PICK d \in Calls : \/ HoldsWrite(d)
                           \/ HoldsRead(d)
                           \/ writer = d /\ ~entered /\ readers = {}
    BY <2>1, <1>a, LockNeverIdles
  <2>3. CASE HoldsWrite(d) \/ HoldsRead(d)
    BY <2>3, <1>1
  <2>4. CASE writer = d /\ ~entered /\ readers = {}
    <3>1. pc[d] = "draining"
      BY <2>4, <1>a DEF SlotOwned, LockDiscipline, HoldsWrite, WriteSteps
    <3> QED
      BY <2>4, <3>1 DEF Waits
  <2> QED
    BY <2>2, <2>3, <2>4
<1>3. ASSUME NEW c \in Calls
      PROVE  /\ pc[c] = "draining" /\ ~Waits(c) => writer = c /\ ~entered /\ readers = {}
             /\ pc[c] = "unlock" => HoldsWrite(c)
             /\ pc[c] = "runlock" => HoldsRead(c)
    BY <1>a DEF LockDiscipline, Waits, WriteSteps, HoldsRead
<1> QED
    BY <1>1, <1>2, <1>3 DEF NobodyStuck

(* NobodyStuck: no rule tool waits for a call that waits itself, a create  *)
(* between its two writes included, and each gives back the lock that it   *)
(* took (defer d.LockWrites()(), policy_tools.go).                         *)
THEOREM NobodyIsStuck == Spec => []NobodyStuck
<1>1. LockedInv /\ [Next]_vars => LockedInv'
    BY LockedNext
<1>2. LockedInv /\ SlotOwned /\ [Next]_vars => SlotOwned'
    BY SlotNext
<1> QED
    BY <1>1, <1>2, LockedInit, SlotInit, HoldersGo, PTL DEF Spec

(* How much of a call is left at each of its steps.                        *)
Left(step) ==
    CASE step = "idle" -> 0
      [] step = "answered" -> 1
      [] step \in {"unlock", "runlock"} -> 2
      [] step \in {"move", "delete", "reading"} -> 3
      [] step = "plan" -> 4
      [] step \in {"readback", "check"} -> 5
      [] step = "create" -> 6
      [] step = "draining" -> 7
      [] step = "start" -> 8

CallsRunDown ==
    [][\A c \in Calls :
        /\ Step(c) => Left(pc'[c]) < Left(pc[c])
        /\ pc[c] # "idle" => Left(pc'[c]) <= Left(pc[c])]_vars

(* Whatever it is answered, a call's step takes it on.                     *)
LEMMA StepGoesDown ==
    ASSUME LockedInv, NEW c \in Calls, Step(c)
    PROVE  \E s \in Steps : Go(c, s) /\ Left(s) < Left(pc[c])
<1>1. CASE RejectPlace(c)
    BY <1>1 DEF RejectPlace, Left, Steps
<1>2. CASE LockWrites(c) \/ RLockReads(c)
    BY <1>2 DEF LockWrites, RLockReads, Left, Steps
<1>3. CASE EnterWrite(c)
  <2>1. Go(c, "create") \/ Go(c, "check") \/ Go(c, "delete")
    BY <1>3 DEF EnterWrite, LockedInv, StepFits
  <2>2. pc[c] = "draining"
    BY <1>3 DEF EnterWrite
  <2> QED
    BY <2>1, <2>2 DEF Left, Steps
<1>4. CASE UnlockWrite(c) \/ UnlockRead(c) \/ ListRules(c)
  <2>1. \/ pc[c] \in {"unlock", "runlock"} /\ Go(c, "answered")
        \/ pc[c] = "reading" /\ Go(c, "runlock")
    BY <1>4 DEF UnlockWrite, UnlockRead, ListRules
  <2> QED
    BY <2>1 DEF Left, Steps
<1>5. CASE CreateRule(c) \/ ReadBack(c) \/ CheckRule(c)
  <2>1. \/ pc[c] = "create" /\ Go(c, "readback")
        \/ pc[c] \in {"readback", "check"} /\ Go(c, "plan")
        \/ pc[c] \in {"create", "readback", "check"} /\ Go(c, "unlock")
    BY <1>5 DEF CreateRule, ReadBack, CheckRule, Send
  <2> QED
    BY <2>1 DEF Left, Steps
<1>6. CASE PlanMove(c) \/ MoveRule(c) \/ DeleteRule(c)
  <2>1. \/ pc[c] = "plan" /\ Go(c, "move")
        \/ pc[c] \in {"plan", "move", "delete"} /\ Go(c, "unlock")
    BY <1>6 DEF PlanMove, MoveRule, DeleteRule, Send
  <2> QED
    BY <2>1 DEF Left, Steps
<1> QED
    BY <1>1, <1>2, <1>3, <1>4, <1>5, <1>6 DEF Step

(* CallsRunDown: a call is over after eight steps of its own, whatever is  *)
(* refused or lost on the way, and nobody else takes it back               *)
(* (ruleCreateHandler and moveHandler try nothing twice).                  *)
THEOREM CallsAreShort == Spec => CallsRunDown
<1>1. ASSUME LockedInv, [Next]_vars
      PROVE  \A c \in Calls :
                /\ Step(c) => Left(pc'[c]) < Left(pc[c])
                /\ pc[c] # "idle" => Left(pc'[c]) <= Left(pc[c])
  <2>a. pc \in [Calls -> Steps] /\ \A s \in Steps : Left(s) \in Int
    BY <1>1 DEF LockedInv, CallTypes, Steps, Left
  <2>1. ASSUME NEW c \in Calls, Step(c) PROVE Left(pc'[c]) < Left(pc[c])
    BY <1>1, <2>1, <2>a, StepGoesDown DEF Go
  <2>2. ASSUME NEW c \in Calls, pc[c] # "idle" PROVE Left(pc'[c]) <= Left(pc[c])
    <3>1. CASE pc'[c] = pc[c]
      BY <3>1, <2>a
    <3>2. CASE Step(c)
      <4>1. PICK s \in Steps : Go(c, s) /\ Left(s) < Left(pc[c])
        BY <1>1, <3>2, StepGoesDown
      <4>2. pc'[c] = s /\ Left(s) \in Int /\ Left(pc[c]) \in Int
        BY <4>1, <2>a DEF Go
      <4> QED
        BY <4>1, <4>2
    <3>3. CASE Return(c)
      <4>1. pc[c] = "answered" /\ pc'[c] = "idle"
        BY <3>3, <2>a DEF Return, Go
      <4> QED
        BY <4>1 DEF Left
    <3>4. ASSUME NEW d \in Calls, d # c, Invoke(d) \/ Step(d) \/ Return(d)
          PROVE  pc'[c] = pc[c]
      <4>1. \E s : Go(d, s)
        BY <1>1, <3>4, StepGoesDown DEF Invoke, Return
      <4> QED
        BY <4>1, <3>4, <2>a DEF Go
    <3>5. ASSUME UNCHANGED vars PROVE pc'[c] = pc[c]
      BY <3>5 DEF vars
    <3>6. ~Invoke(c)
      BY <2>2 DEF Invoke
    <3> QED
      BY <1>1, <3>1, <3>2, <3>3, <3>4, <3>5, <3>6 DEF Next
  <2> QED
    BY <2>1, <2>2
<1>2. LockedInv /\ [Next]_vars => LockedInv'
    BY LockedNext
<1> QED
    BY <1>1, <1>2, LockedInit, PTL DEF Spec, CallsRunDown
=============================================================================
