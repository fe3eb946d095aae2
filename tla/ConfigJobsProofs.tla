-------------------------- MODULE ConfigJobsProofs --------------------------
(***************************************************************************)
(* Theorems about ConfigJobs, for every set of calls, configs and tools    *)
(* and any number of jobs.                                                 *)
(*                                                                         *)
(* LockedInv (types, the lock discipline, each call at a step of its tool) *)
(* is inductive by itself.  JobInv adds the device's queue and, for each   *)
(* call that waits for a job or has a good result of one, that its job is  *)
(* the last of the queue and that nothing has moved the configs under it.  *)
(***************************************************************************)
EXTENDS ConfigJobs, WriteMuProofs, Integers

StepFits ==
    \A c \in Calls :
        /\ pc[c] \in {"draining", "inside", "wait", "unlock"} => op[c] \in WriteTools
        /\ pc[c] = "wait" => op[c] \in JobTools /\ job[c] \in JobIds

LockedInv == TypeOK /\ LockDiscipline /\ StepFits

InsideSteps == {"inside", "wait", "unlock"}

(* The handlers start with the lock free and every call idle.              *)
LEMMA LockedInit == Init => LockedInv
<1> SUFFICES ASSUME Init PROVE LockedInv
    OBVIOUS
<1>1. MuInv
    BY MuInitInv DEF Init
<1>2. TypeOK
    BY <1>1 DEF Init, TypeOK, MuInv, Steps, JobTools, JobStates, Answers
<1>3. LockDiscipline
    BY <1>1, NoCallAssumption DEF Init, LockDiscipline, MuInit, HoldsWrite
<1>4. StepFits
    BY DEF Init, StepFits
<1> QED
    BY <1>2, <1>3, <1>4 DEF LockedInv

(* At most one call is inside a write handler, and then no reader is.      *)
LEMMA OneInside ==
    ASSUME LockedInv, NEW c \in Calls, NEW d \in Calls,
           pc[c] \in InsideSteps, pc[d] \in InsideSteps
    PROVE  c = d /\ readers = {}
BY DEF LockedInv, LockDiscipline, HoldsWrite, MuInv, InsideSteps

(* A step inside the write lock leaves the lock as it was.                 *)
LEMMA InsideWrite ==
    ASSUME LockedInv, NEW c \in Calls, NEW s \in InsideSteps,
           pc[c] \in InsideSteps, Go(c, s), UNCHANGED muVars
    PROVE  LockDiscipline'
<1>1. MuInv'
    BY MuStutter DEF LockedInv, LockDiscipline
<1>2. pc \in [Calls -> Steps]
    BY DEF LockedInv, TypeOK
<1> QED
    BY <1>1, <1>2 DEF LockedInv, LockDiscipline, Go, muVars, InsideSteps, HoldsWrite

(* A return leaves the data alone.                                         *)
LEMMA ReturnType ==
    ASSUME TypeOK, NEW c \in Calls, Return(c), MuTypeOK'
    PROVE  TypeOK'
BY DEF Return, TypeOK, Go, Answer, Steps, Answers, device

LEMMA StartOfType ==
    ASSUME TypeOK, NEW j \in JobIds, StartOf(j)
    PROVE  jobs' \in [JobIds -> [kind : JobTools, st : JobStates, config : Configs]]
<1>1. jobs[j] \in [kind : JobTools, st : JobStates, config : Configs]
    BY DEF TypeOK
<1>2. (IF jobs[j].kind = "push" THEN running ELSE candidate) \in Configs
    BY DEF TypeOK
<1> QED
    BY <1>1, <1>2 DEF StartOf, TypeOK, JobStates

(* Every step keeps the lock discipline.                                   *)
LEMMA LockedNext == LockedInv /\ [Next]_vars => LockedInv'
<1> SUFFICES ASSUME LockedInv, [Next]_vars PROVE LockedInv'
    OBVIOUS
<1> USE DEF LockedInv
<1>a. MuInv /\ MuTypeOK
    BY DEF LockDiscipline, TypeOK
<1>b. /\ pc \in [Calls -> Steps] /\ op \in [Calls -> WriteTools \cup ReadTools \cup {"none"}]
      /\ job \in [Calls -> JobIds \cup {NoJob}]
      /\ \A c \in Calls : c # NoCall
    BY NoCallAssumption DEF TypeOK
<1>1. ASSUME NEW c \in Calls, Invoke(c) PROVE LockedInv'
  <2>1. TypeOK'
    BY <1>1, <1>a, ToolsAssumption DEF Invoke, TypeOK, Go, Steps, muVars, MuTypeOK, device
  <2>2. LockDiscipline'
    BY <1>1, <1>a, <1>b, MuStutter DEF Invoke, LockDiscipline, Go, HoldsWrite, muVars
  <2>3. StepFits'
    BY <1>1, <1>b DEF Invoke, StepFits, Go
  <2> QED
    BY <2>1, <2>2, <2>3
<1>2. ASSUME NEW c \in Calls, RejectPush(c) PROVE LockedInv'
  <2>1. TypeOK'
    BY <1>2, <1>a, ReturnType DEF RejectPush, muVars, MuTypeOK
  <2>2. LockDiscipline'
    BY <1>2, <1>a, <1>b, MuStutter
    DEF RejectPush, Return, LockDiscipline, Go, HoldsWrite, muVars
  <2>3. StepFits'
    BY <1>2, <1>b DEF RejectPush, Return, StepFits, Go
  <2> QED
    BY <2>1, <2>2, <2>3
<1>3. ASSUME NEW c \in Calls, LockWrites(c) PROVE LockedInv'
  <2>1. TypeOK'
    BY <1>3, <1>a, LockClaimInv DEF LockWrites, TypeOK, Go, Steps, MuInv, device
  <2>2. LockDiscipline'
    BY <1>3, <1>a, <1>b, LockClaimInv
    DEF LockWrites, LockClaim, LockDiscipline, Go, HoldsWrite
  <2>3. StepFits'
    BY <1>3, <1>b DEF LockWrites, StepFits, Go
  <2> QED
    BY <2>1, <2>2, <2>3
<1>4. ASSUME NEW c \in Calls, EnterWrite(c) PROVE LockedInv'
  <2>1. TypeOK'
    BY <1>4, <1>a, LockEnterInv DEF EnterWrite, TypeOK, Go, Steps, MuInv, device
  <2>2. LockDiscipline'
    BY <1>4, <1>a, <1>b, LockEnterInv
    DEF EnterWrite, LockEnter, LockDiscipline, Go, HoldsWrite
  <2>3. StepFits'
    BY <1>4, <1>b DEF EnterWrite, StepFits, Go
  <2> QED
    BY <2>1, <2>2, <2>3
<1>5. ASSUME NEW c \in Calls, UnlockWrite(c) PROVE LockedInv'
  <2>1. TypeOK'
    BY <1>5, <1>a, UnlockInv, ReturnType DEF UnlockWrite, MuInv
  <2>2. LockDiscipline'
    BY <1>5, <1>a, <1>b, UnlockInv
    DEF UnlockWrite, Unlock, Return, LockDiscipline, Go, HoldsWrite, MuInv
  <2>3. StepFits'
    BY <1>5, <1>b DEF UnlockWrite, Return, StepFits, Go
  <2> QED
    BY <2>1, <2>2, <2>3
<1>6. ASSUME NEW c \in Calls, RLockReads(c) PROVE LockedInv'
  <2>0. c \notin readers
    BY <1>6 DEF RLockReads, LockDiscipline
  <2>1. TypeOK'
    BY <1>6, <2>0, <1>a, RLockInv DEF RLockReads, TypeOK, Go, Steps, MuInv, device
  <2>2. LockDiscipline'
    BY <1>6, <2>0, <1>a, <1>b, RLockInv DEF RLockReads, LockDiscipline, Go, HoldsWrite
  <2>3. StepFits'
    BY <1>6, <1>b DEF RLockReads, StepFits, Go
  <2> QED
    BY <2>1, <2>2, <2>3
<1>7. ASSUME NEW c \in Calls, UnlockRead(c) PROVE LockedInv'
  <2>1. TypeOK'
    BY <1>7, <1>a, RUnlockInv, ReturnType DEF UnlockRead, MuInv
  <2>2. LockDiscipline'
    BY <1>7, <1>a, <1>b, RUnlockInv
    DEF UnlockRead, Return, LockDiscipline, Go, HoldsWrite, MuInv
  <2>3. StepFits'
    BY <1>7, <1>b DEF UnlockRead, Return, StepFits, Go
  <2> QED
    BY <2>1, <2>2, <2>3
<1>8. ASSUME NEW c \in Calls, StartJob(c) PROVE LockedInv'
  <2>1. op[c] \in JobTools
    BY <1>8 DEF StartJob
  <2>2. TypeOK'
    <3>1. ASSUME NEW j \in JobIds, Enqueue(j, op[c])
          PROVE  /\ jobs' \in [JobIds -> [kind : JobTools, st : JobStates, config : Configs]]
                 /\ candidate' \in Configs /\ running' \in Configs /\ pushed' \in Configs
        BY <2>1, <3>1 DEF Enqueue, TypeOK, JobStates
    <3>2. /\ jobs' \in [JobIds -> [kind : JobTools, st : JobStates, config : Configs]]
          /\ candidate' \in Configs /\ running' \in Configs /\ pushed' \in Configs
        BY <1>8, <3>1 DEF StartJob, TypeOK, device
    <3>3. pc' \in [Calls -> Steps] /\ job' \in [Calls -> JobIds \cup {NoJob}]
          /\ ans' \in [Calls -> Answers]
        BY <1>8 DEF StartJob, TypeOK, Go, Answer, Steps, Answers
    <3> QED
        BY <1>8, <1>a, <3>2, <3>3 DEF StartJob, TypeOK, muVars, MuTypeOK
  <2>3. LockDiscipline'
    BY <1>8, InsideWrite DEF StartJob, InsideSteps
  <2>4. StepFits'
    BY <1>8, <2>1, <1>b DEF StartJob, StepFits, Go
  <2> QED
    BY <2>2, <2>3, <2>4
<1>9. ASSUME NEW c \in Calls, PollJob(c) \/ WaitEnds(c) PROVE LockedInv'
  <2>1. TypeOK'
    BY <1>9, <1>a
    DEF PollJob, WaitEnds, TypeOK, Go, Answer, Steps, muVars, MuTypeOK, device, Answers
  <2>2. LockDiscipline'
    BY <1>9, InsideWrite DEF PollJob, WaitEnds, InsideSteps
  <2>3. StepFits'
    BY <1>9, <1>b DEF PollJob, WaitEnds, StepFits, Go, WriteTools
  <2> QED
    BY <2>1, <2>2, <2>3
<1>10. ASSUME NEW c \in Calls, Revert(c) \/ Edit(c) PROVE LockedInv'
  <2>1. PICK config \in Configs : Write(c, config)
    BY <1>10 DEF Revert, Edit, TypeOK
  <2>2. TypeOK'
    BY <2>1, <1>a DEF Write, TypeOK, Go, Answer, Steps, muVars, MuTypeOK, Answers
  <2>3. LockDiscipline'
    BY <2>1, InsideWrite DEF Write, InsideSteps
  <2>4. StepFits'
    BY <2>1, <1>b DEF Write, StepFits, Go
  <2> QED
    BY <2>2, <2>3, <2>4
<1>11. ASSUME NEW c \in Calls, ConfigDiff(c) \/ JobStatus(c) PROVE LockedInv'
  <2>1. TypeOK'
    BY <1>11, <1>a
    DEF ConfigDiff, JobStatus, TypeOK, Go, Answer, Steps, muVars, MuTypeOK, device,
        Answers, JobStates
  <2>2. LockDiscipline'
    <3>1. /\ UNCHANGED muVars /\ Go(c, "runlock")
          /\ pc[c] = "reading" /\ c \in readers
        BY <1>11 DEF ConfigDiff, JobStatus, HoldsRead
    <3> QED
        BY <3>1, <1>a, <1>b, MuStutter DEF LockDiscipline, Go, HoldsWrite, muVars
  <2>3. StepFits'
    BY <1>11, <1>b DEF ConfigDiff, JobStatus, StepFits, Go
  <2> QED
    BY <2>1, <2>2, <2>3
<1>12. ASSUME NEW j \in JobIds, StartOf(j) PROVE LockedInv'
  <2>1. TypeOK'
    BY <1>12, <1>a, StartOfType DEF StartOf, TypeOK, muVars, MuTypeOK
  <2>2. LockDiscipline' /\ StepFits'
    BY <1>12, <1>a, MuStutter DEF StartOf, LockDiscipline, StepFits, HoldsWrite, muVars
  <2> QED
    BY <2>1, <2>2
<1>13. ASSUME NEW j \in JobIds, FinishOf(j) PROVE LockedInv'
  <2>1. TypeOK'
    BY <1>13, <1>a DEF FinishOf, TypeOK, muVars, MuTypeOK, JobStates
  <2>2. LockDiscipline' /\ StepFits'
    BY <1>13, <1>a, MuStutter DEF FinishOf, LockDiscipline, StepFits, HoldsWrite, muVars
  <2> QED
    BY <2>1, <2>2
<1>14. CASE UNCHANGED vars
  BY <1>14, <1>a, MuStutter
  DEF vars, muVars, TypeOK, MuTypeOK, LockDiscipline, StepFits, HoldsWrite
<1> QED
  BY <1>1, <1>2, <1>3, <1>4, <1>5, <1>6, <1>7, <1>8, <1>9, <1>10, <1>11, <1>12, <1>13,
     <1>14 DEF Next, Step

(* Types hold, and the write lock and the shared lock exclude each other,  *)
(* whatever jobs do.                                                       *)
THEOREM LockedHolds == Spec => []LockedInv
BY LockedInit, LockedNext, PTL DEF Spec

(* LockDiscipline: a call holds the write lock from its first request to   *)
(* the end of its wait, and no read is inside meanwhile (tools.go:26-30).  *)
THEOREM LockDisciplineHolds == Spec => [](TypeOK /\ LockDiscipline)
<1>1. LockedInv => TypeOK /\ LockDiscipline
    BY DEF LockedInv
<1> QED
    BY <1>1, LockedHolds, PTL

-----------------------------------------------------------------------------
(* The watched job.                                                        *)

(* A call that waits for its job, or has had a good result of it.          *)
Good(c) == pc[c] = "unlock" /\ ans[c] = "ok" /\ op[c] \in JobTools
Watching(c) == pc[c] = "wait" \/ Good(c)

(* What the device works on is still what it was given.                    *)
Settled(kind, j) ==
    /\ jobs[j].st = "active" =>
        jobs[j].config = (IF kind = "push" THEN running ELSE candidate)
    /\ jobs[j].st = "ok" =>
        /\ kind = "commit" => running = candidate
        /\ kind = "validate" => jobs[j].config = candidate
        /\ kind = "push" => pushed = running

Watched(c) ==
    /\ job[c] \in JobIds
    /\ jobs[job[c]].kind = op[c]
    /\ jobs[job[c]].st # "unused"
    /\ \A j \in JobIds : job[c] < j => jobs[j].st = "unused"
    /\ Settled(op[c], job[c])
    /\ Good(c) => jobs[job[c]].st = "ok"

(* The queue is filled in order, and a job starts when no earlier one is   *)
(* unfinished.                                                             *)
QueueOrder ==
    \A i, j \in JobIds : i < j =>
        /\ jobs[j].st # "unused" => jobs[i].st # "unused"
        /\ jobs[j].st \in {"active", "ok", "fail"} => ~Live(i)

JobInv == QueueOrder /\ \A c \in Calls : Watching(c) => Watched(c)

LEMMA JobInit == Init => JobInv
BY DEF Init, JobInv, QueueOrder, Watching, Good

(* Only the call inside can edit or start a job, so no other one watches.  *)
LEMMA OnlyWatcher ==
    ASSUME LockedInv, NEW c \in Calls, NEW d \in Calls,
           pc[c] \in InsideSteps, Watching(d)
    PROVE  c = d
BY OneInside DEF Watching, Good, InsideSteps

(* A step that leaves the device alone changes no watched job.             *)
LEMMA QuietStep ==
    ASSUME LockedInv, JobInv, UNCHANGED device,
           \A d \in Calls : Watching(d)' =>
                /\ Watching(d) /\ UNCHANGED <<op[d], job[d]>>
                /\ Good(d)' => Good(d) \/ jobs[job[d]].st = "ok"
    PROVE  JobInv'
<1>1. QueueOrder'
    BY DEF JobInv, QueueOrder, Live, device
<1>2. ASSUME NEW d \in Calls, Watching(d)'
      PROVE  Watched(d)'
    <2>1. Watched(d) /\ UNCHANGED <<op[d], job[d]>>
        BY <1>2 DEF JobInv
    <2> QED
        BY <1>2, <2>1 DEF Watched, Settled, device
<1> QED
    BY <1>1, <1>2 DEF JobInv

LEMMA JobNext == LockedInv /\ JobInv /\ [Next]_vars => JobInv'
<1> SUFFICES ASSUME LockedInv, JobInv, [Next]_vars PROVE JobInv'
    OBVIOUS
<1>a. /\ pc \in [Calls -> Steps] /\ op \in [Calls -> WriteTools \cup ReadTools \cup {"none"}]
      /\ job \in [Calls -> JobIds \cup {NoJob}] /\ ans \in [Calls -> Answers]
      /\ jobs \in [JobIds -> [kind : JobTools, st : JobStates, config : Configs]]
    BY DEF LockedInv, TypeOK
<1>b. /\ \A c \in Calls : Watching(c) => Watched(c)
      /\ \A c \in Calls : pc[c] = "wait" => op[c] \in JobTools
    BY DEF JobInv, LockedInv, StepFits
<1>1. ASSUME NEW c \in Calls,
             Invoke(c) \/ RejectPush(c) \/ LockWrites(c) \/ EnterWrite(c) \/ UnlockWrite(c)
                \/ RLockReads(c) \/ UnlockRead(c) \/ ConfigDiff(c) \/ JobStatus(c)
      PROVE  JobInv'
    <2>1. UNCHANGED device
        BY <1>1 DEF Invoke, RejectPush, LockWrites, EnterWrite, UnlockWrite, RLockReads,
                    UnlockRead, ConfigDiff, JobStatus, Return
    <2>2. /\ pc'[c] \notin {"wait", "unlock"}
          /\ \A d \in Calls : d # c =>
                UNCHANGED <<pc[d], op[d], job[d], ans[d]>>
        BY <1>1, <1>a
        DEF Invoke, RejectPush, LockWrites, EnterWrite, UnlockWrite, RLockReads,
            UnlockRead, ConfigDiff, JobStatus, Return, Go, Answer
    <2> QED
        BY <2>1, <2>2, QuietStep DEF Watching, Good
<1>2. ASSUME NEW c \in Calls, PollJob(c) \/ WaitEnds(c)
      PROVE  JobInv'
    <2>1. UNCHANGED device /\ UNCHANGED <<op, job>> /\ pc[c] = "wait"
        BY <1>2 DEF PollJob, WaitEnds
    <2>2. \A d \in Calls : d # c => UNCHANGED <<pc[d], ans[d]>>
        BY <1>2, <1>a DEF PollJob, WaitEnds, Go, Answer
    <2>3. ans'[c] = "ok" => jobs[job[c]].st = "ok"
        BY <1>2, <1>a DEF PollJob, WaitEnds, Go, Answer
    <2> QED
        BY <2>1, <2>2, <2>3, QuietStep DEF Watching, Good
<1>3. ASSUME NEW c \in Calls, Revert(c) \/ Edit(c)
      PROVE  JobInv'
    <2>1. /\ pc[c] = "inside" /\ op[c] \notin JobTools
          /\ pc' = [pc EXCEPT ![c] = "unlock"]
          /\ UNCHANGED <<running, pushed, jobs, op, job>>
        BY <1>3 DEF Revert, Edit, Write, Go, JobTools
    <2>2. \A d \in Calls : ~Watching(d)'
        <3>1. \A d \in Calls : ~Watching(d)
            BY <2>1, OnlyWatcher DEF InsideSteps, Watching, Good
        <3>2. \A d \in Calls : d # c => UNCHANGED ans[d]
            BY <1>3, <1>a DEF Revert, Edit, Write, Answer
        <3> QED
            BY <2>1, <3>1, <3>2, <1>a DEF Watching, Good
    <2>3. QueueOrder'
        BY <2>1 DEF JobInv, QueueOrder, Live
    <2> QED
        BY <2>2, <2>3 DEF JobInv
<1>4. ASSUME NEW c \in Calls, StartJob(c)
      PROVE  JobInv'
    <2>1. pc[c] = "inside" /\ op[c] \in JobTools /\ UNCHANGED op
        BY <1>4 DEF StartJob
    <2>2. \A d \in Calls : ~Watching(d)
        BY <2>1, OnlyWatcher DEF InsideSteps, Watching, Good
    <2>3. /\ \A d \in Calls : d # c => UNCHANGED <<pc[d], job[d], ans[d]>>
          /\ pc'[c] = "unlock" => ans'[c] = "error"
        BY <1>4, <1>a DEF StartJob, Go, Answer
    <2>4. \A d \in Calls : Watching(d)' => d = c /\ pc'[c] = "wait"
        BY <2>1, <2>2, <2>3 DEF Watching, Good
    <2>5. CASE UNCHANGED device /\ pc'[c] # "wait"
        BY <2>4, <2>5 DEF JobInv, QueueOrder, Live, device
    <2>6. ASSUME NEW j \in JobIds, Enqueue(j, op[c]), pc'[c] = "wait" => job'[c] = j
          PROVE  JobInv'
        <3>1. /\ jobs[j].st = "unused"
              /\ \A i \in JobIds : i < j => jobs[i].st # "unused"
              /\ \A i \in JobIds : i # j => jobs'[i] = jobs[i]
              /\ jobs'[j].st = "queued" /\ jobs'[j].kind = op[c]
            BY <2>6, <1>a DEF Enqueue, NextJob
        <3>2. \A i \in JobIds : j < i => jobs[i].st = "unused"
            BY <3>1 DEF JobInv, QueueOrder
        <3>3. \A i \in JobIds : i \in Nat
            BY MaxJobsAssumption DEF JobIds
        <3>4. \A i \in JobIds : Live(i)' => Live(i) \/ i = j
            BY <3>1 DEF Live
        <3>5. QueueOrder'
            <4> SUFFICES ASSUME NEW i \in JobIds, NEW k \in JobIds, i < k
                         PROVE  /\ (jobs[k].st # "unused" => jobs[i].st # "unused")'
                                /\ (jobs[k].st \in {"active", "ok", "fail"} => ~Live(i))'
                BY DEF QueueOrder
            <4>1. CASE k = j
                BY <3>1, <3>3, <4>1
            <4>2. CASE k # j /\ i # j
                BY <3>1, <3>4, <4>2 DEF JobInv, QueueOrder
            <4>3. CASE i = j
                BY <3>1, <3>2, <3>3, <4>3
            <4> QED
                BY <4>1, <4>2, <4>3
        <3>6. ASSUME Watching(c)'
              PROVE  Watched(c)'
            <4>1. pc'[c] = "wait" /\ job'[c] = j
                BY <2>4, <2>6, <3>6
            <4> QED
                BY <2>1, <3>1, <3>2, <3>3, <4>1 DEF Watched, Settled, Good
        <3> QED
            BY <2>4, <3>5, <3>6 DEF JobInv
    <2> QED
        BY <1>4, <1>a, <2>5, <2>6 DEF StartJob, Go
<1>5. ASSUME NEW j \in JobIds, StartOf(j)
      PROVE  JobInv'
    <2>1. /\ jobs[j].st = "queued"
          /\ \A i \in JobIds : i < j => ~Live(i)
          /\ \A i \in JobIds : i # j => jobs'[i] = jobs[i]
          /\ jobs'[j].st = "active" /\ jobs'[j].kind = jobs[j].kind
          /\ jobs'[j].config = (IF jobs[j].kind = "push" THEN running ELSE candidate)
          /\ UNCHANGED <<candidate, running, pushed, pc, op, job, ans>>
        BY <1>5, <1>a DEF StartOf
    <2>2. QueueOrder'
        BY <2>1 DEF JobInv, QueueOrder, Live, Unfinished
    <2>3. ASSUME NEW c \in Calls, Watching(c)'
          PROVE  Watched(c)'
        <3>1. Watched(c) /\ (Good(c)' <=> Good(c))
            BY <1>b, <2>1, <2>3 DEF Watching, Good
        <3>2. CASE job[c] = j
            BY <2>1, <3>1, <3>2 DEF Watched, Settled
        <3>3. CASE job[c] # j
            BY <2>1, <3>1, <3>3 DEF Watched, Settled
        <3> QED
            BY <3>2, <3>3
    <2> QED
        BY <2>2, <2>3 DEF JobInv
<1>6. ASSUME NEW j \in JobIds, FinishOf(j)
      PROVE  JobInv'
    <2>1. /\ jobs[j].st = "active"
          /\ \A i \in JobIds : i # j => jobs'[i] = jobs[i]
          /\ jobs'[j].st \in {"ok", "fail"}
          /\ jobs'[j].kind = jobs[j].kind /\ jobs'[j].config = jobs[j].config
          /\ UNCHANGED <<candidate, pc, op, job, ans>>
          /\ jobs'[j].st = "ok" =>
                /\ running' = IF jobs[j].kind = "commit" THEN jobs[j].config ELSE running
                /\ pushed' = IF jobs[j].kind = "push" THEN jobs[j].config ELSE pushed
        BY <1>6, <1>a DEF FinishOf
    <2>2. QueueOrder'
        BY <2>1 DEF JobInv, QueueOrder, Live, Unfinished
    <2>3. ASSUME NEW c \in Calls, Watching(c)'
          PROVE  Watched(c)'
        <3>1. Watched(c) /\ (Good(c)' <=> Good(c))
            BY <1>b, <2>1, <2>3 DEF Watching, Good
        <3>2. op[c] \in JobTools
            BY <1>b, <2>1, <2>3 DEF Watching, Good
        <3>3. CASE job[c] = j
            BY <2>1, <3>1, <3>2, <3>3 DEF Watched, Settled, JobTools
        <3>4. CASE job[c] # j
            <4>1. j < job[c]
                BY <2>1, <3>1, <3>4 DEF Watched, JobIds
            <4>2. jobs[job[c]].st \notin {"active", "ok", "fail"}
                BY <2>1, <3>1, <4>1
                DEF Watched, JobInv, QueueOrder, Live, Unfinished
            <4> QED
                BY <2>1, <3>1, <3>4, <4>2 DEF Watched, Settled
        <3> QED
            BY <3>3, <3>4
    <2> QED
        BY <2>2, <2>3 DEF JobInv
<1>7. CASE UNCHANGED vars
    BY <1>7 DEF vars, JobInv, QueueOrder, Live, Watching, Watched, Good, Settled
<1> QED
    BY <1>1, <1>2, <1>3, <1>4, <1>5, <1>6, <1>7 DEF Next, Step

(* JobInv: the device's queue is first in, first out, and the job a call   *)
(* waits for stays the last one, as it started it (waitJob).               *)
THEOREM JobsHold == Spec => [](LockedInv /\ JobInv)
BY LockedInit, LockedNext, JobInit, JobNext, PTL DEF Spec

(* JobResultCurrent: a good result describes the config as it still is,    *)
(* though jobs that others have given up on may finish at any time         *)
(* (waitJob).                                                              *)
THEOREM ResultsAreCurrent == Spec => []JobResultCurrent
<1>1. LockedInv /\ JobInv => JobResultCurrent
    <2> SUFFICES ASSUME LockedInv, JobInv, NEW c \in Calls,
                        pc[c] = "unlock", ans[c] = "ok", op[c] \in JobTools
                 PROVE  /\ job[c] # NoJob
                        /\ jobs[job[c]].kind = op[c] /\ jobs[job[c]].st = "ok"
                        /\ op[c] = "commit" => running = candidate
                        /\ op[c] = "validate" => jobs[job[c]].config = candidate
                        /\ op[c] = "push" => pushed = running
        BY DEF JobResultCurrent
    <2>1. Watched(c) /\ Good(c)
        BY DEF JobInv, Watching, Good
    <2> QED
        BY <2>1, NoJobAssumption DEF Watched, Settled, JobIds
<1> QED
    BY <1>1, JobsHold, PTL

(* WatchedJobAlone: while a call waits for its job nothing this server     *)
(* does edits the candidate or queues another job.                         *)
THEOREM WatchedIsAlone == Spec => WatchedJobAlone
<1>1. LockedInv /\ [Next]_vars =>
        [\A c \in Calls : pc[c] = "wait" =>
            /\ candidate' = candidate
            /\ \A j \in JobIds : jobs[j].st = "unused" => jobs'[j].st = "unused"]_vars
    <2> SUFFICES ASSUME LockedInv, Next, NEW c \in Calls, pc[c] = "wait"
                 PROVE  /\ candidate' = candidate
                        /\ \A j \in JobIds : jobs[j].st = "unused" => jobs'[j].st = "unused"
        OBVIOUS
    <2>1. \A d \in Calls : pc[d] # "inside"
        BY OneInside DEF InsideSteps
    <2>2. jobs \in [JobIds -> [kind : JobTools, st : JobStates, config : Configs]]
        BY DEF LockedInv, TypeOK
    <2>3. ASSUME NEW d \in Calls, Invoke(d) \/ Step(d)
          PROVE  UNCHANGED <<candidate, jobs>>
        BY <2>1, <2>3
        DEF Invoke, Step, RejectPush, LockWrites, EnterWrite, UnlockWrite, RLockReads,
            UnlockRead, ConfigDiff, JobStatus, PollJob, WaitEnds, StartJob, Revert, Edit,
            Write, Return, device
    <2>4. ASSUME NEW j \in JobIds, StartOf(j) \/ FinishOf(j)
          PROVE  /\ candidate' = candidate
                 /\ \A i \in JobIds : jobs[i].st = "unused" => jobs'[i].st = "unused"
        BY <2>2, <2>4 DEF StartOf, FinishOf
    <2> QED
        BY <2>3, <2>4 DEF Next
<1> QED
    BY <1>1, LockedHolds, PTL DEF Spec, WatchedJobAlone

(* ReadsSeeNoWrites: while a read is inside, the candidate stands still,   *)
(* and the running config moves only by a job that nobody waits for.       *)
THEOREM ReadsAreQuiet == Spec => ReadsSeeNoWrites
<1>1. LockedInv /\ [Next]_vars =>
        [readers # {} =>
            /\ candidate' = candidate
            /\ running' # running => \A c \in Calls : pc[c] # "wait"]_vars
    <2> SUFFICES ASSUME LockedInv, Next, readers # {}
                 PROVE  /\ candidate' = candidate
                        /\ \A c \in Calls : pc[c] # "wait"
        OBVIOUS
    <2>1. \A d \in Calls : pc[d] \notin InsideSteps
        BY OneInside
    <2>2. ASSUME NEW d \in Calls, Invoke(d) \/ Step(d)
          PROVE  candidate' = candidate
        BY <2>1, <2>2
        DEF Invoke, Step, RejectPush, LockWrites, EnterWrite, UnlockWrite, RLockReads,
            UnlockRead, ConfigDiff, JobStatus, PollJob, WaitEnds, StartJob, Revert, Edit,
            Write, Return, device, InsideSteps
    <2>3. ASSUME NEW j \in JobIds, StartOf(j) \/ FinishOf(j)
          PROVE  candidate' = candidate
        BY <2>3 DEF StartOf, FinishOf
    <2> QED
        BY <2>1, <2>2, <2>3 DEF Next, InsideSteps
<1> QED
    BY <1>1, LockedHolds, PTL DEF Spec, ReadsSeeNoWrites
-----------------------------------------------------------------------------
(* Nobody is stuck, however long the device's jobs take.                   *)

(* A call that cannot make its next step: Lock and RLock block.  A call    *)
(* that waits for a job can, since JobWait ends that; a push at its start  *)
(* may be refused without the lock, and counts as waiting all the same.    *)
Waits(c) ==
    \/ pc[c] = "start" /\ op[c] \in WriteTools /\ writer # NoCall
    \/ pc[c] = "draining" /\ readers # {}
    \/ pc[c] = "reading" /\ c \notin readers

NobodyStuck ==
    \A c \in Calls :
        /\ HoldsWrite(c) \/ HoldsRead(c) => ~Waits(c)
        /\ Waits(c) => \E d \in Calls :
              ~Waits(d) /\ (HoldsWrite(d) \/ HoldsRead(d) \/ pc[d] = "draining")
        /\ pc[c] = "draining" /\ ~Waits(c) => writer = c /\ ~entered /\ readers = {}
        /\ pc[c] = "unlock" => HoldsWrite(c)
        /\ pc[c] = "runlock" => HoldsRead(c)

(* The writer slot belongs to a call that drains or is inside.             *)
SlotOwned == \A c \in Calls : writer = c => pc[c] \in {"draining"} \cup InsideSteps

LEMMA SlotInit == Init => SlotOwned
BY NoCallAssumption DEF Init, MuInit, SlotOwned

LEMMA SlotNext == LockedInv /\ SlotOwned /\ [Next]_vars => SlotOwned'
<1> SUFFICES ASSUME LockedInv, SlotOwned, [Next]_vars PROVE SlotOwned'
    OBVIOUS
<1>a. pc \in [Calls -> Steps] /\ \A c \in Calls : c # NoCall
    BY NoCallAssumption DEF LockedInv, TypeOK
<1>b. LockDiscipline
    BY DEF LockedInv
(* Steps beside the lock: the slot stays, and a call inside stays inside.  *)
<1>1. ASSUME NEW c \in Calls, NEW s, Go(c, s), UNCHANGED muVars,
             pc[c] \in InsideSteps => s \in InsideSteps,
             pc[c] # "draining"
      PROVE  SlotOwned'
    BY <1>1, <1>a DEF SlotOwned, Go, muVars
<1>2. ASSUME NEW c \in Calls, Invoke(c) \/ RejectPush(c) \/ ConfigDiff(c) \/ JobStatus(c)
      PROVE  SlotOwned'
  <2>1. \E s : Go(c, s) /\ pc[c] \in {"idle", "start", "reading"}
    BY <1>2 DEF Invoke, RejectPush, Return, ConfigDiff, JobStatus
  <2>2. UNCHANGED muVars
    BY <1>2 DEF Invoke, RejectPush, ConfigDiff, JobStatus
  <2> QED
    BY <2>1, <2>2, <1>1 DEF InsideSteps
<1>3. ASSUME NEW c \in Calls,
             StartJob(c) \/ PollJob(c) \/ WaitEnds(c) \/ Revert(c) \/ Edit(c)
      PROVE  SlotOwned'
  <2>1. \E s \in {"wait", "unlock"} : Go(c, s)
    BY <1>3 DEF StartJob, PollJob, WaitEnds, Revert, Edit, Write
  <2>2. UNCHANGED muVars /\ pc[c] # "draining"
    BY <1>3 DEF StartJob, PollJob, WaitEnds, Revert, Edit, Write
  <2> QED
    BY <2>1, <2>2, <1>1 DEF InsideSteps
<1>4. ASSUME NEW c \in Calls, LockWrites(c) PROVE SlotOwned'
    BY <1>4, <1>a DEF LockWrites, LockClaim, SlotOwned, Go
<1>5. ASSUME NEW c \in Calls, EnterWrite(c) PROVE SlotOwned'
    BY <1>5, <1>a DEF EnterWrite, LockEnter, SlotOwned, Go, InsideSteps
<1>6. ASSUME NEW c \in Calls, UnlockWrite(c) PROVE SlotOwned'
    BY <1>6, <1>a DEF UnlockWrite, Unlock, SlotOwned
<1>7. ASSUME NEW c \in Calls, RLockReads(c) \/ UnlockRead(c) PROVE SlotOwned'
    BY <1>7, <1>a
    DEF RLockReads, UnlockRead, Return, RLock, RUnlock, SlotOwned, Go, InsideSteps
<1>8. ASSUME NEW j \in JobIds, StartOf(j) \/ FinishOf(j) PROVE SlotOwned'
    BY <1>8 DEF StartOf, FinishOf, SlotOwned, muVars
<1>9. ASSUME UNCHANGED vars PROVE SlotOwned'
    BY <1>9 DEF vars, SlotOwned, muVars
<1> QED
    BY <1>2, <1>3, <1>4, <1>5, <1>6, <1>7, <1>8, <1>9 DEF Next, Step

(* A call that holds the lock does not wait, and whoever waits, waits for  *)
(* such a call or for a writer that may enter.                             *)
LEMMA HoldersGo == LockedInv /\ SlotOwned => NobodyStuck
<1> SUFFICES ASSUME LockedInv, SlotOwned PROVE NobodyStuck
    OBVIOUS
<1>a. MuInv /\ LockDiscipline
    BY DEF LockedInv, LockDiscipline
<1>1. ASSUME NEW c \in Calls, HoldsWrite(c) \/ HoldsRead(c) PROVE ~Waits(c)
  <2>1. CASE HoldsWrite(c)
    BY <2>1, <1>a DEF LockDiscipline, Waits
  <2>2. CASE HoldsRead(c)
    BY <2>2, <1>a DEF LockDiscipline, Waits, HoldsRead
  <2> QED
    BY <1>1, <2>1, <2>2
<1>2. ASSUME NEW c \in Calls, Waits(c)
      PROVE  \E d \in Calls :
                ~Waits(d) /\ (HoldsWrite(d) \/ HoldsRead(d) \/ pc[d] = "draining")
  <2>1. writer # NoCall \/ readers # {}
    BY <1>2, <1>a DEF Waits, LockDiscipline, MuInv
  <2>2. PICK d \in Calls : \/ HoldsWrite(d)
                           \/ HoldsRead(d)
                           \/ writer = d /\ ~entered /\ readers = {}
    BY <2>1, <1>a, LockNeverIdles
  <2>3. CASE HoldsWrite(d) \/ HoldsRead(d)
    BY <2>3, <1>1
  <2>4. CASE writer = d /\ ~entered /\ readers = {}
    <3>1. pc[d] = "draining"
      BY <2>4, <1>a DEF SlotOwned, LockDiscipline, HoldsWrite, InsideSteps
    <3> QED
      BY <2>4, <3>1 DEF Waits
  <2> QED
    BY <2>2, <2>3, <2>4
<1>3. ASSUME NEW c \in Calls
      PROVE  /\ pc[c] = "draining" /\ ~Waits(c) => writer = c /\ ~entered /\ readers = {}
             /\ pc[c] = "unlock" => HoldsWrite(c)
             /\ pc[c] = "runlock" => HoldsRead(c)
    BY <1>a DEF LockDiscipline, Waits, HoldsRead
<1> QED
    BY <1>1, <1>2, <1>3 DEF NobodyStuck

(* NobodyStuck: no config tool waits for a call that waits itself, a call  *)
(* that watches a job included, and each gives back the lock that it took  *)
(* (defer d.LockWrites()(), device_tools.go).                              *)
THEOREM NobodyIsStuck == Spec => []NobodyStuck
<1>1. LockedInv /\ [Next]_vars => LockedInv'
    BY LockedNext
<1>2. LockedInv /\ SlotOwned /\ [Next]_vars => SlotOwned'
    BY SlotNext
<1> QED
    BY <1>1, <1>2, LockedInit, SlotInit, HoldersGo, PTL DEF Spec

(* How much of a call is left at each of its steps.                        *)
Left(step) ==
    CASE step = "idle" -> 0
      [] step \in {"unlock", "runlock"} -> 1
      [] step \in {"wait", "reading"} -> 2
      [] step = "inside" -> 3
      [] step = "draining" -> 4
      [] step = "start" -> 5

CallsRunDown ==
    [][\A c \in Calls :
        /\ Step(c) => Left(pc'[c]) < Left(pc[c])
        /\ pc[c] # "idle" => Left(pc'[c]) <= Left(pc[c])]_vars

(* Whatever it is answered, a call's step takes it on.                     *)
LEMMA StepGoesDown ==
    ASSUME NEW c \in Calls, Step(c)
    PROVE  \E s \in Steps : Go(c, s) /\ Left(s) < Left(pc[c])
<1>1. CASE RejectPush(c) \/ LockWrites(c) \/ RLockReads(c)
  <2>1. pc[c] = "start" /\ \E s \in {"idle", "draining", "reading"} : Go(c, s)
    BY <1>1 DEF RejectPush, Return, LockWrites, RLockReads
  <2>2. PICK s \in {"idle", "draining", "reading"} : Go(c, s)
    BY <2>1
  <2>3. s \in Steps /\ Left(s) < Left(pc[c])
    BY <2>1, <2>2 DEF Left, Steps
  <2> QED
    BY <2>2, <2>3
<1>2. CASE UnlockWrite(c) \/ UnlockRead(c) \/ ConfigDiff(c) \/ JobStatus(c)
  <2>1. \/ pc[c] \in {"unlock", "runlock"} /\ Go(c, "idle")
        \/ pc[c] = "reading" /\ Go(c, "runlock")
    BY <1>2 DEF UnlockWrite, UnlockRead, Return, ConfigDiff, JobStatus
  <2> QED
    BY <2>1 DEF Left, Steps
<1>3. CASE StartJob(c)
  <2>1. Go(c, "wait") \/ Go(c, "unlock")
    BY <1>3 DEF StartJob
  <2> QED
    BY <1>3, <2>1 DEF StartJob, Left, Steps
<1>4. CASE PollJob(c) \/ WaitEnds(c) \/ Revert(c) \/ Edit(c)
  <2>1. pc[c] \in {"wait", "inside"} /\ Go(c, "unlock")
    BY <1>4 DEF PollJob, WaitEnds, Revert, Edit, Write
  <2> QED
    BY <2>1 DEF Left, Steps
<1>5. CASE EnterWrite(c)
    BY <1>5 DEF EnterWrite, Left, Steps
<1> QED
    BY <1>1, <1>2, <1>3, <1>4, <1>5 DEF Step

(* CallsRunDown: a call is over after five steps of its own, whatever the  *)
(* device makes of its job, and nobody else takes it back (waitJob is not  *)
(* started again).                                                         *)
THEOREM CallsAreShort == Spec => CallsRunDown
<1>1. ASSUME LockedInv, [Next]_vars
      PROVE  \A c \in Calls :
                /\ Step(c) => Left(pc'[c]) < Left(pc[c])
                /\ pc[c] # "idle" => Left(pc'[c]) <= Left(pc[c])
  <2>a. pc \in [Calls -> Steps] /\ \A s \in Steps : Left(s) \in Int
    BY <1>1 DEF LockedInv, TypeOK, Steps, Left
  <2>1. ASSUME NEW c \in Calls, Step(c) PROVE Left(pc'[c]) < Left(pc[c])
    BY <2>1, <2>a, StepGoesDown DEF Go
  <2>2. ASSUME NEW c \in Calls, pc[c] # "idle" PROVE Left(pc'[c]) <= Left(pc[c])
    <3>1. CASE pc'[c] = pc[c]
      BY <3>1, <2>a
    <3>2. CASE Step(c)
      <4>1. PICK s \in Steps : Go(c, s) /\ Left(s) < Left(pc[c])
        BY <3>2, StepGoesDown
      <4>2. pc'[c] = s /\ Left(s) \in Int /\ Left(pc[c]) \in Int
        BY <4>1, <2>a DEF Go
      <4> QED
        BY <4>1, <4>2
    <3>3. ASSUME NEW d \in Calls, d # c, Invoke(d) \/ Step(d) PROVE pc'[c] = pc[c]
      <4>1. \E s : Go(d, s)
        BY <3>3, StepGoesDown DEF Invoke
      <4> QED
        BY <4>1, <3>3, <2>a DEF Go
    <3>4. ASSUME (\E j \in JobIds : StartOf(j) \/ FinishOf(j)) \/ UNCHANGED vars
          PROVE  pc'[c] = pc[c]
      BY <3>4 DEF StartOf, FinishOf, vars
    <3>5. ~Invoke(c)
      BY <2>2 DEF Invoke
    <3> QED
      BY <1>1, <3>1, <3>2, <3>3, <3>4, <3>5 DEF Next
  <2> QED
    BY <2>1, <2>2
<1>2. LockedInv /\ [Next]_vars => LockedInv'
    BY LockedNext
<1> QED
    BY <1>1, <1>2, LockedInit, PTL DEF Spec, CallsRunDown
=============================================================================
