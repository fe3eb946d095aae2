--------------------------- MODULE LogQueryProofs ---------------------------
(***************************************************************************)
(* What a log query leaves behind and what it says of its job, for every   *)
(* number of calls and jobs and whatever requests fail.                    *)
(***************************************************************************)
EXTENDS LogQuery, TLAPS

(* One call: the error it carries tells what ended its context, and its    *)
(* step tells how far it is with its job.                                  *)
CallInv(c) ==
    /\ ctx[c] = "deadline" => gone[c]
    /\ err[c] = "DeadlineExceeded" => ctx[c] \in {"JobWait", "deadline"}
    /\ ans[c] = "not seen finished" => err[c] = "DeadlineExceeded" /\ ctx[c] = "JobWait"
    /\ ans[c] # "none" => pc[c] = "answered"
    /\ ans[c] = "entries" => id[c] # NoJob
    /\ pc[c] \in {"poll", "sleep", "ended", "finish"} => id[c] # NoJob
    /\ pc[c] \in {"idle", "submit"} => id[c] = NoJob
    /\ pc[c] = "ended" => err[c] = "device" \/ ctx[c] # "live"

(* One call and its job: nobody else has it, and where the call is says    *)
(* what may have become of it.                                             *)
JobInv(c) ==
    id[c] # NoJob =>
        LET j == jobs[id[c]] IN
        /\ j.of = c
        /\ j.st # "unused"
        /\ pc[c] \in {"poll", "sleep", "ended"} => j.st # "dropped"
        /\ ans[c] = "entries" => j.st = "ok"
        /\ pc[c] \in {"report", "answered"} /\ j.st = "running" => err[c] = "device"

QueryInv == TypeOK /\ \A c \in Calls : CallInv(c) /\ JobInv(c)

LEMMA QueryInit == Init => QueryInv
  BY NoJobAssumption DEF Init, QueryInv, TypeOK, CallInv, JobInv, JobStates, Steps,
     Endings, JobIds

LEMMA AcceptTyped ==
    ASSUME TypeOK, NEW c \in Calls, NEW j \in JobIds, Accept(c, j)
    PROVE jobs' \in [JobIds -> [st : JobStates, of : Calls \cup {NoJob}]]
  BY DEF TypeOK, Accept, JobStates

LEMMA AcceptedFor ==
    ASSUME TypeOK, NEW c \in Calls, NEW j \in JobIds, Accept(c, j)
    PROVE jobs'[j].of = c /\ jobs'[j].st = "running"
  BY DEF TypeOK, Accept

LEMMA StateTyped ==
    ASSUME TypeOK, NEW j \in JobIds, NEW st \in JobStates
    PROVE [jobs EXCEPT ![j].st = st]
            \in [JobIds -> [st : JobStates, of : Calls \cup {NoJob}]]
  BY DEF TypeOK

LEMMA FinishTyped ==
    ASSUME TypeOK, NEW c \in Calls, FinishLogJob(c), id[c] # NoJob
    PROVE jobs' \in [JobIds -> [st : JobStates, of : Calls \cup {NoJob}]]
<1>1. id[c] \in JobIds /\ jobs[id[c]].st \in JobStates
  BY DEF TypeOK
<1>2. \E st \in JobStates : jobs' = [jobs EXCEPT ![id[c]].st = st]
  <2>1. CASE jobs' = [jobs EXCEPT ![id[c]].st = "dropped"]
    BY <2>1 DEF JobStates
  <2>2. CASE jobs' = [jobs EXCEPT ![id[c]].st = IF Live(id[c]) THEN "kept" ELSE @]
    <3>1. (IF Live(id[c]) THEN "kept" ELSE jobs[id[c]].st) \in JobStates
      BY <1>1 DEF JobStates
    <3> QED
      BY <2>2, <3>1
  <2> QED
    BY <2>1, <2>2 DEF FinishLogJob
<1> QED
  BY <1>1, <1>2, StateTyped

LEMMA TypeNext == QueryInv /\ [Next]_vars => TypeOK'
<1> SUFFICES ASSUME QueryInv, [Next]_vars PROVE TypeOK'
  OBVIOUS
<1>0. TypeOK /\ \A c \in Calls : pc[c] = "finish" => id[c] # NoJob
  BY DEF QueryInv, CallInv
<1> USE DEF TypeOK, Go, Answer, Fails, context, JobStates, Steps, Endings
<1>1. ASSUME NEW c \in Calls, Invoke(c) \/ Return(c) PROVE TypeOK'
  BY <1>0, <1>1 DEF Invoke, Return
<1>2. ASSUME NEW c \in Calls, JobWaitEnds(c) PROVE TypeOK'
  BY <1>0, <1>2 DEF JobWaitEnds
<1>11. ASSUME NEW c \in Calls, CallerEnds(c) PROVE TypeOK'
  <2>1. ctx' \in [Calls -> Endings \cup {"live"}]
    <3>1. PICK e \in {"deadline", "cancel"} :
            ctx' = [ctx EXCEPT ![c] = IF ctx[c] = "live" THEN e ELSE ctx[c]]
      BY <1>11 DEF CallerEnds
    <3>2. (IF ctx[c] = "live" THEN e ELSE ctx[c]) \in Endings \cup {"live"}
      BY <1>0
    <3> QED
      BY <1>0, <3>1, <3>2
  <2>2. gone' \in [Calls -> BOOLEAN]
    BY <1>0, <1>11, Zenon DEF CallerEnds
  <2> QED
    BY <1>0, <1>11, <2>1, <2>2 DEF CallerEnds
<1>3. ASSUME NEW c \in Calls, Submit(c) PROVE TypeOK'
  <2>1. jobs' \in [JobIds -> [st : JobStates, of : Calls \cup {NoJob}]]
    BY <1>0, <1>3, AcceptTyped DEF Submit
  <2> QED
    BY <1>0, <1>3, <2>1 DEF Submit
<1>4. ASSUME NEW c \in Calls, SubmitCut(c) PROVE TypeOK'
  <2>1. jobs' \in [JobIds -> [st : JobStates, of : Calls \cup {NoJob}]]
    BY <1>0, <1>4, AcceptTyped DEF SubmitCut
  <2> QED
    BY <1>0, <1>4, <2>1 DEF SubmitCut, CtxErr
<1>5. ASSUME NEW c \in Calls, RejectQuery(c) \/ Poll(c) \/ Undecodable(c) PROVE TypeOK'
  BY <1>0, <1>5 DEF RejectQuery, Poll, Undecodable
<1>6. ASSUME NEW c \in Calls, PollFails(c) \/ PollCut(c) \/ Wake(c) \/ GiveUp(c)
      PROVE TypeOK'
  BY <1>0, <1>6 DEF PollFails, PollCut, Wake, GiveUp, CtxErr
<1>7. ASSUME NEW c \in Calls, FinishLogJob(c) PROVE TypeOK'
  <2>1. jobs' \in [JobIds -> [st : JobStates, of : Calls \cup {NoJob}]]
    <3>1. id[c] # NoJob
      BY <1>0, <1>7 DEF FinishLogJob
    <3> QED
      BY <1>0, <1>7, <3>1, FinishTyped
  <2> QED
    BY <1>0, <1>7, <2>1 DEF FinishLogJob
<1>8. ASSUME NEW c \in Calls, LogJobError(c) PROVE TypeOK'
  BY <1>0, <1>8 DEF LogJobError
<1>9. ASSUME NEW j \in JobIds, RunsOut(j) PROVE TypeOK'
  <2>1. jobs' \in [JobIds -> [st : JobStates, of : Calls \cup {NoJob}]]
    <3>1. PICK st \in {"ok", "fail"} : jobs' = [jobs EXCEPT ![j].st = st]
      BY <1>9 DEF RunsOut
    <3>2. st \in JobStates
      OBVIOUS
    <3> QED
      BY <1>0, <3>1, <3>2, StateTyped
  <2> QED
    BY <1>0, <1>9, <2>1 DEF RunsOut
<1>10. CASE UNCHANGED vars
  BY <1>0, <1>10 DEF vars
<1> QED
  BY <1>1, <1>2, <1>3, <1>4, <1>5, <1>6, <1>7, <1>8, <1>9, <1>10, <1>11 DEF Next, Step

-----------------------------------------------------------------------------
(* A step of one call leaves the others, and their jobs, as they are.      *)
Same(d) ==
    /\ pc'[d] = pc[d] /\ ctx'[d] = ctx[d] /\ gone'[d] = gone[d]
    /\ id'[d] = id[d] /\ err'[d] = err[d] /\ ans'[d] = ans[d]

Moves(c) == Invoke(c) \/ Return(c) \/ JobWaitEnds(c) \/ CallerEnds(c) \/ Step(c)

LEMMA OthersSame ==
    ASSUME TypeOK, NEW c \in Calls, Moves(c), NEW d \in Calls, d # c
    PROVE Same(d)
<1> USE DEF TypeOK, Same, Go, Answer, Fails, context
<1>1. CASE Invoke(c) \/ Return(c)
  BY <1>1 DEF Invoke, Return
<1>2. CASE JobWaitEnds(c) \/ CallerEnds(c)
  BY <1>2 DEF JobWaitEnds, CallerEnds
<1>3. CASE Submit(c) \/ SubmitCut(c)
  BY <1>3 DEF Submit, SubmitCut
<1>4. CASE RejectQuery(c) \/ Poll(c) \/ Undecodable(c)
  BY <1>4 DEF RejectQuery, Poll, Undecodable
<1>5. CASE PollFails(c) \/ PollCut(c) \/ Wake(c) \/ GiveUp(c)
  BY <1>5 DEF PollFails, PollCut, Wake, GiveUp
<1>6. CASE FinishLogJob(c) \/ LogJobError(c)
  BY <1>6 DEF FinishLogJob, LogJobError
<1> QED
  BY <1>1, <1>2, <1>3, <1>4, <1>5, <1>6 DEF Moves, Step

(* The jobs a step can touch: a new one, or the call's own.                *)
LEMMA JobsTouched ==
    ASSUME TypeOK, NEW c \in Calls, Moves(c)
    PROVE \/ UNCHANGED jobs
          \/ \E j \in JobIds : Accept(c, j)
          \/ id[c] \in JobIds /\ \A j \in JobIds \ {id[c]} : jobs'[j] = jobs[j]
          \/ pc[c] = "finish" /\ id[c] = NoJob
<1>1. CASE Submit(c) \/ SubmitCut(c)
  BY <1>1 DEF Submit, SubmitCut
<1>2. CASE FinishLogJob(c)
  BY <1>2 DEF FinishLogJob, TypeOK
<1>3. CASE ~(Submit(c) \/ SubmitCut(c) \/ FinishLogJob(c))
  BY <1>3 DEF Moves, Step, Invoke, Return, JobWaitEnds, CallerEnds, RejectQuery, Poll,
     Undecodable, PollFails, PollCut, Wake, GiveUp, LogJobError
<1> QED
  BY <1>1, <1>2, <1>3

LEMMA OthersKept ==
    ASSUME QueryInv, NEW c \in Calls, Moves(c), NEW d \in Calls, d # c
    PROVE CallInv(d)' /\ JobInv(d)'
<1>1. TypeOK /\ CallInv(c) /\ JobInv(c) /\ CallInv(d) /\ JobInv(d)
  BY DEF QueryInv
<1>2. Same(d)
  BY <1>1, OthersSame
<1>3. CallInv(d)'
  BY <1>1, <1>2 DEF CallInv, Same
<1>4. id[d] # NoJob => jobs'[id[d]] = jobs[id[d]]
  <2> SUFFICES ASSUME id[d] # NoJob PROVE jobs'[id[d]] = jobs[id[d]]
    OBVIOUS
  <2>1. id[d] \in JobIds /\ jobs[id[d]].of = d /\ jobs[id[d]].st # "unused"
    BY <1>1 DEF TypeOK, JobInv
  <2>2. CASE \E j \in JobIds : Accept(c, j)
    BY <1>1, <2>1, <2>2 DEF Accept, TypeOK
  <2>3. CASE id[c] \in JobIds /\ \A j \in JobIds \ {id[c]} : jobs'[j] = jobs[j]
    <3>1. id[c] # NoJob
      BY <2>3, NoJobAssumption DEF JobIds
    <3> QED
      BY <1>1, <2>1, <2>3, <3>1 DEF JobInv
  <2>4. ~(pc[c] = "finish" /\ id[c] = NoJob)
    BY <1>1 DEF CallInv
  <2> QED
    BY <1>1, <2>2, <2>3, <2>4, JobsTouched
<1>5. JobInv(d)'
  BY <1>1, <1>2, <1>4 DEF JobInv, Same
<1> QED
  BY <1>3, <1>5

-----------------------------------------------------------------------------
(* The call itself.                                                        *)
LEMMA OwnKept ==
    ASSUME QueryInv, NEW c \in Calls, Moves(c)
    PROVE CallInv(c)' /\ JobInv(c)'
<1>0. TypeOK /\ CallInv(c) /\ JobInv(c)
  BY DEF QueryInv
<1>a. ASSUME NEW j \in JobIds, Accept(c, j)
       PROVE jobs'[j].of = c /\ jobs'[j].st = "running"
  BY <1>0, <1>a, AcceptedFor
<1> USE <1>0 DEF TypeOK, CallInv, JobInv, Go, Answer, Fails, context
<1>1. CASE Invoke(c)
  BY <1>1 DEF Invoke
<1>2. CASE Return(c)
  BY <1>2 DEF Return
<1>3. CASE JobWaitEnds(c)
  BY <1>3 DEF JobWaitEnds
<1>4. CASE CallerEnds(c)
  BY <1>4 DEF CallerEnds
<1>5. CASE Submit(c)
  <2>1. pc[c] = "submit" /\ ctx[c] = "live" /\ id[c] = NoJob /\ ans[c] = "none"
        /\ UNCHANGED <<ctx, gone, ans>>
    BY <1>5 DEF Submit
  <2>2. CASE pc' = [pc EXCEPT ![c] = "report"] /\ err' = [err EXCEPT ![c] = "device"]
             /\ UNCHANGED id
    BY <2>1, <2>2
  <2>3. ASSUME NEW j \in JobIds, Accept(c, j), id' = [id EXCEPT ![c] = j],
               pc' = [pc EXCEPT ![c] = "poll"], UNCHANGED err
        PROVE CallInv(c)' /\ JobInv(c)'
    <3>1. j # NoJob
      BY NoJobAssumption DEF JobIds
    <3>2. id'[c] = j /\ pc'[c] = "poll"
      BY <2>3
    <3>3. CallInv(c)'
      BY <2>1, <2>3, <3>1, <3>2
    <3>4. jobs'[j].of = c /\ jobs'[j].st = "running"
      BY <2>3, <1>a
    <3>6. ans'[c] = "none"
      BY <2>1
    <3>5. JobInv(c)'
      BY <3>2, <3>4, <3>6
    <3> QED
      BY <3>3, <3>5
  <2> QED
    BY <1>5, <2>2, <2>3 DEF Submit
<1>6. CASE SubmitCut(c)
  BY <1>6 DEF SubmitCut, CtxErr, Endings
<1>7. CASE RejectQuery(c)
  BY <1>7 DEF RejectQuery
<1>8. CASE Poll(c)
  <2>1. pc[c] = "poll" /\ id[c] # NoJob /\ ans[c] = "none"
        /\ UNCHANGED <<jobs, ctx, gone, id>>
    BY <1>8 DEF Poll
  <2>2. CASE jobs[id[c]].st = "ok" /\ Go(c, "answered") /\ Answer(c, "entries")
             /\ UNCHANGED err
    BY <2>1, <2>2
  <2>3. CASE jobs[id[c]].st = "fail" /\ Fails(c, "device", "ended") /\ UNCHANGED ans
    BY <2>1, <2>3
  <2>4. CASE Go(c, "sleep") /\ UNCHANGED <<err, ans>>
    BY <2>1, <2>4
  <2> QED
    BY <1>8, <2>2, <2>3, <2>4 DEF Poll
<1>9. CASE Undecodable(c)
  BY <1>9 DEF Undecodable
<1>10. CASE PollFails(c)
  BY <1>10 DEF PollFails
<1>11. CASE PollCut(c)
  BY <1>11 DEF PollCut, CtxErr, Endings
<1>12. CASE Wake(c)
  BY <1>12 DEF Wake
<1>13. CASE GiveUp(c)
  BY <1>13 DEF GiveUp
<1>14. CASE FinishLogJob(c)
  <2>1. pc[c] = "finish" /\ id[c] \in JobIds /\ id[c] # NoJob /\ ans[c] = "none"
        /\ pc'[c] = "report" /\ UNCHANGED <<ctx, gone, id, err, ans>>
    BY <1>14 DEF FinishLogJob
  <2>2. CallInv(c)'
    BY <2>1
  <2>3. jobs'[id[c]].of = c /\ jobs'[id[c]].st \notin {"unused", "running"}
    <3>1. CASE jobs' = [jobs EXCEPT ![id[c]].st = "dropped"]
      BY <2>1, <3>1
    <3>2. CASE jobs' = [jobs EXCEPT ![id[c]].st = IF Live(id[c]) THEN "kept" ELSE @]
      <4>1. CASE Live(id[c])
        BY <2>1, <3>2, <4>1
      <4>2. CASE ~Live(id[c])
        BY <2>1, <3>2, <4>2 DEF Live
      <4> QED
        BY <4>1, <4>2
    <3> QED
      BY <1>14, <3>1, <3>2 DEF FinishLogJob
  <2>4. JobInv(c)'
    BY <2>1, <2>3
  <2> QED
    BY <2>2, <2>4
<1>15. CASE LogJobError(c)
  BY <1>15 DEF LogJobError
<1> QED
  BY <1>1, <1>2, <1>3, <1>4, <1>5, <1>6, <1>7, <1>8, <1>9, <1>10, <1>11, <1>12,
     <1>13, <1>14, <1>15 DEF Moves, Step

(* A job that runs out was running: nobody has entries of it yet.          *)
LEMMA RunsOutKept ==
    ASSUME QueryInv, NEW j \in JobIds, RunsOut(j), NEW c \in Calls
    PROVE CallInv(c)' /\ JobInv(c)'
<1>1. TypeOK /\ CallInv(c) /\ JobInv(c)
      /\ UNCHANGED <<pc, ctx, gone, id, err, ans>>
  BY DEF QueryInv, RunsOut, context
<1>2. CallInv(c)'
  BY <1>1 DEF CallInv
<1>3. PICK st \in {"ok", "fail"} : jobs' = [jobs EXCEPT ![j].st = st]
  BY DEF RunsOut
<1>4. CASE id[c] = j
  <2>1. jobs'[j].of = jobs[j].of /\ jobs'[j].st = st
    BY <1>1, <1>3 DEF TypeOK
  <2> QED
    BY <1>1, <1>2, <1>4, <2>1 DEF JobInv, RunsOut, Live
<1>5. CASE id[c] # j
  BY <1>1, <1>2, <1>3, <1>5 DEF JobInv, TypeOK
<1> QED
  BY <1>4, <1>5

LEMMA QueryNext == QueryInv /\ [Next]_vars => QueryInv'
<1> SUFFICES ASSUME QueryInv, [Next]_vars PROVE QueryInv'
  OBVIOUS
<1>1. TypeOK'
  BY TypeNext
<1>2. ASSUME NEW d \in Calls PROVE CallInv(d)' /\ JobInv(d)'
  <2>1. ASSUME NEW c \in Calls, Moves(c) PROVE CallInv(d)' /\ JobInv(d)'
    BY <2>1, OthersKept, OwnKept
  <2>2. ASSUME NEW j \in JobIds, RunsOut(j) PROVE CallInv(d)' /\ JobInv(d)'
    BY <2>2, RunsOutKept
  <2>3. CASE UNCHANGED vars
    BY <2>3 DEF vars, QueryInv, CallInv, JobInv
  <2> QED
    BY <2>1, <2>2, <2>3 DEF Next, Moves
<1> QED
  BY <1>1, <1>2 DEF QueryInv

LEMMA QueryInvHolds == Spec => []QueryInv
  BY QueryInit, QueryNext, PTL DEF Spec

-----------------------------------------------------------------------------
(* TypeOK: jobs, contexts and errors keep their types, whatever faults.    *)
THEOREM TypesHold == Spec => []TypeOK
<1>1. QueryInv => TypeOK
  BY DEF QueryInv
<1> QED
  BY <1>1, QueryInvHolds, PTL

(* "Not seen finished" is said only when JobWait ended the wait, never for *)
(* the caller's own deadline and never instead of the device's error       *)
(* (logJobError).                                                          *)
THEOREM NotSeenFinishedHolds == Spec => []NotSeenFinished
<1>1. QueryInv => NotSeenFinished
  BY DEF QueryInv, CallInv, NotSeenFinished
<1> QED
  BY <1>1, QueryInvHolds, PTL

(* Queries never answer with, or drop, one another's job (runLogJob,       *)
(* finishLogJob).                                                          *)
THEOREM OwnJobOnlyHolds == Spec => []OwnJobOnly
<1>1. QueryInv => OwnJobOnly
  BY NoJobAssumption DEF QueryInv, JobInv, OwnJobOnly, JobIds
<1> QED
  BY <1>1, QueryInvHolds, PTL

(* A call that gives up on a job it can name has asked the device to drop  *)
(* it by the time it answers (runLogJob, finishLogJob).                    *)
THEOREM NamedJobDroppedHolds == Spec => []NamedJobDropped
<1>1. QueryInv => NamedJobDropped
  BY DEF QueryInv, JobInv, NamedJobDropped
<1> QED
  BY <1>1, QueryInvHolds, PTL
-----------------------------------------------------------------------------
(* How much of a query is left at each of its steps.                       *)
Left(step) ==
    CASE step = "idle" -> 0
      [] step = "answered" -> 1
      [] step = "report" -> 2
      [] step = "finish" -> 3
      [] step = "ended" -> 4
      [] step = "poll" -> 5
      [] step = "sleep" -> 6
      [] step = "submit" -> 7

LEMMA LeftType ==
    ASSUME NEW s \in Steps
    PROVE  Left(s) \in Nat
  BY DEF Left, Steps

(* The ways on: all the steps there are, but for polling again.            *)
LEMMA Onward ==
    ASSUME NEW s, NEW t,
           \/ s = "submit" /\ t \in {"answered", "poll", "report"}
           \/ s \in {"poll", "sleep"} /\ t \in {"answered", "ended"}
           \/ s = "sleep" /\ t = "poll"
           \/ s = "ended" /\ t \in {"finish", "report"}
           \/ s = "finish" /\ t = "report"
           \/ s = "report" /\ t = "answered"
           \/ s = "answered" /\ t = "idle"
    PROVE  Left(t) < Left(s)
  BY DEF Left

(* A poll that finds the job running, for a context that has not ended.    *)
PollsAgain(c) == ctx[c] = "live" /\ pc[c] = "poll" /\ pc'[c] = "sleep"

(* Every step of a query takes it on, but for polling again, and that only *)
(* while its context is live.  A context that has ended stays so until the *)
(* query is over, and nothing else sets a query back.                      *)
QueriesRunDown ==
    [][\A c \in Calls :
        /\ Step(c) => Left(pc'[c]) < Left(pc[c]) \/ PollsAgain(c)
        /\ pc[c] # "idle" => Left(pc'[c]) <= Left(pc[c]) \/ PollsAgain(c)
        /\ pc[c] # "answered" /\ ctx[c] # "live" => ctx'[c] # "live"]_vars

LEMMA QueryStep ==
    ASSUME TypeOK, NEW c \in Calls, Step(c)
    PROVE  /\ Left(pc'[c]) < Left(pc[c]) \/ PollsAgain(c)
           /\ ctx' = ctx
<1> USE DEF TypeOK, Go, Fails, context
<1>1. CASE RejectQuery(c)
  <2>1. pc[c] = "submit" /\ pc'[c] = "answered" /\ ctx' = ctx
    BY <1>1 DEF RejectQuery
  <2> QED
    BY <2>1, Onward
<1>2. CASE Submit(c) \/ SubmitCut(c)
  <2>1. pc[c] = "submit" /\ pc'[c] \in {"poll", "report"} /\ ctx' = ctx
    BY <1>2 DEF Submit, SubmitCut
  <2> QED
    BY <2>1, Onward
<1>3. CASE Poll(c) \/ Undecodable(c) \/ PollFails(c) \/ PollCut(c)
  <2>1. /\ \/ pc[c] \in {"poll", "sleep"} /\ pc'[c] \in {"answered", "ended"}
           \/ PollsAgain(c)
        /\ ctx' = ctx
    BY <1>3 DEF Poll, Undecodable, PollFails, PollCut, PollsAgain
  <2> QED
    BY <2>1, Onward
<1>4. CASE Wake(c)
  <2>1. pc[c] = "sleep" /\ pc'[c] = "poll" /\ ctx' = ctx
    BY <1>4 DEF Wake
  <2> QED
    BY <2>1, Onward
<1>5. CASE GiveUp(c)
  <2>1. pc[c] = "ended" /\ pc'[c] \in {"finish", "report"} /\ ctx' = ctx
    BY <1>5 DEF GiveUp
  <2> QED
    BY <2>1, Onward
<1>6. CASE FinishLogJob(c) \/ LogJobError(c)
  <2>1. /\ \/ pc[c] = "finish" /\ pc'[c] = "report"
           \/ pc[c] = "report" /\ pc'[c] = "answered"
        /\ ctx' = ctx
    BY <1>6 DEF FinishLogJob, LogJobError
  <2> QED
    BY <2>1, Onward
<1> QED
  BY <1>1, <1>2, <1>3, <1>4, <1>5, <1>6 DEF Step

(* QueriesRunDown: once JobWait, a deadline or a cancel has ended its      *)
(* context, a query is over after six steps of its own at most, with one   *)
(* request to drop its job among them, whatever the device does            *)
(* (waitLogJob, runLogJob, finishLogJob).                                  *)
THEOREM QueriesEnd == Spec => QueriesRunDown
<1>1. ASSUME QueryInv, [Next]_vars, NEW c \in Calls
      PROVE  /\ Step(c) => Left(pc'[c]) < Left(pc[c]) \/ PollsAgain(c)
             /\ pc[c] # "idle" => Left(pc'[c]) <= Left(pc[c]) \/ PollsAgain(c)
             /\ pc[c] # "answered" /\ ctx[c] # "live" => ctx'[c] # "live"
  <2>1. TypeOK /\ TypeOK'
    BY <1>1, TypeNext DEF QueryInv
  <2>2. pc[c] \in Steps /\ pc'[c] \in Steps /\ \A s \in Steps : Left(s) \in Nat
    BY <2>1, LeftType DEF TypeOK
  <2>3. CASE pc'[c] = pc[c] /\ ctx'[c] = ctx[c] /\ ~Step(c)
    BY <2>2, <2>3
  <2>4. CASE Step(c)
    <3>1. Left(pc'[c]) < Left(pc[c]) \/ PollsAgain(c)
      BY <2>1, <2>4, QueryStep
    <3>2. ctx' = ctx
      BY <2>1, <2>4, QueryStep
    <3>3. Left(pc'[c]) \in Nat /\ Left(pc[c]) \in Nat
      BY <2>2
    <3> QED
      BY <3>1, <3>2, <3>3
  <2>5. CASE Invoke(c)
    <3>1. pc[c] = "idle" /\ ctx' = ctx /\ ~Step(c)
      BY <2>5
      DEF Invoke, context, Step, RejectQuery, Submit, SubmitCut, Poll, Undecodable,
          PollFails, PollCut, Wake, GiveUp, FinishLogJob, LogJobError
    <3> QED
      BY <3>1
  <2>6. CASE Return(c)
    <3>1. pc[c] = "answered" /\ pc'[c] = "idle"
      BY <2>1, <2>6 DEF Return, Go, TypeOK
    <3>2. ~Step(c)
      BY <2>6
      DEF Return, Step, RejectQuery, Submit, SubmitCut, Poll, Undecodable,
          PollFails, PollCut, Wake, GiveUp, FinishLogJob, LogJobError
    <3> QED
      BY <2>2, <3>1, <3>2, Onward
  <2>7. CASE JobWaitEnds(c) \/ CallerEnds(c)
    <3>1. pc'[c] = pc[c] /\ (ctx[c] # "live" => ctx'[c] # "live")
      BY <2>1, <2>7 DEF JobWaitEnds, CallerEnds, TypeOK
    <3>2. ASSUME Step(c) PROVE pc'[c] # pc[c]
      <4>1. Left(pc'[c]) < Left(pc[c]) \/ PollsAgain(c)
        BY <2>1, <3>2, QueryStep
      <4>2. Left(pc[c]) \in Nat
        BY <2>2
      <4> QED
        BY <4>1, <4>2 DEF PollsAgain
    <3> QED
      BY <2>2, <3>1, <3>2
  <2>8. ASSUME NEW d \in Calls, d # c, Moves(d) PROVE Same(c)
    BY <2>1, <2>8, OthersSame
  <2>9. ASSUME (\E j \in JobIds : RunsOut(j)) \/ UNCHANGED vars
        PROVE  pc'[c] = pc[c] /\ ctx'[c] = ctx[c]
    BY <2>9 DEF RunsOut, context, vars
  <2>10. CASE pc'[c] = pc[c] /\ ctx'[c] = ctx[c]
    BY <2>3, <2>4, <2>10
  <2> QED
    BY <1>1, <2>4, <2>5, <2>6, <2>7, <2>8, <2>9, <2>10 DEF Next, Moves, Same
<1>2. QueryInv /\ [Next]_vars =>
        [\A c \in Calls :
            /\ Step(c) => Left(pc'[c]) < Left(pc[c]) \/ PollsAgain(c)
            /\ pc[c] # "idle" => Left(pc'[c]) <= Left(pc[c]) \/ PollsAgain(c)
            /\ pc[c] # "answered" /\ ctx[c] # "live" => ctx'[c] # "live"]_vars
  BY <1>1
<1> QED
  BY <1>2, QueryInvHolds, PTL DEF Spec, QueriesRunDown
=============================================================================
