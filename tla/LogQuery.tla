------------------------------ MODULE LogQuery ------------------------------
(***************************************************************************)
(* panos_log_query (log_tools.go): submit a query to the log database,     *)
(* poll its job, and give up when the context ends.  It takes no lock.     *)
(*                                                                         *)
(* The device keeps a job until it has run or is told to drop it, and no   *)
(* other tool can collect it or clean it up, so the call that submitted a  *)
(* job is the only one that can.  The context of a call ends when JobWait  *)
(* has passed, when the caller's own deadline passes, or when the caller   *)
(* cancels, at any moment; what comes first decides its error.             *)
(***************************************************************************)
EXTENDS Naturals

CONSTANTS
    Calls,      \* calls of the tool, each in a goroutine of its own
    MaxJobs,    \* bound: log jobs the device accepts in a behaviour
    NoJob,
    Faults      \* requests whose answer may be lost or useless

ASSUME MaxJobsAssumption == MaxJobs \in Nat
ASSUME NoJobAssumption == NoJob \notin 1 .. MaxJobs
ASSUME FaultsAssumption == Faults \subseteq {"submit", "poll", "finish"}

VARIABLES
    jobs,   \* the device's log jobs: their state and the call they are for
    pc,     \* per call: its step
    ctx,    \* per call: "live", or what ended wctx
    gone,   \* per call: whether the caller's own context has ended
    id,     \* per call: the job id it knows
    err,    \* per call: what ended runLogJob
    ans     \* per call: its answer

vars == <<jobs, pc, ctx, gone, id, err, ans>>

JobIds == 1 .. MaxJobs

(* "kept": the device was asked to drop the job and did not.               *)
JobStates == {"unused", "running", "ok", "fail", "dropped", "kept"}
Steps == {"idle", "submit", "poll", "sleep", "ended", "finish", "report", "answered"}
Endings == {"JobWait", "deadline", "cancel"}

TypeOK ==
    /\ jobs \in [JobIds -> [st : JobStates, of : Calls \cup {NoJob}]]
    /\ pc \in [Calls -> Steps]
    /\ ctx \in [Calls -> Endings \cup {"live"}]
    /\ gone \in [Calls -> BOOLEAN]
    /\ id \in [Calls -> JobIds \cup {NoJob}]
    /\ err \in [Calls -> {"none", "device", "DeadlineExceeded", "Canceled"}]
    /\ ans \in [Calls -> {"none", "entries", "error", "not seen finished"}]

Init ==
    /\ jobs = [j \in JobIds |-> [st |-> "unused", of |-> NoJob]]
    /\ pc = [c \in Calls |-> "idle"]
    /\ ctx = [c \in Calls |-> "live"]
    /\ gone = [c \in Calls |-> FALSE]
    /\ id = [c \in Calls |-> NoJob]
    /\ err = [c \in Calls |-> "none"]
    /\ ans = [c \in Calls |-> "none"]

Go(c, step) == pc' = [pc EXCEPT ![c] = step]
Answer(c, a) == ans' = [ans EXCEPT ![c] = a]
Fails(c, e, step) == err' = [err EXCEPT ![c] = e] /\ Go(c, step)

context == <<ctx, gone>>

(* The two contexts share their error: a deadline is a deadline.           *)
CtxErr(c) == IF ctx[c] = "cancel" THEN "Canceled" ELSE "DeadlineExceeded"

-----------------------------------------------------------------------------
(* The device.                                                             *)
Live(j) == jobs[j].st \in {"running", "kept"}

Accept(c, j) ==
    /\ jobs[j].st = "unused"
    /\ \A i \in JobIds : i < j => jobs[i].st # "unused"
    /\ jobs' = [jobs EXCEPT ![j] = [st |-> "running", of |-> c]]

RunsOut(j) ==
    /\ Live(j)
    /\ \E st \in {"ok", "fail"} : jobs' = [jobs EXCEPT ![j].st = st]
    /\ UNCHANGED <<pc, context, id, err, ans>>

-----------------------------------------------------------------------------
(* Calls and their contexts.                                               *)
Invoke(c) ==
    /\ pc[c] = "idle"
    /\ Go(c, "submit")
    /\ UNCHANGED <<jobs, context, id, err, ans>>

Return(c) ==
    /\ pc[c] = "answered"
    /\ Go(c, "idle")
    /\ ctx' = [ctx EXCEPT ![c] = "live"]
    /\ gone' = [gone EXCEPT ![c] = FALSE]
    /\ id' = [id EXCEPT ![c] = NoJob]
    /\ err' = [err EXCEPT ![c] = "none"]
    /\ Answer(c, "none")
    /\ UNCHANGED jobs

(* Mutant: JobWait bounds the submit only, not the polls.                  *)
SubmitWaitEnds(c) ==
    /\ pc[c] = "submit"
    /\ ctx[c] = "live"
    /\ ctx' = [ctx EXCEPT ![c] = "JobWait"]
    /\ UNCHANGED <<jobs, pc, gone, id, err, ans>>

JobWaitEnds(c) ==
    /\ pc[c] \notin {"idle", "answered"}
    /\ ctx[c] = "live"
    /\ ctx' = [ctx EXCEPT ![c] = "JobWait"]
    /\ UNCHANGED <<jobs, pc, gone, id, err, ans>>

CallerEnds(c) ==
    /\ pc[c] \notin {"idle", "answered"}
    /\ ~gone[c]
    /\ gone' = [gone EXCEPT ![c] = TRUE]
    /\ \E e \in {"deadline", "cancel"} :
        ctx' = [ctx EXCEPT ![c] = IF ctx[c] = "live" THEN e ELSE ctx[c]]
    /\ UNCHANGED <<jobs, pc, id, err, ans>>

(* validateLogQuery refuses the input.                                     *)
RejectQuery(c) ==
    /\ pc[c] = "submit"
    /\ Go(c, "answered")
    /\ Answer(c, "error")
    /\ UNCHANGED <<jobs, context, id, err>>

-----------------------------------------------------------------------------
(* runLogJob.  The submit: the device accepts the query, refuses it, or    *)
(* accepts it and its answer names no job.  A context that ends under the  *)
(* request leaves open whether the device has it.                          *)
Submit(c) ==
    /\ pc[c] = "submit"
    /\ ctx[c] = "live"
    /\ \/ \E j \in JobIds :
            /\ Accept(c, j)
            /\ \/ /\ id' = [id EXCEPT ![c] = j]
                  /\ Go(c, "poll")
                  /\ UNCHANGED err
               \/ /\ "submit" \in Faults
                  /\ Fails(c, "device", "report")
                  /\ UNCHANGED id
       \/ /\ Fails(c, "device", "report")
          /\ UNCHANGED <<jobs, id>>
    /\ UNCHANGED <<context, ans>>

SubmitCut(c) ==
    /\ pc[c] = "submit"
    /\ ctx[c] # "live"
    /\ Fails(c, CtxErr(c), "report")
    /\ \/ \E j \in JobIds : Accept(c, j)
       \/ UNCHANGED jobs
    /\ UNCHANGED <<context, id, ans>>

(* waitLogJob.  A poll that finds the job running is followed by a sleep.  *)
Poll(c) ==
    /\ pc[c] = "poll"
    /\ ctx[c] = "live"
    /\ \/ /\ jobs[id[c]].st = "ok"
          /\ Go(c, "answered")
          /\ Answer(c, "entries")
          /\ UNCHANGED err
       \/ /\ jobs[id[c]].st = "fail"
          /\ Fails(c, "device", "ended")
          /\ UNCHANGED ans
       \/ /\ jobs[id[c]].st \notin {"ok", "fail"}
          /\ Go(c, "sleep")
          /\ UNCHANGED <<err, ans>>
    /\ UNCHANGED <<jobs, context, id>>

(* The finished job's body cannot be decoded or encoded.                   *)
Undecodable(c) ==
    /\ pc[c] = "poll"
    /\ ctx[c] = "live"
    /\ jobs[id[c]].st = "ok"
    /\ "poll" \in Faults
    /\ Go(c, "answered")
    /\ Answer(c, "error")
    /\ UNCHANGED <<jobs, context, id, err>>

(* The request fails, or its answer carries no job status.                 *)
PollFails(c) ==
    /\ pc[c] = "poll"
    /\ ctx[c] = "live"
    /\ "poll" \in Faults
    /\ Fails(c, "device", "ended")
    /\ UNCHANGED <<jobs, context, id, ans>>

PollCut(c) ==
    /\ pc[c] \in {"poll", "sleep"}
    /\ ctx[c] # "live"
    /\ Fails(c, CtxErr(c), "ended")
    /\ UNCHANGED <<jobs, context, id, ans>>

(* The timer fires; when the context has ended as well, select may still   *)
(* take the timer.                                                         *)
Wake(c) ==
    /\ pc[c] = "sleep"
    /\ Go(c, "poll")
    /\ UNCHANGED <<jobs, context, id, err, ans>>

(* Mutant: a job is dropped only when JobWait was what ended the wait.     *)
GiveUpOnBudget(c) ==
    /\ pc[c] = "ended"
    /\ Go(c, IF ctx[c] = "JobWait" THEN "finish" ELSE "report")
    /\ UNCHANGED <<jobs, context, id, err, ans>>

(* After the wait: only a context that has ended makes the call drop its   *)
(* job.                                                                    *)
GiveUp(c) ==
    /\ pc[c] = "ended"
    /\ Go(c, IF ctx[c] # "live" THEN "finish" ELSE "report")
    /\ UNCHANGED <<jobs, context, id, err, ans>>

(* Mutant: the request to drop the job names no job.                       *)
FinishLogJobs(c) ==
    /\ pc[c] = "finish"
    /\ Go(c, "report")
    /\ jobs' = [j \in JobIds |->
                    IF Live(j) THEN [jobs[j] EXCEPT !.st = "dropped"] ELSE jobs[j]]
    /\ UNCHANGED <<context, id, err, ans>>

(* finishLogJob, on a context of its own; a failure is only logged.        *)
FinishLogJob(c) ==
    /\ pc[c] = "finish"
    /\ Go(c, "report")
    /\ \/ jobs' = [jobs EXCEPT ![id[c]].st = "dropped"]
       \/ /\ "finish" \in Faults
          /\ jobs' = [jobs EXCEPT ![id[c]].st = IF Live(id[c]) THEN "kept" ELSE @]
    /\ UNCHANGED <<context, id, err, ans>>

(* Mutant: the state of the context decides, not the error.                *)
LogJobErrorByContext(c) ==
    /\ pc[c] = "report"
    /\ Go(c, "answered")
    /\ Answer(c, IF ctx[c] = "JobWait" /\ ~gone[c] THEN "not seen finished" ELSE "error")
    /\ UNCHANGED <<jobs, context, id, err>>

(* logJobError: a deadline is JobWait's unless the caller has gone too.    *)
LogJobError(c) ==
    /\ pc[c] = "report"
    /\ Go(c, "answered")
    /\ Answer(c, IF err[c] = "DeadlineExceeded" /\ ~gone[c]
                 THEN "not seen finished" ELSE "error")
    /\ UNCHANGED <<jobs, context, id, err>>

-----------------------------------------------------------------------------
Step(c) ==
    \/ RejectQuery(c) \/ Submit(c) \/ SubmitCut(c)
    \/ Poll(c) \/ Undecodable(c) \/ PollFails(c) \/ PollCut(c) \/ Wake(c)
    \/ GiveUp(c) \/ FinishLogJob(c) \/ LogJobError(c)

Next ==
    \/ \E c \in Calls :
        \/ Invoke(c) \/ Return(c) \/ JobWaitEnds(c) \/ CallerEnds(c) \/ Step(c)
    \/ \E j \in JobIds : RunsOut(j)

Spec == Init /\ [][Next]_vars

(* The server's side only: its goroutines run and its timer fires.         *)
FairSpec ==
    /\ Spec
    /\ \A c \in Calls : WF_vars(Step(c)) /\ WF_vars(JobWaitEnds(c))

-----------------------------------------------------------------------------
(* "not seen finished within JobWait" is said only when JobWait is what    *)
(* ended the wait (not the caller), and never of a job that a poll has     *)
(* seen fail or of a request the device answered with an error             *)
(* (log_tools.go:304-316).                                                 *)
NotSeenFinished ==
    \A c \in Calls : ans[c] = "not seen finished" =>
        ctx[c] = "JobWait" /\ err[c] # "device"

(* Entries come from a job the device ran for this very call to its good   *)
(* end, and no call, whatever it gives up on, drops a job that another     *)
(* still polls.                                                            *)
OwnJobOnly ==
    \A c \in Calls, j \in JobIds :
        /\ id[c] = j => jobs[j].of = c
        /\ id[c] = j /\ ans[c] = "entries" => jobs[j].st = "ok"
        /\ id[c] = j /\ pc[c] \in {"poll", "sleep", "ended"} => jobs[j].st # "dropped"

(* A call whose wait ended because its context did has asked the device to *)
(* drop the job by the time it answers, so that no job it can name stays   *)
(* queued (log_tools.go:290-294): a running job it leaves is one whose     *)
(* poll failed on a live context.                                          *)
NamedJobDropped ==
    \A c \in Calls :
        pc[c] = "answered" /\ id[c] # NoJob /\ jobs[id[c]].st = "running" =>
            err[c] = "device"

(* Every query is answered although nothing makes the device finish a job. *)
Answered == \A c \in Calls : pc[c] = "submit" ~> pc[c] = "answered"

(* "When the wait ends early, because that time ran out or the caller      *)
(* cancelled, it asks the device to drop the unfinished job" (README.md    *)
(* 284): no job runs on for a call that has answered because of its        *)
(* context.                                                                *)
DroppedWhenWaitEnds ==
    \A c \in Calls, j \in JobIds :
        pc[c] = "answered" /\ err[c] \in {"DeadlineExceeded", "Canceled"} =>
            ~(jobs[j].of = c /\ jobs[j].st = "running")
=============================================================================
