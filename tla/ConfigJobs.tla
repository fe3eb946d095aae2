----------------------------- MODULE ConfigJobs -----------------------------
(***************************************************************************)
(* The tools that move whole configs (device_tools.go): commit, push,      *)
(* validate and revert on the write side, the config diff and the job      *)
(* status on the read side, next to the handlers that edit the candidate.  *)
(* Commit, push and validate start a job on the device and poll it under   *)
(* the write lock for at most JobWait.                                     *)
(*                                                                         *)
(* The device runs config jobs one at a time, in the order it queued them  *)
(* (they take the same config lock, device_tools.go:215-221), and a job    *)
(* works on the config as it is when the job starts.  A job may take any   *)
(* time; the server's wait for it, its caller and the network may end      *)
(* first.                                                                  *)
(***************************************************************************)
EXTENDS WriteMu, Naturals

CONSTANTS
    Configs,    \* whole configs
    Tools,      \* the tools the server registers: fewer on a firewall or read-only
    MaxJobs,    \* bound: config jobs the device accepts in a behaviour
    NoJob

JobTools == {"commit", "push", "validate"}
WriteTools == JobTools \cup {"revert", "edit"}
ReadTools == {"diff", "status"}

ASSUME ToolsAssumption == Tools \subseteq WriteTools \cup ReadTools
ASSUME MaxJobsAssumption == MaxJobs \in Nat
ASSUME NoJobAssumption == NoJob \notin 1 .. MaxJobs
ASSUME ConfigsAssumption == Configs # {}

VARIABLES
    candidate, running,     \* the configs of the device we talk to
    pushed,                 \* what a Panorama's managed devices run
    jobs,                   \* the device's job table
    pc, op,                 \* per call: its step and its tool
    job,                    \* per call: the job it started
    ans                     \* per call: its answer

vars == <<muVars, candidate, running, pushed, jobs, pc, op, job, ans>>

JobIds == 1 .. MaxJobs
JobStates == {"unused", "queued", "active", "ok", "fail"}
Unfinished == {"queued", "active"}

Steps == {"idle", "start", "draining", "inside", "wait", "unlock",
          "reading", "runlock"}
Answers == {"none", "ok", "error", "still running", "pending changes", "no changes"}
                \cup JobStates

TypeOK ==
    /\ MuTypeOK
    /\ candidate \in Configs /\ running \in Configs /\ pushed \in Configs
    /\ jobs \in [JobIds -> [kind : JobTools, st : JobStates, config : Configs]]
    /\ pc \in [Calls -> Steps]
    /\ op \in [Calls -> WriteTools \cup ReadTools \cup {"none"}]
    /\ job \in [Calls -> JobIds \cup {NoJob}]
    /\ ans \in [Calls -> Answers]

Init ==
    /\ MuInit
    /\ candidate \in Configs /\ running \in Configs /\ pushed = running
    /\ jobs = [j \in JobIds |-> [kind |-> "commit", st |-> "unused", config |-> running]]
    /\ pc = [c \in Calls |-> "idle"]
    /\ op = [c \in Calls |-> "none"]
    /\ job = [c \in Calls |-> NoJob]
    /\ ans = [c \in Calls |-> "none"]

Go(c, step) == pc' = [pc EXCEPT ![c] = step]
Answer(c, a) == ans' = [ans EXCEPT ![c] = a]

device == <<candidate, running, pushed, jobs>>

-----------------------------------------------------------------------------
(* The device.                                                             *)
Live(j) == jobs[j].st \in Unfinished

(* It puts a new job at the end of its queue.                              *)
NextJob(j) ==
    /\ jobs[j].st = "unused"
    /\ \A i \in JobIds : i < j => jobs[i].st # "unused"

Enqueue(j, kind) ==
    /\ NextJob(j)
    /\ jobs' = [jobs EXCEPT ![j].st = "queued", ![j].kind = kind]
    /\ UNCHANGED <<candidate, running, pushed>>

StartOf(j) ==
    /\ jobs[j].st = "queued"
    /\ \A i \in JobIds : i < j => ~Live(i)
    /\ jobs' = [jobs EXCEPT
                    ![j].st = "active",
                    ![j].config = IF jobs[j].kind = "push" THEN running ELSE candidate]
    /\ UNCHANGED <<muVars, candidate, running, pushed, pc, op, job, ans>>

FinishOf(j) ==
    /\ jobs[j].st = "active"
    /\ \/ /\ jobs' = [jobs EXCEPT ![j].st = "ok"]
          /\ running' = IF jobs[j].kind = "commit" THEN jobs[j].config ELSE running
          /\ pushed' = IF jobs[j].kind = "push" THEN jobs[j].config ELSE pushed
       \/ /\ jobs' = [jobs EXCEPT ![j].st = "fail"]
          /\ UNCHANGED <<running, pushed>>
    /\ UNCHANGED <<muVars, candidate, pc, op, job, ans>>

-----------------------------------------------------------------------------
(* Calls and the lock.                                                     *)
Invoke(c) ==
    /\ pc[c] = "idle"
    /\ \E tool \in Tools : op' = [op EXCEPT ![c] = tool]
    /\ Go(c, "start")
    /\ UNCHANGED <<muVars, device, job, ans>>

(* The deferred unlock runs as the handler returns: the call is over.      *)
Return(c) ==
    /\ Go(c, "idle")
    /\ op' = [op EXCEPT ![c] = "none"]
    /\ job' = [job EXCEPT ![c] = NoJob]
    /\ Answer(c, "none")
    /\ UNCHANGED device

(* A push to no device group, or from a firewall, is refused unlocked.     *)
RejectPush(c) ==
    /\ pc[c] = "start"
    /\ op[c] = "push"
    /\ Return(c)
    /\ UNCHANGED muVars

LockWrites(c) ==
    /\ pc[c] = "start"
    /\ op[c] \in WriteTools
    /\ LockClaim(c)
    /\ Go(c, "draining")
    /\ UNCHANGED <<device, op, job, ans>>

EnterWrite(c) ==
    /\ pc[c] = "draining"
    /\ LockEnter(c)
    /\ Go(c, "inside")
    /\ UNCHANGED <<device, op, job, ans>>

UnlockWrite(c) ==
    /\ pc[c] = "unlock"
    /\ Unlock(c)
    /\ Return(c)

RLockReads(c) ==
    /\ pc[c] = "start"
    /\ op[c] \in ReadTools
    /\ RLock(c)
    /\ Go(c, "reading")
    /\ UNCHANGED <<device, op, job, ans>>

UnlockRead(c) ==
    /\ pc[c] = "runlock"
    /\ RUnlock(c)
    /\ Return(c)

-----------------------------------------------------------------------------
(* The handlers that start a job.  The device may refuse it (a commit      *)
(* without changes, a full queue), or queue it and its answer be lost.     *)
StartJob(c) ==
    /\ pc[c] = "inside"
    /\ op[c] \in JobTools
    /\ \/ \E j \in JobIds :
            /\ Enqueue(j, op[c])
            /\ \/ /\ job' = [job EXCEPT ![c] = j]
                  /\ Go(c, "wait")
                  /\ UNCHANGED ans
               \/ /\ Go(c, "unlock")
                  /\ Answer(c, "error")
                  /\ UNCHANGED job
       \/ /\ Go(c, "unlock")
          /\ Answer(c, "error")
          /\ UNCHANGED <<device, job>>
    /\ UNCHANGED <<muVars, op>>

(* Mutant: a finished job counts as a good one.                            *)
PollFinished(c) ==
    /\ pc[c] = "wait"
    /\ ~Live(job[c])
    /\ Go(c, "unlock")
    /\ Answer(c, "ok")
    /\ UNCHANGED <<muVars, device, op, job>>

(* waitJob: a poll that finds the job finished ends the wait.              *)
PollJob(c) ==
    /\ pc[c] = "wait"
    /\ ~Live(job[c])
    /\ Go(c, "unlock")
    /\ Answer(c, IF jobs[job[c]].st = "ok" THEN "ok" ELSE "error")
    /\ UNCHANGED <<muVars, device, op, job>>

(* Mutant: the wait for a job has no end of its own.                       *)
WaitOn(c) == PollJob(c)

(* The JobWait deadline passes, whatever the job has come to since the     *)
(* last poll; or the poll fails or the caller goes away, which is an       *)
(* error.  Either way the handler returns and gives the lock back.         *)
WaitEnds(c) ==
    /\ pc[c] = "wait"
    /\ Go(c, "unlock")
    /\ \/ Answer(c, "still running")
       \/ Answer(c, "error")
    /\ UNCHANGED <<muVars, device, op, job>>

(* revertHandler, and the last request of any handler that edits.     *)
Write(c, config) ==
    /\ pc[c] = "inside"
    /\ Go(c, "unlock")
    /\ \/ candidate' = config /\ \E a \in {"ok", "error"} : Answer(c, a)
       \/ UNCHANGED candidate /\ Answer(c, "error")
    /\ UNCHANGED <<muVars, running, pushed, jobs, op, job>>

(* Mutant: a revert need not wait for the lock.                            *)
RevertUnlocked(c) ==
    /\ op[c] = "revert"
    /\ \/ Write(c, running)
       \/ /\ pc[c] = "start"
          /\ Go(c, "idle")
          /\ candidate' = running
          /\ UNCHANGED <<muVars, running, pushed, jobs, op, job, ans>>

Revert(c) == op[c] = "revert" /\ Write(c, running)
Edit(c) == op[c] = "edit" /\ \E config \in Configs : Write(c, config)

(* configDiffHandler and jobStatusHandler: one request each.  The status   *)
(* of no job at all is refused.                                            *)
ConfigDiff(c) ==
    /\ pc[c] = "reading"
    /\ HoldsRead(c)
    /\ op[c] = "diff"
    /\ Go(c, "runlock")
    /\ \/ Answer(c, IF candidate = running THEN "no changes" ELSE "pending changes")
       \/ Answer(c, "error")
    /\ UNCHANGED <<muVars, device, op, job>>

JobStatus(c) ==
    /\ pc[c] = "reading"
    /\ HoldsRead(c)
    /\ op[c] = "status"
    /\ Go(c, "runlock")
    /\ \/ \E j \in JobIds : jobs[j].st # "unused" /\ Answer(c, jobs[j].st)
       \/ Answer(c, "error")
    /\ UNCHANGED <<muVars, device, op, job>>

-----------------------------------------------------------------------------
Step(c) ==
    \/ RejectPush(c) \/ LockWrites(c) \/ EnterWrite(c) \/ UnlockWrite(c)
    \/ RLockReads(c) \/ UnlockRead(c)
    \/ StartJob(c) \/ PollJob(c) \/ WaitEnds(c) \/ Revert(c) \/ Edit(c)
    \/ ConfigDiff(c) \/ JobStatus(c)

Next ==
    \/ \E c \in Calls : Invoke(c) \/ Step(c)
    \/ \E j \in JobIds : StartOf(j) \/ FinishOf(j)

Spec == Init /\ [][Next]_vars

(* The server's side only: nothing is assumed of how long a job takes.     *)
FairSpec ==
    /\ Spec
    /\ \A c \in Calls : WF_vars(Step(c)) /\ SF_vars(LockWrites(c))

-----------------------------------------------------------------------------
(* The write lock belongs to the call inside a write handler, from its     *)
(* first request to the end of its wait for a job, and readers are inside  *)
(* only when no such call is (tools.go:26-30).                             *)
LockDiscipline ==
    /\ MuInv
    /\ \A c \in Calls :
        /\ pc[c] = "draining" => writer = c /\ ~entered
        /\ pc[c] \in {"inside", "wait", "unlock"} <=> HoldsWrite(c)
        /\ c \in readers \cup parked <=> pc[c] \in {"reading", "runlock"}
        /\ pc[c] = "runlock" => c \in readers

(* A job's good result describes the config as it still is when its caller *)
(* gives the lock back: a commit has made the whole candidate the running  *)
(* config, a validation was of this candidate, a push has sent out this    *)
(* running config.  Jobs that earlier calls gave up on may finish in       *)
(* between and must not change that.                                       *)
JobResultCurrent ==
    \A c \in Calls :
        pc[c] = "unlock" /\ ans[c] = "ok" /\ op[c] \in JobTools =>
            /\ job[c] # NoJob
            /\ jobs[job[c]].kind = op[c] /\ jobs[job[c]].st = "ok"
            /\ op[c] = "commit" => running = candidate
            /\ op[c] = "validate" => jobs[job[c]].config = candidate
            /\ op[c] = "push" => pushed = running

(* From the start of a job to the end of the wait for it, nothing this     *)
(* server does edits the candidate or queues another job behind it.        *)
WatchedJobAlone ==
    [][\A c \in Calls : pc[c] = "wait" =>
            /\ candidate' = candidate
            /\ \A j \in JobIds : jobs[j].st = "unused" => jobs'[j].st = "unused"]_vars

(* While a read is inside, the candidate stands still, and the running     *)
(* config moves only by a job that no call is waiting for any more.        *)
ReadsSeeNoWrites ==
    [][readers # {} =>
            /\ candidate' = candidate
            /\ running' # running => \A c \in Calls : pc[c] # "wait"]_vars

(* Every tool call is answered, even when the device never finishes a job: *)
(* JobWait bounds how long one call can keep the others out.               *)
Answered == \A c \in Calls : pc[c] = "start" ~> pc[c] = "idle"
=============================================================================
