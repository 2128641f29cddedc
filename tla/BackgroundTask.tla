--------------------------- MODULE BackgroundTask ---------------------------
(***************************************************************************)
(* One Background Task row (frappe/utils/task_queue, doctype               *)
(* background_task): the RQ workers that execute it, stop_task and         *)
(* retry_task from the web.  The row lives in PostgreSQL at REPEATABLE     *)
(* READ, the job in Redis: the two are never changed in one step.  A       *)
(* transaction that read the row cannot write it after somebody else did.  *)
(***************************************************************************)
EXTENDS Naturals

CONSTANTS Worker,
          Web,          \* web workers that run stop_task and retry_task
          MaxRetries,   \* max_retries of enqueue_task
          MaxCalls      \* bound: stop_task and retry_task calls

ASSUME TaskAssumption ==
  /\ Worker \cap Web = {}
  /\ MaxRetries \in Nat /\ MaxCalls \in Nat

Proc == Worker \cup Web

VARIABLES
  status,       \* the row's status
  enqueuing,    \* the after_commit callback of enqueue_task has not run yet
  jobs,         \* entries of the job in the RQ queue
  rq,           \* the status of the RQ job, "none" before there is one
  retriesLeft,  \* retries_left of the RQ job
  kill,         \* workers with an undelivered stop command
  phase,        \* phase[p]: where process p is
  effects,      \* history: commits of the target's work
  calls,        \* history: stop_task and retry_task calls
  causes        \* history: what went wrong outside the row

vars == <<status, enqueuing, jobs, rq, retriesLeft, kill, phase, effects,
          calls, causes>>
job == <<enqueuing, jobs, rq, retriesLeft>>
history == <<effects, calls, causes>>

Ended == {"Completed", "Failed", "Cancelled"}

WorkerPhases == {"idle", "popped", "taken", "read", "stale", "running",
                 "working", "conflict", "failing", "done"}
WebPhases    == {"idle", "stopping", "stopStale", "stopSent", "stopLost",
                 "retrying", "retryStale", "enqueue", "commit"}

TypeOK ==
  /\ status \in Ended \cup {"Queued", "Running"}
  /\ enqueuing \in BOOLEAN
  /\ jobs \in Nat
  /\ rq \in {"none", "queued", "started", "canceled", "ended"}
  /\ retriesLeft \in 0 .. MaxRetries
  /\ kill \subseteq Worker
  /\ phase \in [Proc -> WorkerPhases \cup WebPhases]
  /\ effects \in Nat /\ calls \in Nat
  /\ causes \subseteq {"refused", "early", "lostStop", "lateStop", "crashed",
                       "late", "overlap"}

(* enqueue_task has inserted the row, and its transaction commits.         *)
Init ==
  /\ status = "Queued" /\ enqueuing = TRUE
  /\ jobs = 0 /\ rq = "none" /\ retriesLeft = 0 /\ kill = {}
  /\ phase = [p \in Proc |-> "idle"]
  /\ effects = 0 /\ calls = 0 /\ causes = {}

-----------------------------------------------------------------------------
(* Helpers.                                                                *)

(* A retry_task that has updated the row and not committed locks it.       *)
RowLocked == \E u \in Web : phase[u] \in {"enqueue", "commit"}

Executing == {w \in Worker : phase[w] # "idle"}

MInvalidated == phase

(* The row changes: whoever read it in an open transaction will fail to    *)
(* update it.                                                              *)
Invalidated ==
  [p \in Proc |->
     CASE phase[p] = "read"     -> "stale"
       [] phase[p] = "working"  -> "conflict"
       [] phase[p] = "stopping" -> "stopStale"
       [] phase[p] = "stopSent" -> "stopLost"
       [] phase[p] = "retrying" -> "retryStale"
       [] OTHER                 -> phase[p]]

MMayRun == TRUE

(* _execute_task: a cancelled task is not run.                             *)
MayRun == status # "Cancelled"

MMayFail == status = "Cancelled"

(* ... and its failure does not hide that it was cancelled.                *)
MayFail == status # "Cancelled"

Goto(p, to) == phase' = [phase EXCEPT ![p] = to]

(* p commits a new status and goes on.                                     *)
SetStatus(p, s, to) ==
  /\ ~RowLocked
  /\ status' = s
  /\ phase' = [Invalidated EXCEPT ![p] = to]

Blame(c) == causes' = causes \cup {c}

(* q.enqueue_call, with `retry` retries.                                   *)
Enqueue(retry) == jobs' = jobs + 1 /\ rq' = "queued" /\ retriesLeft' = retry

MRequeueOrEnd == Enqueue(retriesLeft - 1)

(* RQ's handle_job_failure: requeue the job if it has retries left.        *)
RequeueOrEnd ==
  IF retriesLeft > 0 THEN Enqueue(retriesLeft - 1)
                     ELSE rq' = "ended" /\ UNCHANGED <<jobs, retriesLeft>>

-----------------------------------------------------------------------------
(* enqueue_task's after_commit callback; the queue may be overloaded or    *)
(* Redis down, and then the row stays without a job.                       *)
EnqueueAfterCommit(r) ==
  /\ enqueuing
  /\ enqueuing' = FALSE
  /\ IF MayRun THEN Enqueue(r) ELSE UNCHANGED <<jobs, rq, retriesLeft>>
  /\ UNCHANGED <<status, kill, phase, history>>

EnqueueRefused ==
  /\ enqueuing
  /\ enqueuing' = FALSE
  /\ Blame("refused")
  /\ UNCHANGED <<status, jobs, rq, retriesLeft, kill, phase, effects, calls>>

-----------------------------------------------------------------------------
(* An RQ worker and _execute_task.                                         *)

(* A stop command for the job's previous run may still be on its way.      *)
Pop(w) ==
  /\ phase[w] = "idle"
  /\ jobs > 0
  /\ jobs' = jobs - 1
  /\ Goto(w, "popped")
  /\ IF w \in kill THEN Blame("lateStop") ELSE UNCHANGED causes
  /\ UNCHANGED <<status, enqueuing, rq, retriesLeft, kill, effects, calls>>

StartJob(w) ==
  /\ phase[w] = "popped"
  /\ rq' = "started"
  /\ Goto(w, "taken")
  /\ UNCHANGED <<status, enqueuing, jobs, retriesLeft, kill, history>>

(* get_doc; a retry_task that has not committed yet is not visible, and    *)
(* this job is then the only one it will ever have.                        *)
ReadTask(w) ==
  /\ phase[w] = "taken"
  /\ IF MayRun THEN Goto(w, "read") /\ UNCHANGED rq
               ELSE Goto(w, "idle") /\ rq' = "ended"
  /\ IF RowLocked THEN Blame("early") ELSE UNCHANGED causes
  /\ UNCHANGED <<status, enqueuing, jobs, retriesLeft, kill, effects, calls>>

(* db_set Running, commit.                                                 *)
MarkRunning(w) ==
  /\ phase[w] = "read"
  /\ SetStatus(w, "Running", "running")
  /\ UNCHANGED <<job, kill, history>>

(* The row changed meanwhile: outside the try statement, so the job fails  *)
(* and the row is left alone.                                              *)
MarkConflict(w) ==
  /\ phase[w] = "stale"
  /\ RequeueOrEnd
  /\ Goto(w, "idle")
  /\ UNCHANGED <<status, enqueuing, kill, history>>

(* The target's first statement opens its transaction.                     *)
StartTarget(w) ==
  /\ phase[w] = "running"
  /\ Goto(w, "working")
  /\ UNCHANGED <<status, job, kill, history>>

(* The target returns; its work and Completed commit together.             *)
Complete(w) ==
  /\ phase[w] = "working"
  /\ SetStatus(w, "Completed", "done")
  /\ effects' = effects + 1
  /\ UNCHANGED <<job, kill, calls, causes>>

(* The target raises, or Completed cannot be written: rollback.            *)
TargetFails(w) ==
  /\ phase[w] \in {"running", "working", "conflict"}
  /\ Goto(w, "failing")
  /\ UNCHANGED <<status, job, kill, history>>

(* An exception after the commit, in _publish or before the callback       *)
(* (JobTimeoutException), is handled like a failure of the target.         *)
LateFailure(w) ==
  /\ phase[w] = "done"
  /\ Goto(w, "failing")
  /\ Blame("late")
  /\ UNCHANGED <<status, job, kill, effects, calls>>

(* _should_retry: the status stays Running, RQ queues the job again.       *)
RetryLater(w) ==
  /\ phase[w] = "failing"
  /\ retriesLeft > 0
  /\ Enqueue(retriesLeft - 1)
  /\ Goto(w, "idle")
  /\ UNCHANGED <<status, enqueuing, kill, history>>

(* _disable_rq_retry and Failed.  The check and the update are one step: a *)
(* stop_task that commits in between makes the update fail, as if it had   *)
(* been seen.  execute_job would run the task again, after Failed, if the  *)
(* target had raised RetryBackgroundJobError: only create_contact of User  *)
(* raises it, which is no target of enqueue_task, so this is left out.     *)
MarkFailed(w) ==
  /\ phase[w] = "failing"
  /\ IF MayFail THEN SetStatus(w, "Failed", "idle")
                ELSE Goto(w, "idle") /\ UNCHANGED status
  /\ rq' = "ended" /\ retriesLeft' = 0
  /\ UNCHANGED <<enqueuing, jobs, kill, history>>

EndJob(w) ==
  /\ phase[w] = "done"
  /\ rq' = "ended"
  /\ Goto(w, "idle")
  /\ UNCHANGED <<status, enqueuing, jobs, retriesLeft, kill, history>>

(* The work horse dies; RQ may run the job again, the row is left alone.   *)
Crash(w) ==
  /\ w \in Executing
  /\ RequeueOrEnd
  /\ Goto(w, "idle")
  /\ Blame("crashed")
  /\ UNCHANGED <<status, enqueuing, kill, effects, calls>>

(* The stop command reaches its worker, which kills whatever runs there    *)
(* under the job's id.                                                     *)
Stopped(w) ==
  /\ w \in kill
  /\ kill' = kill \ {w}
  /\ Goto(w, "idle")
  /\ IF phase[w] = "idle" THEN UNCHANGED rq ELSE rq' = "ended"
  /\ UNCHANGED <<status, enqueuing, jobs, retriesLeft, history>>

-----------------------------------------------------------------------------
(* stop_task.                                                              *)

StopRead(u) ==
  /\ phase[u] = "idle"
  /\ calls < MaxCalls
  /\ status \in {"Queued", "Running"}
  /\ rq # "none"
  /\ calls' = calls + 1
  /\ Goto(u, "stopping")
  /\ UNCHANGED <<status, job, kill, effects, causes>>

(* send_stop_job_command to the worker of a started job, or job.cancel(),  *)
(* which takes the job off the queue.                                      *)
StopJob(u) ==
  /\ phase[u] \in {"stopping", "stopStale"}
  /\ \/ /\ rq = "started"
        /\ \E w \in Executing : phase[w] # "popped" /\ kill' = kill \cup {w}
        /\ UNCHANGED <<jobs, rq>>
     \/ /\ rq \in {"queued", "ended"}
        /\ jobs' = 0
        /\ rq' = "canceled"
        /\ UNCHANGED kill
  /\ Goto(u, IF phase[u] = "stopping" THEN "stopSent" ELSE "stopLost")
  /\ UNCHANGED <<status, enqueuing, retriesLeft, history>>

(* Then the row.                                                           *)
StopCommit(u) ==
  /\ phase[u] = "stopSent"
  /\ SetStatus(u, "Cancelled", "idle")
  /\ UNCHANGED <<job, kill, history>>

(* The row changed since it was read: the request fails, and the job is    *)
(* stopped all the same.                                                   *)
StopConflict(u) ==
  /\ phase[u] = "stopLost"
  /\ Goto(u, "idle")
  /\ Blame("lostStop")
  /\ UNCHANGED <<status, job, kill, effects, calls>>

(* RQ does not cancel a job twice, and the request fails.                  *)
StopRefused(u) ==
  /\ phase[u] \in {"stopping", "stopStale"}
  /\ rq = "canceled"
  /\ Goto(u, "idle")
  /\ UNCHANGED <<status, job, kill, history>>

-----------------------------------------------------------------------------
(* retry_task.                                                             *)

RetryRead(u) ==
  /\ phase[u] = "idle"
  /\ calls < MaxCalls
  /\ status \in {"Failed", "Cancelled"}
  /\ calls' = calls + 1
  /\ Goto(u, "retrying")
  /\ UNCHANGED <<status, job, kill, effects, causes>>

(* db_set Queued: the row is locked, the others see nothing yet.           *)
RetryWrite(u) ==
  /\ phase[u] = "retrying"
  /\ ~RowLocked
  /\ Goto(u, "enqueue")
  /\ UNCHANGED <<status, job, kill, history>>

(* frappe.enqueue, at once and not after the commit.                       *)
RetryEnqueue(u) ==
  /\ phase[u] = "enqueue"
  /\ Enqueue(0)
  /\ Goto(u, "commit")
  /\ IF Executing # {} \/ jobs > 0 THEN Blame("overlap") ELSE UNCHANGED causes
  /\ UNCHANGED <<status, enqueuing, kill, effects, calls>>

RetryCommit(u) ==
  /\ phase[u] = "commit"
  /\ status' = "Queued"
  /\ phase' = [Invalidated EXCEPT ![u] = "idle"]
  /\ UNCHANGED <<job, kill, history>>

(* Another retry_task won, the queue refuses, or the request dies before   *)
(* its commit and leaves the job in the queue.                             *)
RetryFails(u) ==
  /\ phase[u] \in {"retryStale", "enqueue", "commit"}
  /\ Goto(u, "idle")
  /\ UNCHANGED <<status, job, kill, history>>

-----------------------------------------------------------------------------
WorkerStep(w) ==
  \/ Pop(w) \/ StartJob(w) \/ ReadTask(w)
  \/ MarkRunning(w) \/ MarkConflict(w)
  \/ StartTarget(w) \/ Complete(w) \/ TargetFails(w) \/ LateFailure(w)
  \/ RetryLater(w) \/ MarkFailed(w) \/ EndJob(w)
  \/ Stopped(w)

WebStep(u) ==
  \/ StopJob(u) \/ StopCommit(u) \/ StopConflict(u) \/ StopRefused(u)
  \/ RetryWrite(u) \/ RetryEnqueue(u) \/ RetryCommit(u) \/ RetryFails(u)

Next ==
  \/ \E r \in 0 .. MaxRetries : EnqueueAfterCommit(r)
  \/ EnqueueRefused
  \/ \E w \in Worker : WorkerStep(w) \/ Crash(w)
  \/ \E u \in Web : WebStep(u) \/ StopRead(u) \/ RetryRead(u)

Spec == Init /\ [][Next]_vars

(* Workers and requests go on, RQ pops what is queued, a target ends (RQ   *)
(* enforces the job's timeout).  Nobody has to call stop or retry.         *)
Fairness ==
  /\ WF_vars(EnqueueRefused \/ \E r \in 0 .. MaxRetries : EnqueueAfterCommit(r))
  /\ \A w \in Worker : WF_vars(WorkerStep(w))
  /\ \A u \in Web : WF_vars(WebStep(u))

FairSpec == Spec /\ Fairness

-----------------------------------------------------------------------------
(* Properties.                                                             *)

(* A task that stop_task cancelled stays cancelled until somebody retries  *)
(* it, although the row and the queue change in separate steps and a       *)
(* worker may hold the job already; only a worker with a stop command      *)
(* still on its way, or one that another retry left running, can finish.   *)
CancelIsFinal ==
  [][status = "Cancelled" /\ status' # "Cancelled"
       => status' = "Queued" \/ kill # {} \/ "overlap" \in causes]_vars

(* Completed and the target's work commit together, and a task that is not *)
(* Completed has left nothing behind: work is never done twice or kept by  *)
(* a failed task, unless a worker failed after its commit, crashed, or a   *)
(* retry was queued while the run before it was still going on.            *)
CompletedIffDone ==
  causes \cap {"late", "crashed", "overlap"} = {}
    => effects = IF status = "Completed" THEN 1 ELSE 0

(* A task ends, unless its job was refused or taken too early by a worker  *)
(* that could not see the retry, a stop killed the job and lost the row or *)
(* came so late that it killed the next run, a retry was queued while the  *)
(* run before it was still going on ("overlap"), or a worker died.         *)
TaskEnds ==
  status \in {"Queued", "Running"} ~>
    \/ status \in Ended
    \/ causes \ {"late"} # {}
=============================================================================
