---------------------------- MODULE BackgroundJob ----------------------------
(***************************************************************************)
(* frappe/utils/background_jobs.py: `enqueue` with deduplicate=True for    *)
(* one job id, and `execute_job` in the RQ workers.  Looking the job up,   *)
(* deleting it and queuing it are separate Redis commands.  RQ itself is   *)
(* known only by what the code uses of it.                                 *)
(***************************************************************************)
EXTENDS Naturals, FiniteSets

CONSTANTS Caller,       \* processes that call enqueue
          Worker,       \* RQ workers
          MaxRetry,     \* execute_job retries while `retry < 5`
          MaxCalls      \* bound: calls of enqueue

ASSUME JobAssumption ==
  /\ IsFiniteSet(Caller) /\ IsFiniteSet(Worker)
  /\ MaxRetry \in Nat /\ MaxCalls \in Nat

VARIABLES
  entries,  \* how often the job id is in the RQ queue
  rq,       \* the status of the RQ job, "none" without a job
  at,       \* at[c]: where caller c is in enqueue
  run,      \* run[w]: what worker w does
  raised,   \* raised[w]: the exception the method raised, or "none"
  retry,    \* retry[w]: execute_job's `retry`
  calls,    \* history: calls of enqueue
  raced,    \* history: two callers were inside enqueue at the same time
  dropped   \* history: since the job was last queued, a worker died between
            \* taking it off the queue and marking it started

jobVars == <<entries, rq, at, run, raised, retry, calls, raced, dropped>>
queue == <<entries, rq, dropped>>
callers == <<at, calls, raced>>
workers == <<run, raised, retry>>

Exceptions == {"RetryBackgroundJobError", "QueryDeadlockError", "other"}

JobTypeOK ==
  /\ entries \in Nat
  /\ rq \in {"none", "queued", "started", "ended"}
  /\ at \in [Caller -> {"out", "delete", "enqueue"}]
  /\ run \in [Worker -> {"idle", "popped", "running"}]
  /\ raised \in [Worker -> Exceptions \cup {"none"}]
  /\ retry \in [Worker -> 0 .. MaxRetry]
  /\ calls \in Nat /\ raced \in BOOLEAN /\ dropped \in BOOLEAN

JobInit ==
  /\ entries = 0 /\ rq = "none"
  /\ at = [c \in Caller |-> "out"]
  /\ run = [w \in Worker |-> "idle"]
  /\ raised = [w \in Worker |-> "none"]
  /\ retry = [w \in Worker |-> 0]
  /\ calls = 0 /\ raced = FALSE /\ dropped = FALSE

-----------------------------------------------------------------------------
(* Helpers.                                                                *)

Busy == {w \in Worker : run[w] # "idle"}

MIsEnqueued == rq = "queued"

(* The job is queued or started.                                           *)
IsEnqueued == rq \in {"queued", "started"}

(* The exceptions that execute_job's first handler catches and retries: no *)
(* exception that Database.sql raises is an InternalError, and a deadlock  *)
(* is raised as QueryDeadlockError.                                        *)
CaughtForRetry(e) == e = "RetryBackgroundJobError"

-----------------------------------------------------------------------------
(* enqueue.                                                                *)

(* get_job: nothing to do if the job is in the queue, else a finished job  *)
(* of that id is deleted first.                                            *)
LookUp(c) ==
  /\ at[c] = "out"
  /\ calls < MaxCalls
  /\ calls' = calls + 1
  /\ at' = [at EXCEPT ![c] = IF IsEnqueued THEN "out"
                             ELSE IF rq = "none" THEN "enqueue" ELSE "delete"]
  /\ raced' = (raced \/ \E d \in Caller : at[d] # "out")
  /\ UNCHANGED <<queue, workers>>

(* job.delete() takes whatever has that id off the queue.                  *)
DeleteJob(c) ==
  /\ at[c] = "delete"
  /\ entries' = 0 /\ rq' = "none"
  /\ UNCHANGED dropped
  /\ at' = [at EXCEPT ![c] = "enqueue"]
  /\ UNCHANGED <<calls, raced, workers>>

(* enqueue_call, at once or in an after_commit callback.                   *)
EnqueueCall(c) ==
  /\ at[c] = "enqueue"
  /\ entries' = entries + 1 /\ rq' = "queued"
  /\ dropped' = FALSE
  /\ at' = [at EXCEPT ![c] = "out"]
  /\ UNCHANGED <<calls, raced, workers>>

(* QueueOverloaded, or the transaction is rolled back.                     *)
GiveUp(c) ==
  /\ at[c] = "enqueue"
  /\ at' = [at EXCEPT ![c] = "out"]
  /\ UNCHANGED <<calls, raced, queue, workers>>

-----------------------------------------------------------------------------
(* RQ, and execute_job.                                                    *)

Pop(w) ==
  /\ run[w] = "idle"
  /\ entries > 0
  /\ entries' = entries - 1
  /\ run' = [run EXCEPT ![w] = "popped"]
  /\ UNCHANGED <<rq, dropped, raised, retry, callers>>

StartJob(w) ==
  /\ run[w] = "popped"
  /\ rq' = "started"
  /\ run' = [run EXCEPT ![w] = "running"]
  /\ UNCHANGED <<entries, dropped, raised, retry, callers>>

End(w) ==
  /\ rq' = "ended"
  /\ run' = [run EXCEPT ![w] = "idle"]
  /\ raised' = [raised EXCEPT ![w] = "none"]
  /\ retry' = [retry EXCEPT ![w] = 0]
  /\ UNCHANGED <<entries, dropped, callers>>

(* The method returns: commit.                                             *)
Succeed(w) == run[w] = "running" /\ raised[w] = "none" /\ End(w)

Raise(w, e) ==
  /\ run[w] = "running" /\ raised[w] = "none"
  /\ raised' = [raised EXCEPT ![w] = e]
  /\ UNCHANGED <<run, retry, queue, callers>>

MMayRetry(w) == retry[w] <= MaxRetry

MayRetry(w) == retry[w] < MaxRetry

MRetry(w) ==
  /\ CaughtForRetry(raised[w])
  /\ MayRetry(w)
  /\ raised' = [raised EXCEPT ![w] = "none"]
  /\ UNCHANGED <<run, retry, queue, callers>>

(* Rollback, and the same job again.                                       *)
Retry(w) ==
  /\ CaughtForRetry(raised[w])
  /\ MayRetry(w)
  /\ raised' = [raised EXCEPT ![w] = "none"]
  /\ retry' = [retry EXCEPT ![w] = @ + 1]
  /\ UNCHANGED <<run, queue, callers>>

(* Rollback, log, and RQ marks the job failed.                             *)
FailJob(w) ==
  /\ raised[w] # "none"
  /\ CaughtForRetry(raised[w]) => ~MayRetry(w)
  /\ End(w)

(* The worker dies with its job, which keeps its status: queued if it was  *)
(* not marked started yet, and then nobody will ever take it again ...     *)
WorkerDies(w) ==
  /\ w \in Busy
  /\ dropped' = (dropped \/ run[w] = "popped")
  /\ run' = [run EXCEPT ![w] = "idle"]
  /\ raised' = [raised EXCEPT ![w] = "none"]
  /\ retry' = [retry EXCEPT ![w] = 0]
  /\ UNCHANGED <<entries, rq, callers>>

(* ... else started, until RQ finds that nobody renews it.                 *)
Abandon ==
  /\ rq = "started" /\ Busy = {}
  /\ rq' = "ended"
  /\ UNCHANGED <<entries, dropped, callers, workers>>

-----------------------------------------------------------------------------
CallerStep(c) == LookUp(c) \/ DeleteJob(c) \/ EnqueueCall(c) \/ GiveUp(c)

WorkerStep(w) ==
  \/ Pop(w) \/ StartJob(w) \/ Succeed(w) \/ Retry(w) \/ FailJob(w)
  \/ \E e \in Exceptions : Raise(w, e)

JobNext ==
  \/ \E c \in Caller : CallerStep(c)
  \/ \E w \in Worker : WorkerStep(w) \/ WorkerDies(w)
  \/ Abandon

JobSpec == JobInit /\ [][JobNext]_jobVars

(* Workers go on, and RQ finds abandoned jobs.                             *)
JobFairness == WF_jobVars(Abandon) /\ \A w \in Worker : WF_jobVars(WorkerStep(w))

JobFairSpec == JobSpec /\ JobFairness

-----------------------------------------------------------------------------
(* Properties.                                                             *)

(* "do not re-queue job if it's already queued": the queue never holds the *)
(* same job twice.                                                         *)
NeverQueuedTwice == entries <= 1

(* As long as no two calls of enqueue overlap, the job is waiting or       *)
(* running at most once: also when it fails, is retried, ends just now, or *)
(* its worker dies.                                                        *)
OneJobAtATime == ~raced => entries + Cardinality(Busy) <= 1

(* "retry the job if 1213 = deadlock": a job that hits a deadlock before   *)
(* its retries are used up runs again.                                     *)
DeadlockIsRetried ==
  [][\A w \in Worker :
       raised[w] = "QueryDeadlockError" /\ retry[w] < MaxRetry /\ raised'[w] = "none"
         => retry'[w] = retry[w] + 1 \/ WorkerDies(w)]_jobVars

(* The job is queued by its status alone, because of such a death.         *)
Stranded == dropped /\ rq = "queued" /\ entries = 0 /\ Busy = {}

(* A job id does not stay taken, whatever the job, its retries or the      *)
(* death of its worker do: the next call of enqueue is not refused for     *)
(* ever.  The one way to lose the id is the death of a worker that took    *)
(* the job and had not marked it started.                                  *)
JobIdIsReleased == IsEnqueued ~> ~IsEnqueued \/ Stranded
=============================================================================
