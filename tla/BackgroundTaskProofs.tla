------------------------- MODULE BackgroundTaskProofs -------------------------
(***************************************************************************)
(* A cancelled task stays cancelled, and Completed means done once, for    *)
(* any number of workers, requests, retries and calls.                     *)
(***************************************************************************)
EXTENDS BackgroundTask, TLAPS

PhasesFit ==
  /\ \A w \in Worker : phase[w] \in WorkerPhases
  /\ \A u \in Web : phase[u] \in WebPhases

(* Before the callback of enqueue_task there is a row and nothing else.    *)
NotYet ==
  enqueuing => /\ status = "Queued" /\ jobs = 0 /\ rq = "none"
               /\ \A p \in Proc : phase[p] = "idle"

(* What a process read is still so while it may write the row.             *)
CopiesFit ==
  /\ \A w \in Worker : phase[w] = "read" => status # "Cancelled"
  /\ \A u \in Web :
       /\ phase[u] \in {"stopping", "stopSent"} => status \in {"Queued", "Running"}
       /\ phase[u] \in {"retrying", "enqueue", "commit"} => status \in {"Failed", "Cancelled"}
  /\ \A u, v \in Web :
       phase[u] \in {"enqueue", "commit"} /\ phase[v] \in {"enqueue", "commit"} => u = v

(* Unless a retry was queued while the run before it went on, the job is   *)
(* queued once or runs once.                                               *)
OneRun ==
  "overlap" \notin causes =>
    /\ jobs \in {0, 1}
    /\ jobs = 1 => \A w \in Worker : phase[w] = "idle"
    /\ \A v, w \in Worker : phase[v] # "idle" /\ phase[w] # "idle" => v = w
    /\ \A w \in Worker : phase[w] \notin {"idle", "popped"} => rq = "started"

(* Then a stop command is on its way to whoever runs a task that was       *)
(* cancelled, or is about to be.                                           *)
Runs == {"running", "working", "conflict", "failing", "done"}

StopsReach ==
  "overlap" \notin causes /\ (status = "Cancelled" \/ \E u \in Web : phase[u] = "stopSent")
    => \A w \in Worker : phase[w] \in Runs => w \in kill

(* A task that is Completed has no job left that could do it again.        *)
DoneOnce ==
  causes \cap {"late", "crashed", "overlap"} = {} =>
    /\ effects = IF status = "Completed" THEN 1 ELSE 0
    /\ status = "Completed" =>
         jobs = 0 /\ \A w \in Worker : phase[w] \in {"idle", "done"}

IInv ==
  /\ TypeOK /\ PhasesFit /\ NotYet /\ CopiesFit /\ OneRun /\ StopsReach /\ DoneOnce

-----------------------------------------------------------------------------
(* A row that was just committed satisfies it.                             *)
LEMMA InitInv == Init => IInv
<1>. SUFFICES ASSUME Init PROVE IInv
  OBVIOUS
<1>1. /\ enqueuing \in BOOLEAN
      /\ status = "Queued" /\ jobs = 0 /\ rq = "none" /\ retriesLeft = 0 /\ kill = {}
      /\ phase = [p \in Proc |-> "idle"] /\ effects = 0 /\ calls = 0 /\ causes = {}
  BY Zenon DEF Init
<1>2. 0 \in 0 .. MaxRetries
  BY TaskAssumption DEF TaskAssumption
<1>3. TypeOK
  BY <1>1, <1>2 DEF TypeOK, WorkerPhases
<1>4. PhasesFit /\ NotYet /\ CopiesFit
  BY <1>1 DEF PhasesFit, NotYet, CopiesFit, WorkerPhases, WebPhases, Proc
<1>5. OneRun /\ StopsReach /\ DoneOnce
  BY <1>1 DEF OneRun, StopsReach, DoneOnce, Runs, Proc
<1>. QED
  BY <1>3, <1>4, <1>5 DEF IInv

(* Every step of the callback, of a worker and of a request keeps the      *)
(* types ...                                                               *)
LEMMA NextType == ASSUME IInv, [Next]_vars PROVE TypeOK'
<1>0. TypeOK /\ PhasesFit
  BY DEF IInv
<1>1. ASSUME NEW r \in 0 .. MaxRetries, EnqueueAfterCommit(r) PROVE TypeOK'
  <2>1. (jobs' = jobs /\ retriesLeft' = retriesLeft) \/ (jobs' = jobs + 1 /\ retriesLeft' = r)
    BY <1>1 DEF EnqueueAfterCommit, Enqueue
  <2>2. jobs \in Nat /\ retriesLeft \in 0 .. MaxRetries /\ MaxRetries \in Nat
    BY <1>0, TaskAssumption DEF TypeOK, TaskAssumption
  <2>3. jobs' \in Nat /\ retriesLeft' \in 0 .. MaxRetries
    BY <2>1, <2>2
  <2>. QED
    BY <1>0, <1>1, <2>3 DEF TypeOK, Proc, Ended, WorkerPhases, WebPhases,
       EnqueueAfterCommit, Enqueue, MayRun, Goto, Blame, job, history
<1>2. CASE EnqueueRefused
  BY <1>0, <1>2 DEF TypeOK, Proc, Ended, WorkerPhases, WebPhases,
     EnqueueRefused, Goto, Blame, job, history
<1>3. ASSUME NEW w \in Worker, Pop(w) PROVE TypeOK'
  <2>1. jobs > 0 /\ jobs' = jobs - 1 /\ retriesLeft' = retriesLeft
    BY <1>3 DEF Pop
  <2>2. jobs \in Nat /\ retriesLeft \in 0 .. MaxRetries /\ MaxRetries \in Nat
    BY <1>0, TaskAssumption DEF TypeOK, TaskAssumption
  <2>3. jobs' \in Nat /\ retriesLeft' \in 0 .. MaxRetries
    BY <2>1, <2>2
  <2>. QED
    BY <1>0, <1>3, <2>3 DEF TypeOK, Proc, Ended, WorkerPhases, WebPhases,
       Pop, Goto, Blame, job, history
<1>4. ASSUME NEW w \in Worker, StartJob(w) PROVE TypeOK'
  BY <1>0, <1>4 DEF TypeOK, Proc, Ended, WorkerPhases, WebPhases, StartJob,
     Goto, Blame, job, history
<1>5. ASSUME NEW w \in Worker, ReadTask(w) PROVE TypeOK'
  BY <1>0, <1>5 DEF TypeOK, Proc, Ended, WorkerPhases, WebPhases, ReadTask,
     MayRun, Goto, Blame, job, history
<1>6. ASSUME NEW w \in Worker, MarkRunning(w) PROVE TypeOK'
  BY <1>0, <1>6 DEF TypeOK, Proc, Ended, WorkerPhases, WebPhases,
     MarkRunning, SetStatus, Invalidated, Goto, Blame, job, history
<1>7. ASSUME NEW w \in Worker, MarkConflict(w) PROVE TypeOK'
  <2>1. \/ jobs' = jobs /\ retriesLeft' = retriesLeft
        \/ jobs' = jobs + 1 /\ retriesLeft > 0 /\ retriesLeft' = retriesLeft - 1
    BY <1>7 DEF MarkConflict, RequeueOrEnd, Enqueue
  <2>2. jobs \in Nat /\ retriesLeft \in 0 .. MaxRetries /\ MaxRetries \in Nat
    BY <1>0, TaskAssumption DEF TypeOK, TaskAssumption
  <2>3. jobs' \in Nat /\ retriesLeft' \in 0 .. MaxRetries
    BY <2>1, <2>2
  <2>. QED
    BY <1>0, <1>7, <2>3 DEF TypeOK, Proc, Ended, WorkerPhases, WebPhases,
       MarkConflict, RequeueOrEnd, Enqueue, Goto, Blame, job, history
<1>8. ASSUME NEW w \in Worker, StartTarget(w) PROVE TypeOK'
  BY <1>0, <1>8 DEF TypeOK, Proc, Ended, WorkerPhases, WebPhases,
     StartTarget, Goto, Blame, job, history
<1>9. ASSUME NEW w \in Worker, Complete(w) PROVE TypeOK'
  BY <1>0, <1>9 DEF TypeOK, Proc, Ended, WorkerPhases, WebPhases, Complete,
     SetStatus, Invalidated, Goto, Blame, job, history
<1>10. ASSUME NEW w \in Worker, TargetFails(w) PROVE TypeOK'
  BY <1>0, <1>10 DEF TypeOK, Proc, Ended, WorkerPhases, WebPhases,
     TargetFails, Goto, Blame, job, history
<1>11. ASSUME NEW w \in Worker, LateFailure(w) PROVE TypeOK'
  BY <1>0, <1>11 DEF TypeOK, Proc, Ended, WorkerPhases, WebPhases,
     LateFailure, Goto, Blame, job, history
<1>12. ASSUME NEW w \in Worker, RetryLater(w) PROVE TypeOK'
  <2>1. jobs' = jobs + 1 /\ retriesLeft > 0 /\ retriesLeft' = retriesLeft - 1
    BY <1>12 DEF RetryLater, Enqueue
  <2>2. jobs \in Nat /\ retriesLeft \in 0 .. MaxRetries /\ MaxRetries \in Nat
    BY <1>0, TaskAssumption DEF TypeOK, TaskAssumption
  <2>3. jobs' \in Nat /\ retriesLeft' \in 0 .. MaxRetries
    BY <2>1, <2>2
  <2>. QED
    BY <1>0, <1>12, <2>3 DEF TypeOK, Proc, Ended, WorkerPhases, WebPhases,
       RetryLater, Enqueue, Goto, Blame, job, history
<1>13. ASSUME NEW w \in Worker, MarkFailed(w) PROVE TypeOK'
  <2>1. jobs' = jobs /\ retriesLeft' = 0
    BY <1>13 DEF MarkFailed
  <2>2. jobs \in Nat /\ retriesLeft \in 0 .. MaxRetries /\ MaxRetries \in Nat
    BY <1>0, TaskAssumption DEF TypeOK, TaskAssumption
  <2>3. jobs' \in Nat /\ retriesLeft' \in 0 .. MaxRetries
    BY <2>1, <2>2
  <2>. QED
    BY <1>0, <1>13, <2>3 DEF TypeOK, Proc, Ended, WorkerPhases, WebPhases,
       MarkFailed, SetStatus, Invalidated, MayFail, Goto, Blame, job, history
<1>14. ASSUME NEW w \in Worker, EndJob(w) PROVE TypeOK'
  BY <1>0, <1>14 DEF TypeOK, Proc, Ended, WorkerPhases, WebPhases, EndJob,
     Goto, Blame, job, history
<1>15. ASSUME NEW w \in Worker, Stopped(w) PROVE TypeOK'
  BY <1>0, <1>15 DEF TypeOK, Proc, Ended, WorkerPhases, WebPhases, Stopped,
     Goto, Blame, job, history
<1>16. ASSUME NEW w \in Worker, Crash(w) PROVE TypeOK'
  <2>1. \/ jobs' = jobs /\ retriesLeft' = retriesLeft
        \/ jobs' = jobs + 1 /\ retriesLeft > 0 /\ retriesLeft' = retriesLeft - 1
    BY <1>16 DEF Crash, RequeueOrEnd, Enqueue
  <2>2. jobs \in Nat /\ retriesLeft \in 0 .. MaxRetries /\ MaxRetries \in Nat
    BY <1>0, TaskAssumption DEF TypeOK, TaskAssumption
  <2>3. jobs' \in Nat /\ retriesLeft' \in 0 .. MaxRetries
    BY <2>1, <2>2
  <2>. QED
    BY <1>0, <1>16, <2>3 DEF TypeOK, Proc, Ended, WorkerPhases, WebPhases,
       Crash, RequeueOrEnd, Enqueue, Goto, Blame, job, history
<1>17. ASSUME NEW u \in Web, StopRead(u) PROVE TypeOK'
  BY <1>0, <1>17 DEF TypeOK, Proc, Ended, WorkerPhases, WebPhases, StopRead,
     Goto, Blame, job, history
<1>18. ASSUME NEW u \in Web, StopJob(u) PROVE TypeOK'
  <2>1. (jobs' = jobs \/ jobs' = 0) /\ retriesLeft' = retriesLeft
    BY <1>18 DEF StopJob
  <2>2. jobs \in Nat /\ retriesLeft \in 0 .. MaxRetries /\ MaxRetries \in Nat
    BY <1>0, TaskAssumption DEF TypeOK, TaskAssumption
  <2>3. jobs' \in Nat /\ retriesLeft' \in 0 .. MaxRetries
    BY <2>1, <2>2
  <2>4. kill' \subseteq Worker /\ rq' \in {"none", "queued", "started", "canceled", "ended"}
    <3>1. \/ \E w \in Executing : kill' = kill \cup {w} /\ rq' = rq
          \/ kill' = kill /\ rq' = "canceled"
      BY <1>18 DEF StopJob
    <3>. QED
      BY <1>0, <3>1 DEF TypeOK, Executing
  <2>5. phase' \in [Proc -> WorkerPhases \cup WebPhases]
    <3>1. u \in Proc /\ {"stopSent", "stopLost"} \subseteq WorkerPhases \cup WebPhases
      BY DEF Proc, WebPhases
    <3>2. \E to \in {"stopSent", "stopLost"} : phase' = [phase EXCEPT ![u] = to]
      BY <1>18 DEF StopJob, Goto
    <3>. QED
      BY <1>0, <3>1, <3>2 DEF TypeOK
  <2>. QED
    BY <1>0, <1>18, <2>3, <2>4, <2>5 DEF TypeOK, StopJob, history
<1>19. ASSUME NEW u \in Web, StopCommit(u) PROVE TypeOK'
  BY <1>0, <1>19 DEF TypeOK, Proc, Ended, WorkerPhases, WebPhases,
     StopCommit, SetStatus, Invalidated, Goto, Blame, job, history
<1>20. ASSUME NEW u \in Web, StopConflict(u) PROVE TypeOK'
  BY <1>0, <1>20 DEF TypeOK, Proc, Ended, WorkerPhases, WebPhases,
     StopConflict, Goto, Blame, job, history
<1>21. ASSUME NEW u \in Web, StopRefused(u) PROVE TypeOK'
  BY <1>0, <1>21 DEF TypeOK, Proc, Ended, WorkerPhases, WebPhases,
     StopRefused, Goto, Blame, job, history
<1>22. ASSUME NEW u \in Web, RetryRead(u) PROVE TypeOK'
  BY <1>0, <1>22 DEF TypeOK, Proc, Ended, WorkerPhases, WebPhases, RetryRead,
     Goto, Blame, job, history
<1>23. ASSUME NEW u \in Web, RetryWrite(u) PROVE TypeOK'
  BY <1>0, <1>23 DEF TypeOK, Proc, Ended, WorkerPhases, WebPhases,
     RetryWrite, Goto, Blame, job, history
<1>24. ASSUME NEW u \in Web, RetryEnqueue(u) PROVE TypeOK'
  <2>1. jobs' = jobs + 1 /\ retriesLeft' = 0
    BY <1>24 DEF RetryEnqueue, Enqueue
  <2>2. jobs \in Nat /\ retriesLeft \in 0 .. MaxRetries /\ MaxRetries \in Nat
    BY <1>0, TaskAssumption DEF TypeOK, TaskAssumption
  <2>3. jobs' \in Nat /\ retriesLeft' \in 0 .. MaxRetries
    BY <2>1, <2>2
  <2>. QED
    BY <1>0, <1>24, <2>3 DEF TypeOK, Proc, Ended, WorkerPhases, WebPhases,
       RetryEnqueue, Enqueue, Goto, Blame, job, history
<1>25. ASSUME NEW u \in Web, RetryCommit(u) PROVE TypeOK'
  BY <1>0, <1>25 DEF TypeOK, Proc, Ended, WorkerPhases, WebPhases,
     RetryCommit, Invalidated, Goto, Blame, job, history
<1>26. ASSUME NEW u \in Web, RetryFails(u) PROVE TypeOK'
  BY <1>0, <1>26 DEF TypeOK, Proc, Ended, WorkerPhases, WebPhases,
     RetryFails, Goto, Blame, job, history
<1>27. CASE UNCHANGED vars
  BY <1>0, <1>27 DEF TypeOK, Proc, Ended, WorkerPhases, WebPhases, vars
<1>. QED
  BY <1>1, <1>2, <1>3, <1>4, <1>5, <1>6, <1>7, <1>8, <1>9, <1>10, <1>11,
     <1>12, <1>13, <1>14, <1>15, <1>16, <1>17, <1>18, <1>19, <1>20, <1>21,
     <1>22, <1>23, <1>24, <1>25, <1>26, <1>27 DEF Next, WorkerStep, WebStep

(* ... and its process in the phases of its kind.                          *)
LEMMA NextPhases == ASSUME IInv, [Next]_vars PROVE PhasesFit'
<1>0. TypeOK /\ PhasesFit
  BY DEF IInv
<1>1. ASSUME NEW r \in 0 .. MaxRetries, EnqueueAfterCommit(r) PROVE PhasesFit'
  BY <1>0, <1>1 DEF PhasesFit, TypeOK, Proc, WorkerPhases, WebPhases,
     EnqueueAfterCommit, Enqueue, MayRun, Goto, Blame, job, history
<1>2. CASE EnqueueRefused
  BY <1>0, <1>2 DEF PhasesFit, TypeOK, Proc, WorkerPhases, WebPhases,
     EnqueueRefused, Goto, Blame, job, history
<1>3. ASSUME NEW w \in Worker, Pop(w) PROVE PhasesFit'
  BY <1>0, <1>3, TaskAssumption DEF PhasesFit, TypeOK, Proc, WorkerPhases,
     WebPhases, Pop, Goto, Blame, job, history
<1>4. ASSUME NEW w \in Worker, StartJob(w) PROVE PhasesFit'
  BY <1>0, <1>4 DEF PhasesFit, TypeOK, Proc, WorkerPhases, WebPhases,
     StartJob, Goto, Blame, job, history
<1>5. ASSUME NEW w \in Worker, ReadTask(w) PROVE PhasesFit'
  BY <1>0, <1>5 DEF PhasesFit, TypeOK, Proc, WorkerPhases, WebPhases,
     ReadTask, MayRun, Goto, Blame, job, history
<1>6. ASSUME NEW w \in Worker, MarkRunning(w) PROVE PhasesFit'
  BY <1>0, <1>6 DEF PhasesFit, TypeOK, Proc, WorkerPhases, WebPhases,
     MarkRunning, SetStatus, Invalidated, Goto, Blame, job, history
<1>7. ASSUME NEW w \in Worker, MarkConflict(w) PROVE PhasesFit'
  BY <1>0, <1>7 DEF PhasesFit, TypeOK, Proc, WorkerPhases, WebPhases,
     MarkConflict, RequeueOrEnd, Enqueue, Goto, Blame, job, history
<1>8. ASSUME NEW w \in Worker, StartTarget(w) PROVE PhasesFit'
  BY <1>0, <1>8 DEF PhasesFit, TypeOK, Proc, WorkerPhases, WebPhases,
     StartTarget, Goto, Blame, job, history
<1>9. ASSUME NEW w \in Worker, Complete(w) PROVE PhasesFit'
  BY <1>0, <1>9 DEF PhasesFit, TypeOK, Proc, WorkerPhases, WebPhases,
     Complete, SetStatus, Invalidated, Goto, Blame, job, history
<1>10. ASSUME NEW w \in Worker, TargetFails(w) PROVE PhasesFit'
  BY <1>0, <1>10 DEF PhasesFit, TypeOK, Proc, WorkerPhases, WebPhases,
     TargetFails, Goto, Blame, job, history
<1>11. ASSUME NEW w \in Worker, LateFailure(w) PROVE PhasesFit'
  BY <1>0, <1>11 DEF PhasesFit, TypeOK, Proc, WorkerPhases, WebPhases,
     LateFailure, Goto, Blame, job, history
<1>12. ASSUME NEW w \in Worker, RetryLater(w) PROVE PhasesFit'
  BY <1>0, <1>12 DEF PhasesFit, TypeOK, Proc, WorkerPhases, WebPhases,
     RetryLater, Enqueue, Goto, Blame, job, history
<1>13. ASSUME NEW w \in Worker, MarkFailed(w) PROVE PhasesFit'
  BY <1>0, <1>13 DEF PhasesFit, TypeOK, Proc, WorkerPhases, WebPhases,
     MarkFailed, SetStatus, Invalidated, MayFail, Goto, Blame, job, history
<1>14. ASSUME NEW w \in Worker, EndJob(w) PROVE PhasesFit'
  BY <1>0, <1>14 DEF PhasesFit, TypeOK, Proc, WorkerPhases, WebPhases,
     EndJob, Goto, Blame, job, history
<1>15. ASSUME NEW w \in Worker, Stopped(w) PROVE PhasesFit'
  BY <1>0, <1>15 DEF PhasesFit, TypeOK, Proc, WorkerPhases, WebPhases,
     Stopped, Goto, Blame, job, history
<1>16. ASSUME NEW w \in Worker, Crash(w) PROVE PhasesFit'
  BY <1>0, <1>16 DEF PhasesFit, TypeOK, Proc, WorkerPhases, WebPhases, Crash,
     RequeueOrEnd, Enqueue, Goto, Blame, job, history
<1>17. ASSUME NEW u \in Web, StopRead(u) PROVE PhasesFit'
  BY <1>0, <1>17, TaskAssumption DEF PhasesFit, TypeOK, Proc, WorkerPhases,
     WebPhases, StopRead, Goto, Blame, job, history
<1>18. ASSUME NEW u \in Web, StopJob(u) PROVE PhasesFit'
  BY <1>0, <1>18 DEF PhasesFit, TypeOK, Proc, WorkerPhases, WebPhases,
     StopJob, Goto, Blame, job, history
<1>19. ASSUME NEW u \in Web, StopCommit(u) PROVE PhasesFit'
  BY <1>0, <1>19 DEF PhasesFit, TypeOK, Proc, WorkerPhases, WebPhases,
     StopCommit, SetStatus, Invalidated, Goto, Blame, job, history
<1>20. ASSUME NEW u \in Web, StopConflict(u) PROVE PhasesFit'
  BY <1>0, <1>20 DEF PhasesFit, TypeOK, Proc, WorkerPhases, WebPhases,
     StopConflict, Goto, Blame, job, history
<1>21. ASSUME NEW u \in Web, StopRefused(u) PROVE PhasesFit'
  BY <1>0, <1>21 DEF PhasesFit, TypeOK, Proc, WorkerPhases, WebPhases,
     StopRefused, Goto, Blame, job, history
<1>22. ASSUME NEW u \in Web, RetryRead(u) PROVE PhasesFit'
  BY <1>0, <1>22, TaskAssumption DEF PhasesFit, TypeOK, Proc, WorkerPhases,
     WebPhases, RetryRead, Goto, Blame, job, history
<1>23. ASSUME NEW u \in Web, RetryWrite(u) PROVE PhasesFit'
  BY <1>0, <1>23 DEF PhasesFit, TypeOK, Proc, WorkerPhases, WebPhases,
     RetryWrite, Goto, Blame, job, history
<1>24. ASSUME NEW u \in Web, RetryEnqueue(u) PROVE PhasesFit'
  BY <1>0, <1>24 DEF PhasesFit, TypeOK, Proc, WorkerPhases, WebPhases,
     RetryEnqueue, Enqueue, Goto, Blame, job, history
<1>25. ASSUME NEW u \in Web, RetryCommit(u) PROVE PhasesFit'
  BY <1>0, <1>25 DEF PhasesFit, TypeOK, Proc, WorkerPhases, WebPhases,
     RetryCommit, Invalidated, Goto, Blame, job, history
<1>26. ASSUME NEW u \in Web, RetryFails(u) PROVE PhasesFit'
  BY <1>0, <1>26 DEF PhasesFit, TypeOK, Proc, WorkerPhases, WebPhases,
     RetryFails, Goto, Blame, job, history
<1>27. CASE UNCHANGED vars
  BY <1>0, <1>27 DEF PhasesFit, TypeOK, Proc, WorkerPhases, WebPhases, vars
<1>. QED
  BY <1>1, <1>2, <1>3, <1>4, <1>5, <1>6, <1>7, <1>8, <1>9, <1>10, <1>11,
     <1>12, <1>13, <1>14, <1>15, <1>16, <1>17, <1>18, <1>19, <1>20, <1>21,
     <1>22, <1>23, <1>24, <1>25, <1>26, <1>27 DEF Next, WorkerStep, WebStep

(* Nothing begins before the callback ran.                                 *)
LEMMA NextNotYet == ASSUME IInv, [Next]_vars PROVE NotYet'
<1>0. TypeOK /\ NotYet
  BY DEF IInv
<1>1. ASSUME NEW r \in 0 .. MaxRetries, EnqueueAfterCommit(r) PROVE NotYet'
  BY <1>0, <1>1 DEF NotYet, TypeOK, Proc, Ended, EnqueueAfterCommit, Enqueue,
     MayRun, Goto, Blame, job, history
<1>2. CASE EnqueueRefused
  BY <1>0, <1>2 DEF NotYet, TypeOK, Proc, Ended, EnqueueRefused, Goto, Blame,
     job, history
<1>3. ASSUME NEW w \in Worker, Pop(w) PROVE NotYet'
  BY <1>0, <1>3 DEF NotYet, TypeOK, Proc, Ended, Pop, Goto, Blame, job,
     history
<1>4. ASSUME NEW w \in Worker, StartJob(w) PROVE NotYet'
  BY <1>0, <1>4 DEF NotYet, TypeOK, Proc, Ended, StartJob, Goto, Blame, job,
     history
<1>5. ASSUME NEW w \in Worker, ReadTask(w) PROVE NotYet'
  BY <1>0, <1>5 DEF NotYet, TypeOK, Proc, Ended, ReadTask, MayRun, Goto,
     Blame, job, history
<1>6. ASSUME NEW w \in Worker, MarkRunning(w) PROVE NotYet'
  BY <1>0, <1>6 DEF NotYet, TypeOK, Proc, Ended, MarkRunning, SetStatus,
     Invalidated, Goto, Blame, job, history
<1>7. ASSUME NEW w \in Worker, MarkConflict(w) PROVE NotYet'
  BY <1>0, <1>7 DEF NotYet, TypeOK, Proc, Ended, MarkConflict, RequeueOrEnd,
     Enqueue, Goto, Blame, job, history
<1>8. ASSUME NEW w \in Worker, StartTarget(w) PROVE NotYet'
  BY <1>0, <1>8 DEF NotYet, TypeOK, Proc, Ended, StartTarget, Goto, Blame,
     job, history
<1>9. ASSUME NEW w \in Worker, Complete(w) PROVE NotYet'
  BY <1>0, <1>9 DEF NotYet, TypeOK, Proc, Ended, Complete, SetStatus,
     Invalidated, Goto, Blame, job, history
<1>10. ASSUME NEW w \in Worker, TargetFails(w) PROVE NotYet'
  BY <1>0, <1>10 DEF NotYet, TypeOK, Proc, Ended, TargetFails, Goto, Blame,
     job, history
<1>11. ASSUME NEW w \in Worker, LateFailure(w) PROVE NotYet'
  BY <1>0, <1>11 DEF NotYet, TypeOK, Proc, Ended, LateFailure, Goto, Blame,
     job, history
<1>12. ASSUME NEW w \in Worker, RetryLater(w) PROVE NotYet'
  BY <1>0, <1>12 DEF NotYet, TypeOK, Proc, Ended, RetryLater, Enqueue, Goto,
     Blame, job, history
<1>13. ASSUME NEW w \in Worker, MarkFailed(w) PROVE NotYet'
  BY <1>0, <1>13 DEF NotYet, TypeOK, Proc, Ended, MarkFailed, SetStatus,
     Invalidated, MayFail, Goto, Blame, job, history
<1>14. ASSUME NEW w \in Worker, EndJob(w) PROVE NotYet'
  BY <1>0, <1>14 DEF NotYet, TypeOK, Proc, Ended, EndJob, Goto, Blame, job,
     history
<1>15. ASSUME NEW w \in Worker, Stopped(w) PROVE NotYet'
  BY <1>0, <1>15 DEF NotYet, TypeOK, Proc, Ended, Stopped, Goto, Blame, job,
     history
<1>16. ASSUME NEW w \in Worker, Crash(w) PROVE NotYet'
  BY <1>0, <1>16 DEF NotYet, Proc, Crash, Executing
<1>17. ASSUME NEW u \in Web, StopRead(u) PROVE NotYet'
  BY <1>0, <1>17 DEF NotYet, TypeOK, Proc, Ended, StopRead, Goto, Blame, job,
     history
<1>18. ASSUME NEW u \in Web, StopJob(u) PROVE NotYet'
  BY <1>0, <1>18 DEF NotYet, TypeOK, Proc, Ended, StopJob, Goto, Blame, job,
     history
<1>19. ASSUME NEW u \in Web, StopCommit(u) PROVE NotYet'
  BY <1>0, <1>19 DEF NotYet, TypeOK, Proc, Ended, StopCommit, SetStatus,
     Invalidated, Goto, Blame, job, history
<1>20. ASSUME NEW u \in Web, StopConflict(u) PROVE NotYet'
  BY <1>0, <1>20 DEF NotYet, TypeOK, Proc, Ended, StopConflict, Goto, Blame,
     job, history
<1>21. ASSUME NEW u \in Web, StopRefused(u) PROVE NotYet'
  BY <1>0, <1>21 DEF NotYet, TypeOK, Proc, Ended, StopRefused, Goto, Blame,
     job, history
<1>22. ASSUME NEW u \in Web, RetryRead(u) PROVE NotYet'
  BY <1>0, <1>22 DEF NotYet, TypeOK, Proc, Ended, RetryRead, Goto, Blame,
     job, history
<1>23. ASSUME NEW u \in Web, RetryWrite(u) PROVE NotYet'
  BY <1>0, <1>23 DEF NotYet, TypeOK, Proc, Ended, RetryWrite, Goto, Blame,
     job, history
<1>24. ASSUME NEW u \in Web, RetryEnqueue(u) PROVE NotYet'
  BY <1>0, <1>24 DEF NotYet, TypeOK, Proc, Ended, RetryEnqueue, Enqueue,
     Goto, Blame, job, history
<1>25. ASSUME NEW u \in Web, RetryCommit(u) PROVE NotYet'
  BY <1>0, <1>25 DEF NotYet, TypeOK, Proc, Ended, RetryCommit, Invalidated,
     Goto, Blame, job, history
<1>26. ASSUME NEW u \in Web, RetryFails(u) PROVE NotYet'
  BY <1>0, <1>26 DEF NotYet, TypeOK, Proc, Ended, RetryFails, Goto, Blame,
     job, history
<1>27. CASE UNCHANGED vars
  BY <1>0, <1>27 DEF NotYet, TypeOK, Proc, Ended, vars
<1>. QED
  BY <1>1, <1>2, <1>3, <1>4, <1>5, <1>6, <1>7, <1>8, <1>9, <1>10, <1>11,
     <1>12, <1>13, <1>14, <1>15, <1>16, <1>17, <1>18, <1>19, <1>20, <1>21,
     <1>22, <1>23, <1>24, <1>25, <1>26, <1>27 DEF Next, WorkerStep, WebStep

(* Whoever commits the row takes it from those who read it before.         *)
LEMMA NextCopies == ASSUME IInv, [Next]_vars PROVE CopiesFit'
<1>0. TypeOK /\ PhasesFit /\ CopiesFit /\ NotYet
  BY DEF IInv
<1>1. ASSUME NEW r \in 0 .. MaxRetries, EnqueueAfterCommit(r) PROVE CopiesFit'
  BY <1>0, <1>1 DEF CopiesFit, NotYet, TypeOK, Proc, RowLocked, Executing,
     Ended, PhasesFit, WorkerPhases, WebPhases, EnqueueAfterCommit, Enqueue,
     MayRun, Goto, Blame, job, history
<1>2. CASE EnqueueRefused
  BY <1>0, <1>2 DEF CopiesFit, NotYet, TypeOK, Proc, RowLocked, Executing,
     Ended, PhasesFit, WorkerPhases, WebPhases, EnqueueRefused, Goto, Blame,
     job, history
<1>3. ASSUME NEW w \in Worker, Pop(w) PROVE CopiesFit'
  BY <1>0, <1>3 DEF CopiesFit, NotYet, TypeOK, Proc, RowLocked, Executing,
     Ended, PhasesFit, WorkerPhases, WebPhases, Pop, Goto, Blame, job, history
<1>4. ASSUME NEW w \in Worker, StartJob(w) PROVE CopiesFit'
  BY <1>0, <1>4 DEF CopiesFit, NotYet, TypeOK, Proc, RowLocked, Executing,
     Ended, PhasesFit, WorkerPhases, WebPhases, StartJob, Goto, Blame, job,
     history
<1>5. ASSUME NEW w \in Worker, ReadTask(w) PROVE CopiesFit'
  BY <1>0, <1>5 DEF CopiesFit, NotYet, TypeOK, Proc, RowLocked, Executing,
     Ended, PhasesFit, WorkerPhases, WebPhases, ReadTask, MayRun, Goto,
     Blame, job, history
<1>6. ASSUME NEW w \in Worker, MarkRunning(w) PROVE CopiesFit'
  BY <1>0, <1>6 DEF CopiesFit, NotYet, TypeOK, Proc, RowLocked, Executing,
     Ended, PhasesFit, WorkerPhases, WebPhases, MarkRunning, SetStatus,
     Invalidated, Goto, Blame, job, history
<1>7. ASSUME NEW w \in Worker, MarkConflict(w) PROVE CopiesFit'
  BY <1>0, <1>7 DEF CopiesFit, NotYet, TypeOK, Proc, RowLocked, Executing,
     Ended, PhasesFit, WorkerPhases, WebPhases, MarkConflict, RequeueOrEnd,
     Enqueue, Goto, Blame, job, history
<1>8. ASSUME NEW w \in Worker, StartTarget(w) PROVE CopiesFit'
  BY <1>0, <1>8 DEF CopiesFit, NotYet, TypeOK, Proc, RowLocked, Executing,
     Ended, PhasesFit, WorkerPhases, WebPhases, StartTarget, Goto, Blame,
     job, history
<1>9. ASSUME NEW w \in Worker, Complete(w) PROVE CopiesFit'
  BY <1>0, <1>9 DEF CopiesFit, NotYet, TypeOK, Proc, RowLocked, Executing,
     Ended, PhasesFit, WorkerPhases, WebPhases, Complete, SetStatus,
     Invalidated, Goto, Blame, job, history
<1>10. ASSUME NEW w \in Worker, TargetFails(w) PROVE CopiesFit'
  BY <1>0, <1>10 DEF CopiesFit, NotYet, TypeOK, Proc, RowLocked, Executing,
     Ended, PhasesFit, WorkerPhases, WebPhases, TargetFails, Goto, Blame,
     job, history
<1>11. ASSUME NEW w \in Worker, LateFailure(w) PROVE CopiesFit'
  BY <1>0, <1>11 DEF CopiesFit, NotYet, TypeOK, Proc, RowLocked, Executing,
     Ended, PhasesFit, WorkerPhases, WebPhases, LateFailure, Goto, Blame,
     job, history
<1>12. ASSUME NEW w \in Worker, RetryLater(w) PROVE CopiesFit'
  BY <1>0, <1>12 DEF CopiesFit, NotYet, TypeOK, Proc, RowLocked, Executing,
     Ended, PhasesFit, WorkerPhases, WebPhases, RetryLater, Enqueue, Goto,
     Blame, job, history
<1>13. ASSUME NEW w \in Worker, MarkFailed(w) PROVE CopiesFit'
  <2>1. CASE MayFail
    BY <1>0, <1>13, <2>1 DEF CopiesFit, TypeOK, Proc, RowLocked, PhasesFit,
       WebPhases, WorkerPhases, MarkFailed, SetStatus, Invalidated
  <2>2. CASE ~MayFail
    BY <1>0, <1>13, <2>2 DEF CopiesFit, TypeOK, Proc, MarkFailed, Goto
  <2>. QED
    BY <2>1, <2>2
<1>14. ASSUME NEW w \in Worker, EndJob(w) PROVE CopiesFit'
  BY <1>0, <1>14 DEF CopiesFit, NotYet, TypeOK, Proc, RowLocked, Executing,
     Ended, PhasesFit, WorkerPhases, WebPhases, EndJob, Goto, Blame, job,
     history
<1>15. ASSUME NEW w \in Worker, Stopped(w) PROVE CopiesFit'
  BY <1>0, <1>15 DEF CopiesFit, NotYet, TypeOK, Proc, RowLocked, Executing,
     Ended, PhasesFit, WorkerPhases, WebPhases, Stopped, Goto, Blame, job,
     history
<1>16. ASSUME NEW w \in Worker, Crash(w) PROVE CopiesFit'
  BY <1>0, <1>16 DEF CopiesFit, NotYet, TypeOK, Proc, RowLocked, Executing,
     Ended, PhasesFit, WorkerPhases, WebPhases, Crash, RequeueOrEnd, Enqueue,
     Goto, Blame, job, history
<1>17. ASSUME NEW u \in Web, StopRead(u) PROVE CopiesFit'
  BY <1>0, <1>17 DEF CopiesFit, NotYet, TypeOK, Proc, RowLocked, Executing,
     Ended, PhasesFit, WorkerPhases, WebPhases, StopRead, Goto, Blame, job,
     history
<1>18. ASSUME NEW u \in Web, StopJob(u) PROVE CopiesFit'
  BY <1>0, <1>18 DEF CopiesFit, NotYet, TypeOK, Proc, RowLocked, Executing,
     Ended, PhasesFit, WorkerPhases, WebPhases, StopJob, Goto, Blame, job,
     history
<1>19. ASSUME NEW u \in Web, StopCommit(u) PROVE CopiesFit'
  BY <1>0, <1>19 DEF CopiesFit, NotYet, TypeOK, Proc, RowLocked, Executing,
     Ended, PhasesFit, WorkerPhases, WebPhases, StopCommit, SetStatus,
     Invalidated, Goto, Blame, job, history
<1>20. ASSUME NEW u \in Web, StopConflict(u) PROVE CopiesFit'
  BY <1>0, <1>20 DEF CopiesFit, NotYet, TypeOK, Proc, RowLocked, Executing,
     Ended, PhasesFit, WorkerPhases, WebPhases, StopConflict, Goto, Blame,
     job, history
<1>21. ASSUME NEW u \in Web, StopRefused(u) PROVE CopiesFit'
  BY <1>0, <1>21 DEF CopiesFit, NotYet, TypeOK, Proc, RowLocked, Executing,
     Ended, PhasesFit, WorkerPhases, WebPhases, StopRefused, Goto, Blame,
     job, history
<1>22. ASSUME NEW u \in Web, RetryRead(u) PROVE CopiesFit'
  BY <1>0, <1>22 DEF CopiesFit, NotYet, TypeOK, Proc, RowLocked, Executing,
     Ended, PhasesFit, WorkerPhases, WebPhases, RetryRead, Goto, Blame, job,
     history
<1>23. ASSUME NEW u \in Web, RetryWrite(u) PROVE CopiesFit'
  BY <1>0, <1>23 DEF CopiesFit, NotYet, TypeOK, Proc, RowLocked, Executing,
     Ended, PhasesFit, WorkerPhases, WebPhases, RetryWrite, Goto, Blame, job,
     history
<1>24. ASSUME NEW u \in Web, RetryEnqueue(u) PROVE CopiesFit'
  BY <1>0, <1>24 DEF CopiesFit, NotYet, TypeOK, Proc, RowLocked, Executing,
     Ended, PhasesFit, WorkerPhases, WebPhases, RetryEnqueue, Enqueue, Goto,
     Blame, job, history
<1>25. ASSUME NEW u \in Web, RetryCommit(u) PROVE CopiesFit'
  BY <1>0, <1>25 DEF CopiesFit, NotYet, TypeOK, Proc, RowLocked, Executing,
     Ended, PhasesFit, WorkerPhases, WebPhases, RetryCommit, Invalidated,
     Goto, Blame, job, history
<1>26. ASSUME NEW u \in Web, RetryFails(u) PROVE CopiesFit'
  BY <1>0, <1>26 DEF CopiesFit, NotYet, TypeOK, Proc, RowLocked, Executing,
     Ended, PhasesFit, WorkerPhases, WebPhases, RetryFails, Goto, Blame, job,
     history
<1>27. CASE UNCHANGED vars
  BY <1>0, <1>27 DEF CopiesFit, NotYet, TypeOK, Proc, RowLocked, Executing,
     Ended, PhasesFit, WorkerPhases, WebPhases, vars
<1>. QED
  BY <1>1, <1>2, <1>3, <1>4, <1>5, <1>6, <1>7, <1>8, <1>9, <1>10, <1>11,
     <1>12, <1>13, <1>14, <1>15, <1>16, <1>17, <1>18, <1>19, <1>20, <1>21,
     <1>22, <1>23, <1>24, <1>25, <1>26, <1>27 DEF Next, WorkerStep, WebStep

(* A run ends before its job is queued again, or there is an overlap.      *)
LEMMA NextOneRun == ASSUME IInv, [Next]_vars PROVE OneRun'
<1>0. TypeOK /\ PhasesFit /\ NotYet /\ OneRun
  BY DEF IInv
<1>1. ASSUME NEW r \in 0 .. MaxRetries, EnqueueAfterCommit(r) PROVE OneRun'
  BY <1>0, <1>1 DEF OneRun, NotYet, TypeOK, PhasesFit, WorkerPhases,
     WebPhases, Proc, Executing, EnqueueAfterCommit, Enqueue, MayRun, Goto,
     Blame, job, history
<1>2. CASE EnqueueRefused
  BY <1>0, <1>2 DEF OneRun, NotYet, TypeOK, PhasesFit, WorkerPhases,
     WebPhases, Proc, Executing, EnqueueRefused, Goto, Blame, job, history
<1>3. ASSUME NEW w \in Worker, Pop(w) PROVE OneRun'
  BY <1>0, <1>3 DEF OneRun, NotYet, TypeOK, PhasesFit, WorkerPhases,
     WebPhases, Proc, Executing, Pop, Goto, Blame, job, history
<1>4. ASSUME NEW w \in Worker, StartJob(w) PROVE OneRun'
  BY <1>0, <1>4 DEF OneRun, NotYet, TypeOK, PhasesFit, WorkerPhases,
     WebPhases, Proc, Executing, StartJob, Goto, Blame, job, history
<1>5. ASSUME NEW w \in Worker, ReadTask(w) PROVE OneRun'
  BY <1>0, <1>5 DEF OneRun, NotYet, TypeOK, PhasesFit, WorkerPhases,
     WebPhases, Proc, Executing, ReadTask, MayRun, Goto, Blame, job, history
<1>6. ASSUME NEW w \in Worker, MarkRunning(w) PROVE OneRun'
  BY <1>0, <1>6 DEF OneRun, NotYet, TypeOK, PhasesFit, WorkerPhases,
     WebPhases, Proc, Executing, MarkRunning, SetStatus, Invalidated, Goto,
     Blame, job, history
<1>7. ASSUME NEW w \in Worker, MarkConflict(w) PROVE OneRun'
  BY <1>0, <1>7 DEF OneRun, NotYet, TypeOK, PhasesFit, WorkerPhases,
     WebPhases, Proc, Executing, MarkConflict, RequeueOrEnd, Enqueue, Goto,
     Blame, job, history
<1>8. ASSUME NEW w \in Worker, StartTarget(w) PROVE OneRun'
  BY <1>0, <1>8 DEF OneRun, NotYet, TypeOK, PhasesFit, WorkerPhases,
     WebPhases, Proc, Executing, StartTarget, Goto, Blame, job, history
<1>9. ASSUME NEW w \in Worker, Complete(w) PROVE OneRun'
  BY <1>0, <1>9 DEF OneRun, NotYet, TypeOK, PhasesFit, WorkerPhases,
     WebPhases, Proc, Executing, Complete, SetStatus, Invalidated, Goto,
     Blame, job, history
<1>10. ASSUME NEW w \in Worker, TargetFails(w) PROVE OneRun'
  BY <1>0, <1>10 DEF OneRun, NotYet, TypeOK, PhasesFit, WorkerPhases,
     WebPhases, Proc, Executing, TargetFails, Goto, Blame, job, history
<1>11. ASSUME NEW w \in Worker, LateFailure(w) PROVE OneRun'
  BY <1>0, <1>11 DEF OneRun, NotYet, TypeOK, PhasesFit, WorkerPhases,
     WebPhases, Proc, Executing, LateFailure, Goto, Blame, job, history
<1>12. ASSUME NEW w \in Worker, RetryLater(w) PROVE OneRun'
  BY <1>0, <1>12 DEF OneRun, NotYet, TypeOK, PhasesFit, WorkerPhases,
     WebPhases, Proc, Executing, RetryLater, Enqueue, Goto, Blame, job,
     history
<1>13. ASSUME NEW w \in Worker, MarkFailed(w) PROVE OneRun'
  BY <1>0, <1>13 DEF OneRun, NotYet, TypeOK, PhasesFit, WorkerPhases,
     WebPhases, Proc, Executing, MarkFailed, SetStatus, Invalidated, MayFail,
     Goto, Blame, job, history
<1>14. ASSUME NEW w \in Worker, EndJob(w) PROVE OneRun'
  BY <1>0, <1>14 DEF OneRun, NotYet, TypeOK, PhasesFit, WorkerPhases,
     WebPhases, Proc, Executing, EndJob, Goto, Blame, job, history
<1>15. ASSUME NEW w \in Worker, Stopped(w) PROVE OneRun'
  BY <1>0, <1>15 DEF OneRun, NotYet, TypeOK, PhasesFit, WorkerPhases,
     WebPhases, Proc, Executing, Stopped, Goto, Blame, job, history
<1>16. ASSUME NEW w \in Worker, Crash(w) PROVE OneRun'
  BY <1>0, <1>16 DEF OneRun, NotYet, TypeOK, PhasesFit, WorkerPhases,
     WebPhases, Proc, Executing, Crash, RequeueOrEnd, Enqueue, Goto, Blame,
     job, history
<1>17. ASSUME NEW u \in Web, StopRead(u) PROVE OneRun'
  BY <1>0, <1>17, TaskAssumption DEF OneRun, NotYet, TypeOK, PhasesFit,
     WorkerPhases, WebPhases, Proc, Executing, StopRead, Goto, Blame, job,
     history
<1>18. ASSUME NEW u \in Web, StopJob(u) PROVE OneRun'
  BY <1>0, <1>18 DEF OneRun, NotYet, TypeOK, PhasesFit, WorkerPhases,
     WebPhases, Proc, Executing, StopJob, Goto, Blame, job, history
<1>19. ASSUME NEW u \in Web, StopCommit(u) PROVE OneRun'
  BY <1>0, <1>19 DEF OneRun, NotYet, TypeOK, PhasesFit, WorkerPhases,
     WebPhases, Proc, Executing, StopCommit, SetStatus, Invalidated, Goto,
     Blame, job, history
<1>20. ASSUME NEW u \in Web, StopConflict(u) PROVE OneRun'
  BY <1>0, <1>20 DEF OneRun, NotYet, TypeOK, PhasesFit, WorkerPhases,
     WebPhases, Proc, Executing, StopConflict, Goto, Blame, job, history
<1>21. ASSUME NEW u \in Web, StopRefused(u) PROVE OneRun'
  BY <1>0, <1>21 DEF OneRun, NotYet, TypeOK, PhasesFit, WorkerPhases,
     WebPhases, Proc, Executing, StopRefused, Goto, Blame, job, history
<1>22. ASSUME NEW u \in Web, RetryRead(u) PROVE OneRun'
  BY <1>0, <1>22, TaskAssumption DEF OneRun, NotYet, TypeOK, PhasesFit,
     WorkerPhases, WebPhases, Proc, Executing, RetryRead, Goto, Blame, job,
     history
<1>23. ASSUME NEW u \in Web, RetryWrite(u) PROVE OneRun'
  BY <1>0, <1>23 DEF OneRun, NotYet, TypeOK, PhasesFit, WorkerPhases,
     WebPhases, Proc, Executing, RetryWrite, Goto, Blame, job, history
<1>24. ASSUME NEW u \in Web, RetryEnqueue(u) PROVE OneRun'
  BY <1>0, <1>24 DEF OneRun, NotYet, TypeOK, PhasesFit, WorkerPhases,
     WebPhases, Proc, Executing, RetryEnqueue, Enqueue, Goto, Blame, job,
     history
<1>25. ASSUME NEW u \in Web, RetryCommit(u) PROVE OneRun'
  BY <1>0, <1>25 DEF OneRun, NotYet, TypeOK, PhasesFit, WorkerPhases,
     WebPhases, Proc, Executing, RetryCommit, Invalidated, Goto, Blame, job,
     history
<1>26. ASSUME NEW u \in Web, RetryFails(u) PROVE OneRun'
  BY <1>0, <1>26 DEF OneRun, NotYet, TypeOK, PhasesFit, WorkerPhases,
     WebPhases, Proc, Executing, RetryFails, Goto, Blame, job, history
<1>27. CASE UNCHANGED vars
  BY <1>0, <1>27 DEF OneRun, NotYet, TypeOK, PhasesFit, WorkerPhases,
     WebPhases, Proc, Executing, vars
<1>. QED
  BY <1>1, <1>2, <1>3, <1>4, <1>5, <1>6, <1>7, <1>8, <1>9, <1>10, <1>11,
     <1>12, <1>13, <1>14, <1>15, <1>16, <1>17, <1>18, <1>19, <1>20, <1>21,
     <1>22, <1>23, <1>24, <1>25, <1>26, <1>27 DEF Next, WorkerStep, WebStep

(* A command is sent to the one worker that runs the task; a worker that   *)
(* begins to run commits the row, and the stop is lost.                    *)
LEMMA NextStops == ASSUME IInv, [Next]_vars PROVE StopsReach'
<1>0. TypeOK /\ PhasesFit /\ CopiesFit /\ OneRun /\ StopsReach /\ NotYet
  BY DEF IInv
<1>1. ASSUME NEW r \in 0 .. MaxRetries, EnqueueAfterCommit(r) PROVE StopsReach'
  BY <1>0, <1>1 DEF StopsReach, Runs, OneRun, CopiesFit, NotYet, TypeOK,
     PhasesFit, WorkerPhases, WebPhases, Proc, Executing, EnqueueAfterCommit,
     Enqueue, MayRun, Goto, Blame, job, history
<1>2. CASE EnqueueRefused
  BY <1>0, <1>2 DEF StopsReach, Runs, OneRun, CopiesFit, NotYet, TypeOK,
     PhasesFit, WorkerPhases, WebPhases, Proc, Executing, EnqueueRefused,
     Goto, Blame, job, history
<1>3. ASSUME NEW w \in Worker, Pop(w) PROVE StopsReach'
  BY <1>0, <1>3 DEF StopsReach, Runs, OneRun, CopiesFit, NotYet, TypeOK,
     PhasesFit, WorkerPhases, WebPhases, Proc, Executing, Pop, Goto, Blame,
     job, history
<1>4. ASSUME NEW w \in Worker, StartJob(w) PROVE StopsReach'
  BY <1>0, <1>4 DEF StopsReach, Runs, OneRun, CopiesFit, NotYet, TypeOK,
     PhasesFit, WorkerPhases, WebPhases, Proc, Executing, StartJob, Goto,
     Blame, job, history
<1>5. ASSUME NEW w \in Worker, ReadTask(w) PROVE StopsReach'
  BY <1>0, <1>5 DEF StopsReach, Runs, OneRun, CopiesFit, NotYet, TypeOK,
     PhasesFit, WorkerPhases, WebPhases, Proc, Executing, ReadTask, MayRun,
     Goto, Blame, job, history
<1>6. ASSUME NEW w \in Worker, MarkRunning(w) PROVE StopsReach'
  BY <1>0, <1>6 DEF StopsReach, Runs, OneRun, CopiesFit, NotYet, TypeOK,
     PhasesFit, WorkerPhases, WebPhases, Proc, Executing, MarkRunning,
     SetStatus, Invalidated, Goto, Blame, job, history
<1>7. ASSUME NEW w \in Worker, MarkConflict(w) PROVE StopsReach'
  BY <1>0, <1>7 DEF StopsReach, Runs, OneRun, CopiesFit, NotYet, TypeOK,
     PhasesFit, WorkerPhases, WebPhases, Proc, Executing, MarkConflict,
     RequeueOrEnd, Enqueue, Goto, Blame, job, history
<1>8. ASSUME NEW w \in Worker, StartTarget(w) PROVE StopsReach'
  BY <1>0, <1>8 DEF StopsReach, Runs, OneRun, CopiesFit, NotYet, TypeOK,
     PhasesFit, WorkerPhases, WebPhases, Proc, Executing, StartTarget, Goto,
     Blame, job, history
<1>9. ASSUME NEW w \in Worker, Complete(w) PROVE StopsReach'
  BY <1>0, <1>9 DEF StopsReach, Runs, OneRun, CopiesFit, NotYet, TypeOK,
     PhasesFit, WorkerPhases, WebPhases, Proc, Executing, Complete,
     SetStatus, Invalidated, Goto, Blame, job, history
<1>10. ASSUME NEW w \in Worker, TargetFails(w) PROVE StopsReach'
  BY <1>0, <1>10 DEF StopsReach, Runs, OneRun, CopiesFit, NotYet, TypeOK,
     PhasesFit, WorkerPhases, WebPhases, Proc, Executing, TargetFails, Goto,
     Blame, job, history
<1>11. ASSUME NEW w \in Worker, LateFailure(w) PROVE StopsReach'
  BY <1>0, <1>11 DEF StopsReach, Runs, OneRun, CopiesFit, NotYet, TypeOK,
     PhasesFit, WorkerPhases, WebPhases, Proc, Executing, LateFailure, Goto,
     Blame, job, history
<1>12. ASSUME NEW w \in Worker, RetryLater(w) PROVE StopsReach'
  BY <1>0, <1>12 DEF StopsReach, Runs, OneRun, CopiesFit, NotYet, TypeOK,
     PhasesFit, WorkerPhases, WebPhases, Proc, Executing, RetryLater,
     Enqueue, Goto, Blame, job, history
<1>13. ASSUME NEW w \in Worker, MarkFailed(w) PROVE StopsReach'
  <2>1. CASE MayFail
    <3>1. status' = "Failed" /\ \A v \in Web : phase'[v] # "stopSent"
      BY <1>0, <1>13, <2>1 DEF TypeOK, PhasesFit, WebPhases, Proc, MarkFailed,
         SetStatus, Invalidated
    <3>. QED
      BY <3>1 DEF StopsReach
  <2>2. CASE ~MayFail
    BY <1>0, <1>13, <2>2 DEF StopsReach, Runs, TypeOK, Proc, MarkFailed,
       Goto, history
  <2>. QED
    BY <2>1, <2>2
<1>14. ASSUME NEW w \in Worker, EndJob(w) PROVE StopsReach'
  BY <1>0, <1>14 DEF StopsReach, Runs, OneRun, CopiesFit, NotYet, TypeOK,
     PhasesFit, WorkerPhases, WebPhases, Proc, Executing, EndJob, Goto,
     Blame, job, history
<1>15. ASSUME NEW w \in Worker, Stopped(w) PROVE StopsReach'
  BY <1>0, <1>15 DEF StopsReach, Runs, OneRun, CopiesFit, NotYet, TypeOK,
     PhasesFit, WorkerPhases, WebPhases, Proc, Executing, Stopped, Goto,
     Blame, job, history
<1>16. ASSUME NEW w \in Worker, Crash(w) PROVE StopsReach'
  BY <1>0, <1>16 DEF StopsReach, Runs, OneRun, CopiesFit, NotYet, TypeOK,
     PhasesFit, WorkerPhases, WebPhases, Proc, Executing, Crash,
     RequeueOrEnd, Enqueue, Goto, Blame, job, history
<1>17. ASSUME NEW u \in Web, StopRead(u) PROVE StopsReach'
  BY <1>0, <1>17 DEF StopsReach, Runs, OneRun, CopiesFit, NotYet, TypeOK,
     PhasesFit, WorkerPhases, WebPhases, Proc, Executing, StopRead, Goto,
     Blame, job, history
<1>18. ASSUME NEW u \in Web, StopJob(u) PROVE StopsReach'
  BY <1>0, <1>18 DEF StopsReach, Runs, OneRun, CopiesFit, NotYet, TypeOK,
     PhasesFit, WorkerPhases, WebPhases, Proc, Executing, StopJob, Goto,
     Blame, job, history
<1>19. ASSUME NEW u \in Web, StopCommit(u) PROVE StopsReach'
  BY <1>0, <1>19 DEF StopsReach, Runs, OneRun, CopiesFit, NotYet, TypeOK,
     PhasesFit, WorkerPhases, WebPhases, Proc, Executing, StopCommit,
     SetStatus, Invalidated, Goto, Blame, job, history
<1>20. ASSUME NEW u \in Web, StopConflict(u) PROVE StopsReach'
  BY <1>0, <1>20 DEF StopsReach, Runs, OneRun, CopiesFit, NotYet, TypeOK,
     PhasesFit, WorkerPhases, WebPhases, Proc, Executing, StopConflict, Goto,
     Blame, job, history
<1>21. ASSUME NEW u \in Web, StopRefused(u) PROVE StopsReach'
  BY <1>0, <1>21 DEF StopsReach, Runs, OneRun, CopiesFit, NotYet, TypeOK,
     PhasesFit, WorkerPhases, WebPhases, Proc, Executing, StopRefused, Goto,
     Blame, job, history
<1>22. ASSUME NEW u \in Web, RetryRead(u) PROVE StopsReach'
  BY <1>0, <1>22 DEF StopsReach, Runs, OneRun, CopiesFit, NotYet, TypeOK,
     PhasesFit, WorkerPhases, WebPhases, Proc, Executing, RetryRead, Goto,
     Blame, job, history
<1>23. ASSUME NEW u \in Web, RetryWrite(u) PROVE StopsReach'
  BY <1>0, <1>23 DEF StopsReach, Runs, OneRun, CopiesFit, NotYet, TypeOK,
     PhasesFit, WorkerPhases, WebPhases, Proc, Executing, RetryWrite, Goto,
     Blame, job, history
<1>24. ASSUME NEW u \in Web, RetryEnqueue(u) PROVE StopsReach'
  BY <1>0, <1>24 DEF StopsReach, Runs, OneRun, CopiesFit, NotYet, TypeOK,
     PhasesFit, WorkerPhases, WebPhases, Proc, Executing, RetryEnqueue,
     Enqueue, Goto, Blame, job, history
<1>25. ASSUME NEW u \in Web, RetryCommit(u) PROVE StopsReach'
  BY <1>0, <1>25 DEF StopsReach, Runs, OneRun, CopiesFit, NotYet, TypeOK,
     PhasesFit, WorkerPhases, WebPhases, Proc, Executing, RetryCommit,
     Invalidated, Goto, Blame, job, history
<1>26. ASSUME NEW u \in Web, RetryFails(u) PROVE StopsReach'
  BY <1>0, <1>26 DEF StopsReach, Runs, OneRun, CopiesFit, NotYet, TypeOK,
     PhasesFit, WorkerPhases, WebPhases, Proc, Executing, RetryFails, Goto,
     Blame, job, history
<1>27. CASE UNCHANGED vars
  BY <1>0, <1>27 DEF StopsReach, Runs, OneRun, CopiesFit, NotYet, TypeOK,
     PhasesFit, WorkerPhases, WebPhases, Proc, Executing, vars
<1>. QED
  BY <1>1, <1>2, <1>3, <1>4, <1>5, <1>6, <1>7, <1>8, <1>9, <1>10, <1>11,
     <1>12, <1>13, <1>14, <1>15, <1>16, <1>17, <1>18, <1>19, <1>20, <1>21,
     <1>22, <1>23, <1>24, <1>25, <1>26, <1>27 DEF Next, WorkerStep, WebStep

(* The one run commits its work with Completed, and nobody queues the job  *)
(* of a Completed task.                                                    *)
LEMMA NextDone == ASSUME IInv, [Next]_vars PROVE DoneOnce'
<1>0. TypeOK /\ PhasesFit /\ CopiesFit /\ OneRun /\ DoneOnce /\ NotYet
  BY DEF IInv
<1>1. ASSUME NEW r \in 0 .. MaxRetries, EnqueueAfterCommit(r) PROVE DoneOnce'
  BY <1>0, <1>1 DEF DoneOnce, OneRun, CopiesFit, NotYet, TypeOK, PhasesFit,
     WorkerPhases, WebPhases, Proc, Executing, RowLocked, EnqueueAfterCommit,
     Enqueue, MayRun, Goto, Blame, job, history
<1>2. CASE EnqueueRefused
  BY <1>0, <1>2 DEF DoneOnce, OneRun, CopiesFit, NotYet, TypeOK, PhasesFit,
     WorkerPhases, WebPhases, Proc, Executing, RowLocked, EnqueueRefused,
     Goto, Blame, job, history
<1>3. ASSUME NEW w \in Worker, Pop(w) PROVE DoneOnce'
  BY <1>0, <1>3 DEF DoneOnce, OneRun, CopiesFit, NotYet, TypeOK, PhasesFit,
     WorkerPhases, WebPhases, Proc, Executing, RowLocked, Pop, Goto, Blame,
     job, history
<1>4. ASSUME NEW w \in Worker, StartJob(w) PROVE DoneOnce'
  BY <1>0, <1>4 DEF DoneOnce, OneRun, CopiesFit, NotYet, TypeOK, PhasesFit,
     WorkerPhases, WebPhases, Proc, Executing, RowLocked, StartJob, Goto,
     Blame, job, history
<1>5. ASSUME NEW w \in Worker, ReadTask(w) PROVE DoneOnce'
  BY <1>0, <1>5 DEF DoneOnce, OneRun, CopiesFit, NotYet, TypeOK, PhasesFit,
     WorkerPhases, WebPhases, Proc, Executing, RowLocked, ReadTask, MayRun,
     Goto, Blame, job, history
<1>6. ASSUME NEW w \in Worker, MarkRunning(w) PROVE DoneOnce'
  BY <1>0, <1>6 DEF DoneOnce, OneRun, CopiesFit, NotYet, TypeOK, PhasesFit,
     WorkerPhases, WebPhases, Proc, Executing, RowLocked, MarkRunning,
     SetStatus, Invalidated, Goto, Blame, job, history
<1>7. ASSUME NEW w \in Worker, MarkConflict(w) PROVE DoneOnce'
  BY <1>0, <1>7 DEF DoneOnce, OneRun, CopiesFit, NotYet, TypeOK, PhasesFit,
     WorkerPhases, WebPhases, Proc, Executing, RowLocked, MarkConflict,
     RequeueOrEnd, Enqueue, Goto, Blame, job, history
<1>8. ASSUME NEW w \in Worker, StartTarget(w) PROVE DoneOnce'
  BY <1>0, <1>8 DEF DoneOnce, OneRun, CopiesFit, NotYet, TypeOK, PhasesFit,
     WorkerPhases, WebPhases, Proc, Executing, RowLocked, StartTarget, Goto,
     Blame, job, history
<1>9. ASSUME NEW w \in Worker, Complete(w) PROVE DoneOnce'
  BY <1>0, <1>9 DEF DoneOnce, OneRun, CopiesFit, NotYet, TypeOK, PhasesFit,
     WorkerPhases, WebPhases, Proc, Executing, RowLocked, Complete,
     SetStatus, Invalidated, Goto, Blame, job, history
<1>10. ASSUME NEW w \in Worker, TargetFails(w) PROVE DoneOnce'
  BY <1>0, <1>10 DEF DoneOnce, OneRun, CopiesFit, NotYet, TypeOK, PhasesFit,
     WorkerPhases, WebPhases, Proc, Executing, RowLocked, TargetFails, Goto,
     Blame, job, history
<1>11. ASSUME NEW w \in Worker, LateFailure(w) PROVE DoneOnce'
  BY <1>0, <1>11 DEF DoneOnce, OneRun, CopiesFit, NotYet, TypeOK, PhasesFit,
     WorkerPhases, WebPhases, Proc, Executing, RowLocked, LateFailure, Goto,
     Blame, job, history
<1>12. ASSUME NEW w \in Worker, RetryLater(w) PROVE DoneOnce'
  BY <1>0, <1>12 DEF DoneOnce, OneRun, CopiesFit, NotYet, TypeOK, PhasesFit,
     WorkerPhases, WebPhases, Proc, Executing, RowLocked, RetryLater,
     Enqueue, Goto, Blame, job, history
<1>13. ASSUME NEW w \in Worker, MarkFailed(w) PROVE DoneOnce'
  BY <1>0, <1>13 DEF DoneOnce, OneRun, CopiesFit, NotYet, TypeOK, PhasesFit,
     WorkerPhases, WebPhases, Proc, Executing, RowLocked, MarkFailed,
     SetStatus, Invalidated, MayFail, Goto, Blame, job, history
<1>14. ASSUME NEW w \in Worker, EndJob(w) PROVE DoneOnce'
  BY <1>0, <1>14 DEF DoneOnce, OneRun, CopiesFit, NotYet, TypeOK, PhasesFit,
     WorkerPhases, WebPhases, Proc, Executing, RowLocked, EndJob, Goto,
     Blame, job, history
<1>15. ASSUME NEW w \in Worker, Stopped(w) PROVE DoneOnce'
  BY <1>0, <1>15 DEF DoneOnce, OneRun, CopiesFit, NotYet, TypeOK, PhasesFit,
     WorkerPhases, WebPhases, Proc, Executing, RowLocked, Stopped, Goto,
     Blame, job, history
<1>16. ASSUME NEW w \in Worker, Crash(w) PROVE DoneOnce'
  BY <1>0, <1>16 DEF DoneOnce, OneRun, CopiesFit, NotYet, TypeOK, PhasesFit,
     WorkerPhases, WebPhases, Proc, Executing, RowLocked, Crash,
     RequeueOrEnd, Enqueue, Goto, Blame, job, history
<1>17. ASSUME NEW u \in Web, StopRead(u) PROVE DoneOnce'
  BY <1>0, <1>17 DEF DoneOnce, OneRun, CopiesFit, NotYet, TypeOK, PhasesFit,
     WorkerPhases, WebPhases, Proc, Executing, RowLocked, StopRead, Goto,
     Blame, job, history
<1>18. ASSUME NEW u \in Web, StopJob(u) PROVE DoneOnce'
  BY <1>0, <1>18 DEF DoneOnce, OneRun, CopiesFit, NotYet, TypeOK, PhasesFit,
     WorkerPhases, WebPhases, Proc, Executing, RowLocked, StopJob, Goto,
     Blame, job, history
<1>19. ASSUME NEW u \in Web, StopCommit(u) PROVE DoneOnce'
  BY <1>0, <1>19 DEF DoneOnce, OneRun, CopiesFit, NotYet, TypeOK, PhasesFit,
     WorkerPhases, WebPhases, Proc, Executing, RowLocked, StopCommit,
     SetStatus, Invalidated, Goto, Blame, job, history
<1>20. ASSUME NEW u \in Web, StopConflict(u) PROVE DoneOnce'
  BY <1>0, <1>20 DEF DoneOnce, OneRun, CopiesFit, NotYet, TypeOK, PhasesFit,
     WorkerPhases, WebPhases, Proc, Executing, RowLocked, StopConflict, Goto,
     Blame, job, history
<1>21. ASSUME NEW u \in Web, StopRefused(u) PROVE DoneOnce'
  BY <1>0, <1>21 DEF DoneOnce, OneRun, CopiesFit, NotYet, TypeOK, PhasesFit,
     WorkerPhases, WebPhases, Proc, Executing, RowLocked, StopRefused, Goto,
     Blame, job, history
<1>22. ASSUME NEW u \in Web, RetryRead(u) PROVE DoneOnce'
  BY <1>0, <1>22 DEF DoneOnce, OneRun, CopiesFit, NotYet, TypeOK, PhasesFit,
     WorkerPhases, WebPhases, Proc, Executing, RowLocked, RetryRead, Goto,
     Blame, job, history
<1>23. ASSUME NEW u \in Web, RetryWrite(u) PROVE DoneOnce'
  BY <1>0, <1>23 DEF DoneOnce, OneRun, CopiesFit, NotYet, TypeOK, PhasesFit,
     WorkerPhases, WebPhases, Proc, Executing, RowLocked, RetryWrite, Goto,
     Blame, job, history
<1>24. ASSUME NEW u \in Web, RetryEnqueue(u) PROVE DoneOnce'
  BY <1>0, <1>24 DEF DoneOnce, OneRun, CopiesFit, NotYet, TypeOK, PhasesFit,
     WorkerPhases, WebPhases, Proc, Executing, RowLocked, RetryEnqueue,
     Enqueue, Goto, Blame, job, history
<1>25. ASSUME NEW u \in Web, RetryCommit(u) PROVE DoneOnce'
  BY <1>0, <1>25 DEF DoneOnce, OneRun, CopiesFit, NotYet, TypeOK, PhasesFit,
     WorkerPhases, WebPhases, Proc, Executing, RowLocked, RetryCommit,
     Invalidated, Goto, Blame, job, history
<1>26. ASSUME NEW u \in Web, RetryFails(u) PROVE DoneOnce'
  BY <1>0, <1>26 DEF DoneOnce, OneRun, CopiesFit, NotYet, TypeOK, PhasesFit,
     WorkerPhases, WebPhases, Proc, Executing, RowLocked, RetryFails, Goto,
     Blame, job, history
<1>27. CASE UNCHANGED vars
  BY <1>0, <1>27 DEF DoneOnce, OneRun, CopiesFit, NotYet, TypeOK, PhasesFit,
     WorkerPhases, WebPhases, Proc, Executing, RowLocked, vars
<1>. QED
  BY <1>1, <1>2, <1>3, <1>4, <1>5, <1>6, <1>7, <1>8, <1>9, <1>10, <1>11,
     <1>12, <1>13, <1>14, <1>15, <1>16, <1>17, <1>18, <1>19, <1>20, <1>21,
     <1>22, <1>23, <1>24, <1>25, <1>26, <1>27 DEF Next, WorkerStep, WebStep

-----------------------------------------------------------------------------
(* The inductive invariant holds in every reachable state.                 *)
THEOREM InvariantHolds == Spec => []IInv
<1>1. ASSUME IInv, [Next]_vars PROVE IInv'
  BY <1>1, NextType, NextPhases, NextNotYet, NextCopies, NextOneRun, NextStops,
     NextDone DEF IInv
<1>. QED
  BY InitInv, <1>1, PTL DEF Spec

(* Every variable keeps its type.                                          *)
THEOREM TypeCorrect == Spec => []TypeOK
<1>1. IInv => TypeOK
  BY DEF IInv
<1>. QED
  BY <1>1, InvariantHolds, PTL

(* Completed means that the work was done once, everything else that it    *)
(* was not done, but for the three named causes.                           *)
THEOREM CompletedOnce == Spec => []CompletedIffDone
<1>1. IInv => CompletedIffDone
  BY DEF IInv, DoneOnce, CompletedIffDone
<1>. QED
  BY <1>1, InvariantHolds, PTL

(* Only a retry, or a worker with a stop command on its way, brings a      *)
(* cancelled task back.                                                    *)
THEOREM CancelledStays == Spec => CancelIsFinal
<1>. DEFINE A == status = "Cancelled" /\ status' # "Cancelled"
                   => status' = "Queued" \/ kill # {} \/ "overlap" \in causes
<1>1. ASSUME IInv, [Next]_vars PROVE A
  <2>. SUFFICES ASSUME status = "Cancelled", status' # "Cancelled"
                PROVE  status' = "Queued" \/ kill # {} \/ "overlap" \in causes
    OBVIOUS
  <2>1. ASSUME NEW w \in Worker, MarkRunning(w) PROVE FALSE
    BY <1>1, <2>1 DEF MarkRunning, IInv, CopiesFit
  <2>2. ASSUME NEW w \in Worker, Complete(w) PROVE kill # {} \/ "overlap" \in causes
    BY <1>1, <2>2 DEF Complete, IInv, StopsReach, Runs
  <2>3. ASSUME NEW w \in Worker, MarkFailed(w) PROVE FALSE
    BY <2>3 DEF MarkFailed, MayFail
  <2>4. ASSUME NEW u \in Web, StopCommit(u) PROVE FALSE
    BY <2>4 DEF StopCommit, SetStatus
  <2>5. ASSUME NEW u \in Web, RetryCommit(u) PROVE status' = "Queued"
    BY <2>5 DEF RetryCommit
  <2>. QED
    BY <1>1, <2>1, <2>2, <2>3, <2>4, <2>5
       DEF Next, WorkerStep, WebStep, vars, EnqueueAfterCommit, EnqueueRefused, Pop,
           StartJob, ReadTask, MarkConflict, StartTarget, TargetFails, LateFailure,
           RetryLater, EndJob, Stopped, Crash, StopRead, StopJob, StopConflict,
           StopRefused, RetryRead, RetryWrite, RetryEnqueue, RetryFails
<1>2. [][A]_vars => CancelIsFinal
  BY DEF CancelIsFinal
<1>. QED
  BY InvariantHolds, <1>1, <1>2, PTL DEF Spec
=============================================================================
