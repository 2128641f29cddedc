----------------------------- MODULE RedisProofs ------------------------------
(***************************************************************************)
(* Proofs about the two components whose state is in Redis, RedisSemaphore *)
(* and BackgroundJob.  Tokens of a cleanly filled semaphore are conserved, *)
(* for any number of requests, any limit and any number of failures.  A    *)
(* deduplicated job waits or runs once, for any number of workers, callers *)
(* and retries, as long as no two calls of enqueue overlap.                *)
(***************************************************************************)
EXTENDS RedisSemaphore, BackgroundJob, FiniteSetTheorems, TLAPS

(* The holders are finitely many, so they can be counted before and after  *)
(* a step.                                                                 *)
LEMMA HoldersAreFinite ==
  /\ IsFiniteSet(Holders) /\ Cardinality(Holders) \in Nat
  /\ IsFiniteSet(Holders') /\ Cardinality(Holders') \in Nat
<1>1. Holders \in SUBSET Proc /\ Holders' \in SUBSET Proc
  BY DEF Holders, In
<1>. QED
  BY <1>1, SemaphoreAssumption, FS_Subset, FS_CardinalityType

(* Who does not take or give back a token does not change the holders.     *)
LEMMA SameHolders ==
  ASSUME TypeOK, NEW p \in Proc, NEW to,
         phase[p] # "held", to # "held", Goto(p, to)
  PROVE  Holders' = Holders
BY DEF TypeOK, Goto, Holders, In

(* Only a request that begins or ends a fill changes who is filling.       *)
LEMMA SameFillers ==
  ASSUME TypeOK, NEW p \in Proc, NEW to,
         phase[p] # "fill", to # "fill", Goto(p, to)
  PROVE  In("fill")' = In("fill")
BY DEF TypeOK, Goto, In

(* One request more ...                                                    *)
LEMMA HolderJoins ==
  ASSUME TypeOK, NEW p \in Proc, phase[p] # "held", Goto(p, "held")
  PROVE  Cardinality(Holders') = Cardinality(Holders) + 1
<1>1. Holders' = Holders \cup {p} /\ p \notin Holders
  BY DEF TypeOK, Goto, Holders, In
<1>. QED
  BY <1>1, HoldersAreFinite, FS_AddElement

(* ... or less holds a token.                                              *)
LEMMA HolderLeaves ==
  ASSUME TypeOK, NEW p \in Proc, NEW to, phase[p] = "held", to # "held",
         Goto(p, to)
  PROVE  Cardinality(Holders') = Cardinality(Holders) - 1
<1>1. Holders' = Holders \ {p} /\ p \in Holders
  BY DEF TypeOK, Goto, Holders, In
<1>. QED
  BY <1>1, HoldersAreFinite, FS_RemoveElement

-----------------------------------------------------------------------------
(* A semaphore that nobody used yet is typed ...                            *)
LEMMA InitType == Init => TypeOK
<1>. SUFFICES ASSUME Init PROVE TypeOK
  OBVIOUS
<1>1. capacity \in BOOLEAN /\ clean \in BOOLEAN
  BY Zenon DEF Init
<1>2. /\ pool \in Nat /\ failures \in Nat
      /\ phase \in [Proc -> Phases] /\ toPush \in [Proc -> 0 .. Limit]
  BY SemaphoreAssumption DEF Init, Phases
<1>. QED
  BY <1>1, <1>2 DEF TypeOK

(* ... and every Redis command and crash keeps it typed.                   *)
LEMMA NextType == TypeOK /\ [Next]_vars => TypeOK'
<1>. SUFFICES ASSUME TypeOK, [Next]_vars PROVE TypeOK'
  OBVIOUS
<1>. USE SemaphoreAssumption DEF TypeOK, Phases, Goto, Fails, In, Filling, Holders
<1>1. ASSUME NEW p \in Proc, Check(p) PROVE TypeOK'
  BY <1>1 DEF Check
<1>2. ASSUME NEW p \in Proc, SetCapacity(p) PROVE TypeOK'
  BY <1>2 DEF SetCapacity
<1>3. ASSUME NEW p \in Proc, Clear(p) PROVE TypeOK'
  BY <1>3 DEF Clear, StartFill
<1>4. ASSUME NEW p \in Proc, Push(p) PROVE TypeOK'
  BY <1>4 DEF Push
<1>5. ASSUME NEW p \in Proc, FillFails(p) PROVE TypeOK'
  BY <1>5 DEF FillFails
<1>6. ASSUME NEW p \in Proc, Acquire(p) PROVE TypeOK'
  BY <1>6 DEF Acquire
<1>7. ASSUME NEW p \in Proc, Reject(p) PROVE TypeOK'
  BY <1>7 DEF Reject
<1>8. ASSUME NEW p \in Proc, Fallback(p) PROVE TypeOK'
  BY <1>8 DEF Fallback
<1>9. ASSUME NEW p \in Proc, Release(p) PROVE TypeOK'
  BY <1>9 DEF Release
<1>10. ASSUME NEW p \in Proc, Crash(p) PROVE TypeOK'
  BY <1>10 DEF Crash
<1>11. CASE CapacityExpires
  BY <1>11 DEF CapacityExpires
<1>12. ASSUME NEW p \in Proc, CheckLost(p) PROVE TypeOK'
  BY <1>12 DEF CheckLost
<1>13. ASSUME NEW p \in Proc, SetLost(p) PROVE TypeOK'
  BY <1>13 DEF SetLost
<1>14. ASSUME NEW p \in Proc, ClearLost(p) PROVE TypeOK'
  BY <1>14 DEF ClearLost, StartFill
<1>15. CASE UNCHANGED vars
  BY <1>15 DEF vars
<1>. QED
  BY <1>1, <1>2, <1>3, <1>4, <1>5, <1>6, <1>7, <1>8, <1>9, <1>10, <1>11, <1>12,
     <1>13, <1>14, <1>15 DEF Next, Progress

(* Type correctness of every reachable state.                              *)
THEOREM TypeCorrect == Spec => []TypeOK
BY InitType, NextType, PTL DEF Spec

-----------------------------------------------------------------------------
(* A step that leaves the list, the holders and the fillers alone, or only *)
(* takes something away, preserves the count of tokens.                    *)
LEMMA FewerTokens ==
  ASSUME IInv, TypeOK', clean' => clean,
         pool' + Cardinality(Holders') <= pool + Cardinality(Holders),
         In("fill")' \subseteq In("fill"),
         \A q \in In("fill")' : toPush'[q] = toPush[q]
  PROVE  CleanPoolIsBounded' /\ CleanFill'
<1>. SUFFICES ASSUME clean'
             PROVE  /\ pool' + Cardinality(Holders') <= Limit
                    /\ \A q \in In("fill")' :
                         /\ pool' + Cardinality(Holders') + toPush'[q] <= Limit
                         /\ In("fill")' = {q}
  BY DEF CleanPoolIsBounded, CleanFill
<1>1. pool' + Cardinality(Holders') <= Limit
  BY SemaphoreAssumption, HoldersAreFinite DEF IInv, TypeOK, CleanPoolIsBounded
<1>2. ASSUME NEW q \in In("fill")'
      PROVE  /\ pool' + Cardinality(Holders') + toPush'[q] <= Limit
             /\ In("fill")' = {q}
  <2>1. q \in In("fill") /\ In("fill") = {q}
    BY <1>2 DEF IInv, CleanFill
  <2>2. toPush[q] \in Nat /\ toPush'[q] = toPush[q]
    BY <1>2, <2>1, SemaphoreAssumption DEF IInv, TypeOK, In
  <2>3. pool + Cardinality(Holders) + toPush[q] <= Limit
    BY <2>1 DEF IInv, CleanFill
  <2>4. pool' + Cardinality(Holders') + toPush'[q] <= Limit
    BY <2>2, <2>3, SemaphoreAssumption, HoldersAreFinite DEF IInv, TypeOK
  <2>. QED
    BY <1>2, <2>1, <2>4
<1>. QED
  BY <1>1, <1>2

(* The pushes begin: on an empty list nobody holds a token of, or on one   *)
(* that does not count as clean.                                           *)
LEMMA FillStarts ==
  ASSUME IInv, TypeOK', NEW p \in Proc, NEW left \in Nat, StartFill(p, left)
  PROVE  IInv'
<1>. USE HoldersAreFinite DEF IInv
<1>1. Holders' = Holders
  BY SameHolders DEF StartFill
<1>2. CASE ~clean'
  BY <1>2 DEF CleanPoolIsBounded, CleanFill
<1>3. CASE clean'
  <2>1. Holders = {} /\ Filling = {p} /\ left = 0
    BY <1>3 DEF StartFill
  <2>2. Cardinality(Holders') = 0
    BY <1>1, <2>1, FS_EmptySet
  <2>3. In("fill")' = {p}
    BY <2>1 DEF StartFill, TypeOK, Filling, In, Goto
  <2>4. pool' = 0 /\ toPush'[p] = Limit
    BY <2>1 DEF StartFill, TypeOK
  <2>. QED
    BY <2>2, <2>3, <2>4, SemaphoreAssumption DEF CleanPoolIsBounded, CleanFill
<1>. QED
  BY <1>2, <1>3

(* Tokens are conserved: the inductive invariant holds in every state.     *)
THEOREM InvariantHolds == Spec => []IInv
<1>1. ASSUME Init PROVE IInv
  <2>1. Holders = {} /\ In("fill") = {}
    BY <1>1 DEF Init, Holders, In
  <2>2. Cardinality(Holders) = 0
    BY <2>1, FS_EmptySet
  <2>3. TypeOK
    BY <1>1, InitType
  <2>. QED
    BY <1>1, <2>1, <2>2, <2>3, SemaphoreAssumption
       DEF Init, IInv, CleanPoolIsBounded, CleanFill
<1>2. ASSUME IInv, [Next]_vars PROVE IInv'
  <2>0. TypeOK /\ TypeOK'
    BY <1>2, NextType DEF IInv
  <2>. USE <1>2, <2>0, HoldersAreFinite
  <2>1. ASSUME NEW p \in Proc, Check(p) PROVE IInv'
    <3>1. Holders' = Holders /\ In("fill")' = In("fill")
      BY <2>1, SameHolders, SameFillers DEF Check
    <3>. QED
      BY <2>1, <3>1, FewerTokens DEF Check, IInv, TypeOK
  <2>2. ASSUME NEW p \in Proc, SetCapacity(p) PROVE IInv'
    <3>1. Holders' = Holders /\ In("fill")' = In("fill")
      BY <2>2, SameHolders, SameFillers DEF SetCapacity
    <3>. QED
      BY <2>2, <3>1, FewerTokens DEF SetCapacity, IInv, TypeOK
  <2>3. ASSUME NEW p \in Proc, Clear(p) PROVE IInv'
    BY <2>3, FillStarts DEF Clear
  <2>4. ASSUME NEW p \in Proc, Push(p) PROVE IInv'
    <3>1. Holders' = Holders
      BY <2>4, SameHolders DEF Push
    <3>2. CASE ~clean'
      BY <3>2 DEF IInv, CleanPoolIsBounded, CleanFill
    <3>3. CASE clean'
      <4>1. clean /\ p \in In("fill")
        BY <2>4, <3>3 DEF Push, In
      <4>2. /\ pool + Cardinality(Holders) + toPush[p] <= Limit
            /\ In("fill") = {p}
        BY <4>1 DEF IInv, CleanFill
      <4>3. pool' = pool + 1 /\ toPush'[p] = toPush[p] - 1 /\ toPush[p] \in Nat
        BY <2>4, SemaphoreAssumption DEF Push, TypeOK
      <4>4. In("fill")' \subseteq {p}
        BY <2>4, <4>2 DEF Push, TypeOK, In, Goto
      <4>5. pool' + Cardinality(Holders') + toPush'[p] <= Limit
        BY <3>1, <4>2, <4>3, SemaphoreAssumption DEF TypeOK
      <4>6. pool' + Cardinality(Holders') <= Limit
        BY <2>4, <3>1, <4>2, <4>3, SemaphoreAssumption DEF TypeOK, Push
      <4>. QED
        BY <4>4, <4>5, <4>6 DEF IInv, CleanPoolIsBounded, CleanFill
    <3>. QED
      BY <3>2, <3>3
  <2>5. ASSUME NEW p \in Proc, FillFails(p) PROVE IInv'
    <3>1. Holders' = Holders
      BY <2>5, SameHolders DEF FillFails, Filling, In
    <3>2. In("fill")' \subseteq In("fill") /\ p \notin In("fill")'
      BY <2>5 DEF FillFails, TypeOK, In, Goto
    <3>3. CASE pool' = pool
      <4>1. \A q \in In("fill")' : toPush'[q] = toPush[q]
        BY <2>5, <3>2 DEF FillFails, TypeOK, In
      <4>. QED
        BY <2>5, <3>1, <3>2, <3>3, <4>1, FewerTokens DEF FillFails, IInv, TypeOK
    <3>4. CASE pool' # pool /\ ~clean'
      BY <3>4 DEF IInv, CleanPoolIsBounded, CleanFill
    <3>5. CASE pool' # pool /\ clean'
      <4>1. clean /\ p \in In("fill") /\ toPush[p] > 0 /\ pool' = pool + 1
        BY <2>5, <3>5 DEF FillFails, In
      <4>2. /\ pool + Cardinality(Holders) + toPush[p] <= Limit
            /\ In("fill") = {p}
        BY <4>1 DEF IInv, CleanFill
      <4>3. In("fill")' = {}
        BY <3>2, <4>2
      <4>4. toPush[p] \in Nat
        BY SemaphoreAssumption DEF TypeOK
      <4>5. pool' + Cardinality(Holders') <= Limit
        BY <3>1, <4>1, <4>2, <4>4, SemaphoreAssumption DEF TypeOK
      <4>. QED
        BY <4>3, <4>5 DEF IInv, CleanPoolIsBounded, CleanFill
    <3>. QED
      BY <3>3, <3>4, <3>5
  <2>6. ASSUME NEW p \in Proc, Acquire(p) PROVE IInv'
    <3>1. Cardinality(Holders') = Cardinality(Holders) + 1
      BY <2>6, HolderJoins DEF Acquire
    <3>2. In("fill")' = In("fill")
      BY <2>6, SameFillers DEF Acquire
    <3>. QED
      BY <2>6, <3>1, <3>2, FewerTokens DEF Acquire, IInv, TypeOK
  <2>7. ASSUME NEW p \in Proc, Reject(p) PROVE IInv'
    <3>1. Holders' = Holders /\ In("fill")' = In("fill")
      BY <2>7, SameHolders, SameFillers DEF Reject
    <3>. QED
      BY <2>7, <3>1, FewerTokens DEF Reject, IInv, TypeOK
  <2>8. ASSUME NEW p \in Proc, Fallback(p) PROVE IInv'
    <3>1. Holders' = Holders /\ In("fill")' = In("fill")
      BY <2>8, SameHolders, SameFillers DEF Fallback
    <3>2. pool' <= pool
      BY <2>8 DEF Fallback, TypeOK
    <3>. QED
      BY <2>8, <3>1, <3>2, FewerTokens DEF Fallback, IInv, TypeOK
  <2>9. ASSUME NEW p \in Proc, Release(p) PROVE IInv'
    <3>1. In("fill")' = In("fill")
      BY <2>9, SameFillers DEF Release
    <3>2. CASE phase[p] = "held"
      <4>1. Cardinality(Holders') = Cardinality(Holders) - 1
        BY <2>9, <3>2, HolderLeaves DEF Release
      <4>2. pool' = pool + 1
        BY <2>9, <3>2 DEF Release
      <4>3. pool' + Cardinality(Holders') <= pool + Cardinality(Holders)
        BY <4>1, <4>2 DEF TypeOK
      <4>. QED
        BY <2>9, <3>1, <4>3, FewerTokens DEF Release, IInv, TypeOK
    <3>3. CASE phase[p] # "held"
      <4>1. Holders' = Holders /\ pool' = pool
        BY <2>9, <3>3, SameHolders DEF Release
      <4>. QED
        BY <2>9, <3>1, <4>1, FewerTokens DEF Release, IInv, TypeOK
    <3>. QED
      BY <3>2, <3>3
  <2>10. ASSUME NEW p \in Proc, Crash(p) PROVE IInv'
    <3>1. In("fill")' \subseteq In("fill") /\ p \notin In("fill")'
      BY <2>10 DEF Crash, TypeOK, In, Goto
    <3>2. \A q \in In("fill")' : toPush'[q] = toPush[q]
      BY <2>10, <3>1 DEF Crash, TypeOK, In
    <3>3. Cardinality(Holders') <= Cardinality(Holders)
      <4>1. CASE phase[p] = "held"
        BY <2>10, <4>1, HolderLeaves DEF Crash
      <4>2. CASE phase[p] # "held"
        BY <2>10, <4>2, SameHolders DEF Crash
      <4>. QED
        BY <4>1, <4>2
    <3>. QED
      BY <2>10, <3>1, <3>2, <3>3, FewerTokens DEF Crash, IInv, TypeOK
  <2>11. CASE CapacityExpires
    <3>1. Holders' = Holders /\ In("fill")' = In("fill")
      BY <2>11 DEF CapacityExpires, Holders, In
    <3>. QED
      BY <2>11, <3>1, FewerTokens DEF CapacityExpires, IInv, TypeOK
  <2>12. ASSUME NEW p \in Proc, CheckLost(p) PROVE IInv'
    <3>1. Holders' = Holders /\ In("fill")' = In("fill")
      BY <2>12, SameHolders, SameFillers DEF CheckLost
    <3>. QED
      BY <2>12, <3>1, FewerTokens DEF CheckLost, IInv, TypeOK
  <2>13. ASSUME NEW p \in Proc, SetLost(p) PROVE IInv'
    <3>1. Holders' = Holders /\ In("fill")' = In("fill")
      BY <2>13, SameHolders, SameFillers DEF SetLost
    <3>. QED
      BY <2>13, <3>1, FewerTokens DEF SetLost, IInv, TypeOK
  <2>14. ASSUME NEW p \in Proc, ClearLost(p) PROVE IInv'
    BY <2>14, FillStarts DEF ClearLost, TypeOK
  <2>15. CASE UNCHANGED vars
    <3>1. Holders' = Holders /\ In("fill")' = In("fill")
      BY <2>15 DEF vars, Holders, In
    <3>. QED
      BY <2>15, <3>1, FewerTokens DEF vars, IInv, TypeOK
  <2>. QED
    BY <2>1, <2>2, <2>3, <2>4, <2>5, <2>6, <2>7, <2>8, <2>9, <2>10, <2>11, <2>12,
       <2>13, <2>14, <2>15 DEF Next, Progress
<1>. QED
  BY <1>1, <1>2, PTL DEF Spec

(* After a clean fill the list and the holders never exceed the limit,      *)
(* whatever commands are lost since.                                       *)
COROLLARY CleanPool == Spec => []CleanPoolIsBounded
<1>1. IInv => CleanPoolIsBounded
  BY DEF IInv
<1>. QED
  BY <1>1, InvariantHolds, PTL

-----------------------------------------------------------------------------
(* One job_id: where its callers and workers are.                          *)
Inside(c) == at[c] # "out"
Working(w) == run[w] # "idle"

(* Only a worker that runs the job has an exception at hand.               *)
RaisedInRun == \A w \in Worker : raised[w] # "none" => run[w] = "running"

(* The queue and the workers have the job once between them ...            *)
OneHolder ==
  /\ entries \in {0, 1}
  /\ entries = 1 => \A w \in Worker : ~Working(w)
  /\ \A v, w \in Worker : Working(v) /\ Working(w) => v = w

(* ... get_job tells whether they have it, and nobody else is past get_job *)
(* when a caller is.                                                       *)
StatusIsRight ==
  /\ ~IsEnqueued => entries = 0 /\ \A w \in Worker : ~Working(w)
  /\ entries = 1 => rq = "queued"

OneCaller ==
  /\ \A c \in Caller : Inside(c) => ~IsEnqueued
  /\ \A c, d \in Caller : Inside(c) /\ Inside(d) => c = d

Exclusive == ~raced => OneHolder /\ StatusIsRight /\ OneCaller

JobInv == JobTypeOK /\ RaisedInRun /\ Exclusive

-----------------------------------------------------------------------------
(* Nobody called enqueue yet.                                              *)
LEMMA InitialJob == JobInit => JobInv
<1>. USE JobAssumption
<1>. SUFFICES ASSUME JobInit PROVE JobInv
  OBVIOUS
<1>1. JobTypeOK
  <2>1. raced \in BOOLEAN /\ dropped \in BOOLEAN
    BY Zenon DEF JobInit
  <2>2. retry \in [Worker -> 0 .. MaxRetry]
    BY DEF JobInit
  <2>. QED
    BY <2>1, <2>2 DEF JobInit, JobTypeOK
<1>2. RaisedInRun
  BY DEF JobInit, RaisedInRun
<1>3. Exclusive
  BY DEF JobInit, Exclusive, OneHolder, StatusIsRight, OneCaller, Inside, Working
<1>. QED
  BY <1>1, <1>2, <1>3 DEF JobInv

(* Every step of a caller, of a worker and of RQ keeps the types ...       *)
LEMMA JobType == ASSUME JobInv, [JobNext]_jobVars PROVE JobTypeOK'
<1>. USE JobAssumption DEF JobInv, JobTypeOK, Exceptions, queue, callers, workers
<1>1. ASSUME NEW c \in Caller, LookUp(c) PROVE JobTypeOK'
  BY <1>1 DEF LookUp
<1>2. ASSUME NEW c \in Caller, DeleteJob(c) PROVE JobTypeOK'
  BY <1>2 DEF DeleteJob
<1>3. ASSUME NEW c \in Caller, EnqueueCall(c) PROVE JobTypeOK'
  <2>1. dropped' \in BOOLEAN
    BY <1>3, Zenon DEF EnqueueCall
  <2>. QED
    BY <1>3, <2>1 DEF EnqueueCall
<1>4. ASSUME NEW c \in Caller, GiveUp(c) PROVE JobTypeOK'
  BY <1>4 DEF GiveUp
<1>5. ASSUME NEW w \in Worker, Pop(w) PROVE JobTypeOK'
  BY <1>5 DEF Pop
<1>6. ASSUME NEW w \in Worker, StartJob(w) PROVE JobTypeOK'
  BY <1>6 DEF StartJob
<1>7. ASSUME NEW w \in Worker, Succeed(w) PROVE JobTypeOK'
  BY <1>7 DEF Succeed, End
<1>8. ASSUME NEW w \in Worker, NEW e \in Exceptions, Raise(w, e) PROVE JobTypeOK'
  BY <1>8 DEF Raise
<1>9. ASSUME NEW w \in Worker, Retry(w) PROVE JobTypeOK'
  BY <1>9 DEF Retry, MayRetry
<1>10. ASSUME NEW w \in Worker, FailJob(w) PROVE JobTypeOK'
  BY <1>10 DEF FailJob, End
<1>11. ASSUME NEW w \in Worker, WorkerDies(w) PROVE JobTypeOK'
  BY <1>11 DEF WorkerDies, Busy
<1>12. CASE Abandon
  BY <1>12 DEF Abandon
<1>13. CASE UNCHANGED jobVars
  BY <1>13 DEF jobVars
<1>. QED
  BY <1>1, <1>2, <1>3, <1>4, <1>5, <1>6, <1>7, <1>8, <1>9, <1>10, <1>11, <1>12, <1>13
     DEF JobNext, CallerStep, WorkerStep

(* ... and lets go of an exception when the run ends.                      *)
LEMMA JobRaised == ASSUME JobInv, [JobNext]_jobVars PROVE RaisedInRun'
<1>. USE DEF JobInv, JobTypeOK, RaisedInRun, queue, callers, workers
<1>1. ASSUME NEW c \in Caller, LookUp(c) PROVE RaisedInRun'
  BY <1>1 DEF LookUp
<1>2. ASSUME NEW c \in Caller, DeleteJob(c) PROVE RaisedInRun'
  BY <1>2 DEF DeleteJob
<1>3. ASSUME NEW c \in Caller, EnqueueCall(c) PROVE RaisedInRun'
  BY <1>3 DEF EnqueueCall
<1>4. ASSUME NEW c \in Caller, GiveUp(c) PROVE RaisedInRun'
  BY <1>4 DEF GiveUp
<1>5. ASSUME NEW w \in Worker, Pop(w) PROVE RaisedInRun'
  BY <1>5 DEF Pop
<1>6. ASSUME NEW w \in Worker, StartJob(w) PROVE RaisedInRun'
  BY <1>6 DEF StartJob
<1>7. ASSUME NEW w \in Worker, Succeed(w) PROVE RaisedInRun'
  BY <1>7 DEF Succeed, End
<1>8. ASSUME NEW w \in Worker, NEW e \in Exceptions, Raise(w, e) PROVE RaisedInRun'
  BY <1>8 DEF Raise
<1>9. ASSUME NEW w \in Worker, Retry(w) PROVE RaisedInRun'
  BY <1>9 DEF Retry, MayRetry
<1>10. ASSUME NEW w \in Worker, FailJob(w) PROVE RaisedInRun'
  BY <1>10 DEF FailJob, End
<1>11. ASSUME NEW w \in Worker, WorkerDies(w) PROVE RaisedInRun'
  BY <1>11 DEF WorkerDies, Busy
<1>12. CASE Abandon
  BY <1>12 DEF Abandon
<1>13. CASE UNCHANGED jobVars
  BY <1>13 DEF jobVars
<1>. QED
  BY <1>1, <1>2, <1>3, <1>4, <1>5, <1>6, <1>7, <1>8, <1>9, <1>10, <1>11, <1>12, <1>13
     DEF JobNext, CallerStep, WorkerStep

(* Whoever takes the job on took it from the only other holder; a caller   *)
(* that queues it found it nowhere, and nobody could have it since.        *)
LEMMA JobExclusive == ASSUME JobInv, [JobNext]_jobVars PROVE Exclusive'
<1>. USE DEF JobInv, JobTypeOK, RaisedInRun, Exclusive, OneHolder, StatusIsRight, OneCaller, Inside, Working,
     IsEnqueued, Busy, queue, callers, workers
<1>1. ASSUME NEW c \in Caller, LookUp(c) PROVE Exclusive'
  BY <1>1 DEF LookUp
<1>2. ASSUME NEW c \in Caller, DeleteJob(c) PROVE Exclusive'
  BY <1>2 DEF DeleteJob
<1>3. ASSUME NEW c \in Caller, EnqueueCall(c) PROVE Exclusive'
  BY <1>3 DEF EnqueueCall
<1>4. ASSUME NEW c \in Caller, GiveUp(c) PROVE Exclusive'
  BY <1>4 DEF GiveUp
<1>5. ASSUME NEW w \in Worker, Pop(w) PROVE Exclusive'
  BY <1>5 DEF Pop
<1>6. ASSUME NEW w \in Worker, StartJob(w) PROVE Exclusive'
  BY <1>6 DEF StartJob
<1>7. ASSUME NEW w \in Worker, Succeed(w) PROVE Exclusive'
  BY <1>7 DEF Succeed, End
<1>8. ASSUME NEW w \in Worker, NEW e \in Exceptions, Raise(w, e) PROVE Exclusive'
  BY <1>8 DEF Raise
<1>9. ASSUME NEW w \in Worker, Retry(w) PROVE Exclusive'
  BY <1>9 DEF Retry, MayRetry
<1>10. ASSUME NEW w \in Worker, FailJob(w) PROVE Exclusive'
  BY <1>10 DEF FailJob, End
<1>11. ASSUME NEW w \in Worker, WorkerDies(w) PROVE Exclusive'
  BY <1>11 DEF WorkerDies, Busy
<1>12. CASE Abandon
  BY <1>12 DEF Abandon
<1>13. CASE UNCHANGED jobVars
  BY <1>13 DEF jobVars
<1>. QED
  BY <1>1, <1>2, <1>3, <1>4, <1>5, <1>6, <1>7, <1>8, <1>9, <1>10, <1>11, <1>12, <1>13
     DEF JobNext, CallerStep, WorkerStep

-----------------------------------------------------------------------------
(* The inductive invariant holds in every reachable state.                 *)
THEOREM JobInvariantHolds == JobSpec => []JobInv
<1>1. ASSUME JobInv, [JobNext]_jobVars PROVE JobInv'
  BY <1>1, JobType, JobRaised, JobExclusive DEF JobInv
<1>. QED
  BY InitialJob, <1>1, PTL DEF JobSpec

(* Every variable keeps its type; execute_job stops after MaxRetry retries. *)
THEOREM JobTypeCorrect == JobSpec => []JobTypeOK
<1>1. JobInv => JobTypeOK
  BY DEF JobInv
<1>. QED
  BY <1>1, JobInvariantHolds, PTL

(* The job is waiting or running at most once, also when it fails, is      *)
(* retried, ends while somebody looks it up, or its worker dies.           *)
THEOREM Deduplicated == JobSpec => []OneJobAtATime
<1>1. ASSUME JobInv PROVE OneJobAtATime
  <2>. SUFFICES ASSUME ~raced PROVE entries + Cardinality(Busy) <= 1
    BY DEF OneJobAtATime
  <2>. OneHolder
    BY <1>1 DEF JobInv, Exclusive
  <2>1. CASE Busy = {}
    <3>1. Cardinality(Busy) = 0
      BY <2>1, FS_EmptySet
    <3>. QED
      BY <3>1 DEF OneHolder
  <2>2. ASSUME NEW w \in Busy PROVE entries + Cardinality(Busy) <= 1
    <3>1. Busy = {w} /\ entries = 0
      BY <2>2 DEF Busy, OneHolder, Working
    <3>2. Cardinality(Busy) = 1
      BY <3>1, FS_Singleton
    <3>. QED
      BY <3>1, <3>2
  <2>. QED
    BY <2>1, <2>2
<1>. QED
  BY <1>1, JobInvariantHolds, PTL
=============================================================================
