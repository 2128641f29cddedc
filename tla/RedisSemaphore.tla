--------------------------- MODULE RedisSemaphore ---------------------------
(***************************************************************************)
(* frappe/utils/redis_semaphore.py under concurrent_limit: a counting      *)
(* semaphore whose tokens are the elements of a Redis list.  Each Redis    *)
(* command is a step of its own, and so are the commands of _ensure_tokens *)
(* that fill the list.  The capacity key, which says that the list is      *)
(* filled, expires an hour after it was set.  RedisWrapper's exists,       *)
(* set_value and delete_value swallow a lost connection, so the code goes  *)
(* on as if the command had been done (the *Lost actions); lpush, lpop and *)
(* blpop, and every other Redis error, raise.                              *)
(***************************************************************************)
EXTENDS Integers, FiniteSets

CONSTANTS Proc,        \* requests that run the decorated function
          Limit,
          MaxFailures  \* bound: crashed workers and lost Redis connections

ASSUME SemaphoreAssumption ==
  /\ IsFiniteSet(Proc)
  /\ Limit \in Nat \ {0}
  /\ MaxFailures \in Nat

VARIABLES
  capacity,  \* the capacity key exists
  pool,      \* length of the token list
  phase,     \* phase[p]: where request p is
  toPush,    \* toPush[p]: tokens p still has to push
  failures,  \* history: failures so far
  clean      \* history: the last fill began with every token at home, with
             \* nobody else filling, and from an empty list

vars == <<capacity, pool, phase, toPush, failures, clean>>

Phases == {"idle", "set", "clear", "fill", "pop", "held", "fallback"}

TypeOK ==
  /\ capacity \in BOOLEAN
  /\ pool \in Nat
  /\ phase \in [Proc -> Phases]
  /\ toPush \in [Proc -> 0 .. Limit]
  /\ failures \in Nat
  /\ clean \in BOOLEAN

Init ==
  /\ capacity = FALSE /\ pool = 0
  /\ phase = [p \in Proc |-> "idle"]
  /\ toPush = [p \in Proc |-> 0]
  /\ failures = 0 /\ clean = TRUE

-----------------------------------------------------------------------------
(* Helpers.                                                                *)

In(ph) == {p \in Proc : phase[p] = ph}

Holders == In("held")

Filling == In("set") \cup In("clear") \cup In("fill")

Goto(p, to) == phase' = [phase EXCEPT ![p] = to]

Fails ==
  /\ failures < MaxFailures
  /\ failures' = failures + 1

-----------------------------------------------------------------------------
(* acquire: _ensure_tokens.                                                *)

(* exists(capacity).                                                       *)
Check(p) ==
  /\ phase[p] = "idle"
  /\ Goto(p, IF capacity THEN "pop" ELSE "set")
  /\ UNCHANGED <<capacity, pool, toPush, failures, clean>>

(* The connection is lost: exists answers False, whatever the key.         *)
CheckLost(p) ==
  /\ phase[p] = "idle"
  /\ Fails
  /\ Goto(p, "set")
  /\ UNCHANGED <<capacity, pool, toPush, clean>>

(* set_value(capacity, limit, expires_in_sec).                             *)
SetCapacity(p) ==
  /\ phase[p] = "set"
  /\ capacity' = TRUE
  /\ Goto(p, "clear")
  /\ UNCHANGED <<pool, toPush, failures, clean>>

SetLost(p) ==
  /\ phase[p] = "set"
  /\ Fails
  /\ Goto(p, "clear")
  /\ UNCHANGED <<capacity, pool, toPush, clean>>

(* delete_value(key) and the start of the loop that pushes the tokens,     *)
(* which may leave `left` tokens of the old list.                          *)
StartFill(p, left) ==
  /\ phase[p] = "clear"
  /\ pool' = left
  /\ toPush' = [toPush EXCEPT ![p] = Limit]
  /\ clean' = (Holders = {} /\ Filling = {p} /\ left = 0)
  /\ Goto(p, "fill")
  /\ UNCHANGED capacity

Clear(p) == StartFill(p, 0) /\ UNCHANGED failures

(* The delete is lost: the loop pushes on top of the old list.             *)
ClearLost(p) == StartFill(p, pool) /\ Fails

(* lpush, `limit` times.                                                   *)
Push(p) ==
  /\ phase[p] = "fill"
  /\ toPush[p] > 0
  /\ pool' = pool + 1
  /\ toPush' = [toPush EXCEPT ![p] = @ - 1]
  /\ Goto(p, IF toPush[p] = 1 THEN "pop" ELSE "fill")
  /\ UNCHANGED <<capacity, failures, clean>>

(* An error of one of these commands that is raised is logged, and acquire *)
(* goes on: any error of a push, which may have been done all the same,    *)
(* and one other than a lost connection of the commands before.            *)
FillFails(p) ==
  /\ phase[p] = "idle" \/ p \in Filling
  /\ Fails
  /\ \/ pool' = pool
     \/ phase[p] = "fill" /\ toPush[p] > 0 /\ pool' = pool + 1
  /\ toPush' = [toPush EXCEPT ![p] = 0]
  /\ Goto(p, "pop")
  /\ UNCHANGED <<capacity, clean>>

-----------------------------------------------------------------------------
(* acquire: lpop or blpop; release.                                        *)

Acquire(p) ==
  /\ phase[p] = "pop"
  /\ pool > 0
  /\ pool' = pool - 1
  /\ Goto(p, "held")
  /\ UNCHANGED <<capacity, toPush, failures, clean>>

(* No token within wait_timeout: ServiceUnavailableError.                  *)
Reject(p) ==
  /\ phase[p] = "pop"
  /\ pool = 0
  /\ Goto(p, "idle")
  /\ UNCHANGED <<capacity, pool, toPush, failures, clean>>

(* Redis is unreachable: the "fallback" token, without limit.  When only   *)
(* the answer was lost, the token that was popped is lost with it.         *)
Fallback(p) ==
  /\ phase[p] = "pop"
  /\ Fails
  /\ \/ pool' = pool
     \/ pool > 0 /\ pool' = pool - 1
  /\ Goto(p, "fallback")
  /\ UNCHANGED <<capacity, toPush, clean>>

MRelease(p) ==
  /\ phase[p] \in {"held", "fallback"}
  /\ pool' = pool + 1
  /\ Goto(p, "idle")
  /\ UNCHANGED <<capacity, toPush, failures, clean>>

Release(p) ==
  /\ phase[p] \in {"held", "fallback"}
  /\ pool' = IF phase[p] = "held" THEN pool + 1 ELSE pool
  /\ Goto(p, "idle")
  /\ UNCHANGED <<capacity, toPush, failures, clean>>

(* The worker dies, or release cannot reach Redis: a token it held is      *)
(* lost, a list it was filling stays as it is.                             *)
Crash(p) ==
  /\ phase[p] # "idle"
  /\ Fails
  /\ toPush' = [toPush EXCEPT ![p] = 0]
  /\ Goto(p, "idle")
  /\ UNCHANGED <<capacity, pool, clean>>

MCapacityExpires == FALSE /\ UNCHANGED vars

(* An hour passes, also while requests hold tokens or fill the list.       *)
CapacityExpires ==
  /\ capacity
  /\ capacity' = FALSE
  /\ UNCHANGED <<pool, phase, toPush, failures, clean>>

-----------------------------------------------------------------------------
Progress(p) ==
  \/ SetCapacity(p) \/ Clear(p) \/ Push(p)
  \/ Acquire(p) \/ Reject(p) \/ Release(p)

Next ==
  \/ \E p \in Proc :
       \/ Check(p) \/ Progress(p)
       \/ CheckLost(p) \/ SetLost(p) \/ ClearLost(p)
       \/ FillFails(p) \/ Fallback(p) \/ Crash(p)
  \/ CapacityExpires

Spec == Init /\ [][Next]_vars

(* A request that entered acquire goes on and ends, and hours pass.        *)
Fairness ==
  /\ \A p \in Proc : WF_vars(Progress(p))
  /\ WF_vars(CapacityExpires)

(* ... and clients keep calling.                                           *)
FairSpec == Spec /\ Fairness /\ \A p \in Proc : WF_vars(Check(p))

-----------------------------------------------------------------------------
(* Properties.                                                             *)

(* At most Limit requests hold a token, as the class promises.             *)
AtMostLimit == Cardinality(Holders) <= Limit

(* As long as the list was last filled by one request alone, from empty    *)
(* and while every token was at home, tokens are neither duplicated nor    *)
(* invented: not more than Limit are in the list or in use, however        *)
(* requests, failures and expiries interleave since.                       *)
CleanPoolIsBounded == clean => pool + Cardinality(Holders) <= Limit

(* The request that is filling such a list is alone, and what it still has *)
(* to push is counted.                                                     *)
CleanFill ==
  clean => \A p \in In("fill") :
             /\ pool + Cardinality(Holders) + toPush[p] <= Limit
             /\ In("fill") = {p}

IInv == TypeOK /\ CleanPoolIsBounded /\ CleanFill

(* Leaked tokens come back: however many of them crashed workers took with *)
(* them, and wherever a fill was interrupted, the capacity key expires, a  *)
(* request fills the list again, and nobody is shut out for ever.          *)
PoolHeals == []<>(pool > 0 \/ Holders # {})
=============================================================================
