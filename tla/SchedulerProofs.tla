--------------------------- MODULE SchedulerProofs ---------------------------
(***************************************************************************)
(* The job begins once in a period, or twice if the scheduler's copy was   *)
(* stale, for any number of workers, users, records and faults, as long as *)
(* nobody executes it by hand; and no deferred record is stored twice, or  *)
(* lost without a cause.                                                   *)
(***************************************************************************)
EXTENDS Scheduler, FiniteSetTheorems, SequenceTheorems, TLAPS

Forced == "forced" \in causes
Stale == "stale" \in causes

(* The scheduler has found the job nowhere and is about to queue it.       *)
Decided == at["scheduler"] = "enqueue"

(* The job is in the queue, or popped and not begun.                       *)
Waiting == entries # 0 \/ \E w \in Worker : phase[w] = "popped"

CallersFit ==
  /\ loaded => at["scheduler"] = "loaded"
  /\ ~Forced => \A u \in User : at[u] = "out"

(* The queue and the workers have the job once between them, and the       *)
(* scheduler queues it when they do not have it.                           *)
OneHolder ==
  ~Forced =>
    /\ entries \in {0, 1}
    /\ entries = 1 => rq = "queued" /\ \A w \in Worker : phase[w] = "idle"
    /\ \A v, w \in Worker : phase[v] # "idle" /\ phase[w] # "idle" => v = w
    /\ Decided => ~IsJobInQueue
    /\ ~IsJobInQueue => entries = 0 /\ \A w \in Worker : phase[w] = "idle"

(* A job that is due did not begin in this period; a copy that was due     *)
(* when it was read can have seen one run begin, but then none waits.      *)
Counted ==
  ~Forced =>
    /\ ahead = 0 => ran = 0
    /\ loaded => ran \in {0, 1} /\ (Waiting => ran = 0)
    /\ Waiting \/ Decided => ran = 0 \/ (Stale /\ ran = 1)
    /\ ran \in {0, 1} \/ (Stale /\ ran = 2)


(* Where a record can be: in the queue, in a run's hands, inserted and not *)
(* committed, or stored or refused.                                        *)
QueuedAt(r, i) == r \in In(queue[i])
InHand(r, w) == r \in In(hand[w])
Pended(r, w) == r \in inserted[w]

Held(r) == \E w \in Worker : InHand(r, w)
Open(r) == \E w \in Worker : Pended(r, w)
Over(r) == r \in stored \cup rejected

(* A run pops when it has nothing in its hands; no list has a record twice.*)
Distinct(s) == \A k, l \in DOMAIN s : s[k] = s[l] => k = l

ListsFit ==
  /\ \A w \in Worker : phase[w] = "pop" => hand[w] = << >>
  /\ \A i \in DOMAIN queue : Distinct(queue[i])
  /\ \A w \in Worker : Distinct(hand[w])

(* A record is in one place, and those that were not pushed are in none.   *)
IsSomewhere(r) == IsQueued(r) \/ Held(r) \/ Open(r) \/ Over(r)

InOnePlace(r) ==
  /\ \A i, j \in DOMAIN queue : QueuedAt(r, i) /\ QueuedAt(r, j) => i = j
  /\ \A v, w \in Worker : InHand(r, v) /\ InHand(r, w) => v = w
  /\ \A v, w \in Worker : Pended(r, v) /\ Pended(r, w) => v = w
  /\ IsQueued(r) => ~Held(r) /\ ~Open(r) /\ ~Over(r)
  /\ Held(r) => ~Open(r) /\ ~Over(r)
  /\ Open(r) => ~Over(r)
  /\ r \in stored => r \notin rejected

OnePlace == \A r \in Record : InOnePlace(r) /\ (IsSomewhere(r) => r <= pushed)

(* A record that was pushed is somewhere, unless one of four things        *)
(* happened; a transaction is aborted by one of them only.                 *)
NoLoss == causes \cap {"crashed", "overlap", "aborted", "restarted"} = {}

SomePlace ==
  NoLoss => (\A w \in Worker : ~broken[w]) /\ \A r \in 1 .. pushed : IsSomewhere(r)

(* What a run has inserted and not committed is no more than it counted    *)
(* since its last commit; records that come one by one are taken one by    *)
(* one, while the count is within the limit.                               *)
CountFits(w) ==
  /\ Cardinality(inserted[w]) <= IF single THEN count[w] ELSE count[w] % Every
  /\ single => /\ Len(hand[w]) <= 1 /\ count[w] <= Limit + 1
               /\ phase[w] = "pop" \/ hand[w] # << >> => count[w] <= Limit

Counting == \A w \in Worker : CountFits(w)

Traced == ListsFit /\ OnePlace /\ SomePlace

IInv == TypeOK /\ CallersFit /\ OneHolder /\ Counted /\ Traced /\ Counting

-----------------------------------------------------------------------------
(* What `record_count % 100` counts: a multiple that is passed is a next   *)
(* multiple, and what is none is one more than what was before.            *)
LEMMA NextMultiple ==
  ASSUME NEW n \in Nat \ {0}, NEW x \in Int, NEW y \in Int, x < y
  PROVE  n * x + n <= n * y
<1>1. y - x >= 1 /\ y - x \in Nat
  OBVIOUS
<1>2. n * (y - x) >= n
  BY <1>1, Z3
<1>3. n * (y - x) = n * y - n * x
  BY Z3
<1>. QED
  BY <1>2, <1>3, Z3

(* Between two multiples the rest grows by one ...                         *)
LEMMA NextRest ==
  ASSUME NEW a \in Nat, NEW n \in Nat \ {0}, (a + 1) % n # 0
  PROVE  (a + 1) % n = (a % n) + 1
<1>. DEFINE q == a \div n
            r == a % n
            s == (a + 1) \div n
            t == (a + 1) % n
<1>1. /\ a = n * q + r /\ a + 1 = n * s + t
      /\ q \in Int /\ s \in Int /\ r \in 0 .. n - 1 /\ t \in 0 .. n - 1
  BY Z3
<1>2. n * q \in Int /\ n * s \in Int
  BY <1>1, Z3
<1>3. t # 0
  OBVIOUS
<1>. HIDE DEF q, r, s, t
<1>4. ~(q < s)
  <2>. SUFFICES ASSUME q < s PROVE FALSE
    OBVIOUS
  <2>1. n * q + n <= n * s
    BY <1>1, NextMultiple
  <2>. QED
    BY <1>1, <1>2, <1>3, <2>1
<1>5. ~(s < q)
  <2>. SUFFICES ASSUME s < q PROVE FALSE
    OBVIOUS
  <2>1. n * s + n <= n * q
    BY <1>1, NextMultiple
  <2>. QED
    BY <1>1, <1>2, <2>1
<1>6. s = q
  BY <1>1, <1>4, <1>5
<1>7. t = r + 1
  BY <1>1, <1>2, <1>6
<1>. QED
  BY <1>7 DEF t, r

(* ... and is smaller than the divisor.                                    *)
LEMMA Rests ==
  ASSUME NEW a \in Nat, NEW n \in Nat \ {0}
  PROVE  a % n \in Nat /\ a % n <= n - 1
<1>1. a % n \in 0 .. n - 1
  BY Z3
<1>. QED
  BY <1>1

(* One more record is one more at most.                                    *)
LEMMA OneMore ==
  ASSUME NEW S \in SUBSET Record, NEW r
  PROVE  /\ Cardinality(S) \in Nat /\ Cardinality({}) = 0
         /\ Cardinality(S \cup {r}) \in Nat
         /\ Cardinality(S \cup {r}) <= Cardinality(S) + 1
<1>1. IsFiniteSet(Record)
  <2>1. 1 \in Int /\ MaxRecords \in Int
    BY SchedulerAssumption DEF SchedulerAssumption
  <2>. QED
    BY <2>1, FS_Interval DEF Record
<1>2. IsFiniteSet(S)
  BY <1>1, FS_Subset
<1>3. Cardinality(S) \in Nat
  BY <1>2, FS_CardinalityType
<1>. QED
  BY <1>2, <1>3, FS_AddElement, FS_EmptySet

-----------------------------------------------------------------------------
(* A job type that was just created satisfies it.                          *)
LEMMA InitInv == Init => IInv
<1>. SUFFICES ASSUME Init PROVE IInv
  OBVIOUS
<1>1. /\ ahead = 0 /\ ran = 0 /\ entries = 0 /\ rq = "none"
      /\ at = [c \in Caller |-> "out"] /\ loaded = FALSE
      /\ queue = << >> /\ single \in BOOLEAN /\ pushed = 0
      /\ phase = [w \in Worker |-> "idle"] /\ hand = [w \in Worker |-> << >>]
      /\ inserted = [w \in Worker |-> {}] /\ count = [w \in Worker |-> 0]
      /\ broken = [w \in Worker |-> FALSE]
      /\ stored = {} /\ rejected = {} /\ faults = 0 /\ causes = {}
  BY Zenon DEF Init
<1>2. 0 \in 0 .. MaxAhead /\ 0 \in 0 .. MaxRecords
  BY SchedulerAssumption DEF SchedulerAssumption
<1>3. TypeOK
  <2>1. /\ ahead \in 0 .. MaxAhead /\ ran \in Nat /\ entries \in Nat /\ faults \in Nat
        /\ pushed \in 0 .. MaxRecords
    BY <1>1, <1>2
  <2>2. /\ rq \in {"none", "queued", "started", "ended"}
        /\ at \in [Caller -> {"out", "loaded", "enqueue"}]
        /\ phase \in [Worker -> {"idle", "popped", "loop", "pop"}]
    BY <1>1
  <2>3. /\ queue \in Seq(Seq(Record) \ {<< >>}) /\ hand \in [Worker -> Seq(Record)]
        /\ \A i \in DOMAIN queue : Len(queue[i]) = 1
    BY <1>1
  <2>4. /\ inserted \in [Worker -> SUBSET Record] /\ count \in [Worker -> Nat]
        /\ stored \subseteq Record /\ rejected \subseteq Record /\ causes \subseteq Causes
    BY <1>1
  <2>5. loaded \in BOOLEAN /\ single \in BOOLEAN
    BY <1>1, Zenon
  <2>6. broken \in [Worker -> BOOLEAN]
    BY <1>1
  <2>7. \A w \in Worker : ~(hand[w] # << >> \/ inserted[w] # {} \/ broken[w])
    BY <1>1
  <2>. QED
    BY <2>1, <2>2, <2>3, <2>4, <2>5, <2>6, <2>7 DEF TypeOK
<1>4. CallersFit
  BY <1>1 DEF CallersFit, Caller
<1>5. OneHolder
  BY <1>1 DEF OneHolder, Decided, IsJobInQueue, Caller
<1>6. Counted
  BY <1>1 DEF Counted, Waiting, Decided, Caller
<1>7. Traced
  <2>1. \A w \in Worker : hand[w] = << >> /\ inserted[w] = {} /\ ~broken[w] /\ phase[w] = "idle"
    BY <1>1
  <2>2. DOMAIN queue = {}
    BY <1>1
  <2>3. ListsFit
    BY <2>1, <2>2 DEF ListsFit, Distinct
  <2>4. \A r : ~IsQueued(r) /\ ~Held(r) /\ ~Open(r) /\ ~Over(r)
    BY <1>1, <2>1, <2>2 DEF IsQueued, Held, Open, Over, InHand, Pended, In
  <2>5. OnePlace
    BY <1>1, <2>1, <2>2, <2>4 DEF OnePlace, InOnePlace, IsSomewhere, InHand, Pended, In
  <2>6. SomePlace
    BY <1>1, <2>1 DEF SomePlace
  <2>. QED
    BY <2>3, <2>5, <2>6 DEF Traced
<1>8. Counting
  <2>. SUFFICES ASSUME NEW w \in Worker PROVE CountFits(w)
    BY DEF Counting
  <2>1. inserted[w] = {} /\ count[w] = 0 /\ hand[w] = << >> /\ phase[w] = "idle"
    BY <1>1
  <2>2. Cardinality({}) = 0 /\ Limit \in Nat /\ Every \in Nat \ {0}
    BY FS_EmptySet, SchedulerAssumption DEF SchedulerAssumption
  <2>3. 0 % Every \in Nat /\ Len(hand[w]) = 0
    BY <2>1, <2>2, Rests
  <2>. QED
    BY <2>1, <2>2, <2>3 DEF CountFits
<1>. QED
  BY <1>3, <1>4, <1>5, <1>6, <1>7, <1>8 DEF IInv

(* A list that is deferred holds the next records, each once, and one if   *)
(* they come as dicts.                                                     *)
LEMMA Deferred ==
  ASSUME TypeOK, NEW b \in Batches, pushed + Len(b) <= MaxRecords
  PROVE  /\ b \in Seq(Record) \ {<< >>} /\ Len(b) \in Nat /\ Len(b) >= 1
         /\ single => Len(b) = 1
         /\ In(b) \subseteq Record /\ pushed + Len(b) \in 0 .. MaxRecords
         /\ \A r \in Record : r \in In(b) <=> pushed < r /\ r <= pushed + Len(b)
         /\ Distinct(b)
<1>1. PICK k \in 1 .. IF single THEN 1 ELSE MaxList : b = [i \in 1 .. k |-> pushed + i]
  BY DEF Batches
<1>2. /\ k \in Nat /\ k >= 1 /\ (single => k = 1)
      /\ pushed \in Nat /\ pushed <= MaxRecords /\ MaxRecords \in Nat
  BY <1>1, SchedulerAssumption DEF TypeOK, SchedulerAssumption
<1>3. b \in Seq(Nat) /\ Len(b) = k
  BY <1>1, <1>2
<1>4. \A i \in 1 .. k : b[i] \in Record
  BY <1>1, <1>2, <1>3 DEF Record
<1>5. b \in Seq(Record) /\ b # << >> /\ DOMAIN b = 1 .. k
  BY <1>2, <1>3, <1>4
<1>6. \A r \in Record : r \in In(b) <=> pushed < r /\ r <= pushed + Len(b)
  <2>1. ASSUME NEW r \in Record, pushed < r, r <= pushed + Len(b) PROVE r \in In(b)
    <3>1. r \in Nat /\ r - pushed \in 1 .. k /\ pushed + (r - pushed) = r
      BY <1>2, <1>3, <2>1 DEF Record
    <3>2. b[r - pushed] = r
      BY <1>1, <3>1
    <3>. QED
      BY <1>5, <3>1, <3>2 DEF In
  <2>2. ASSUME NEW r \in In(b) PROVE pushed < r /\ r <= pushed + Len(b)
    BY <1>1, <1>2, <1>3, <1>5 DEF In
  <2>. QED
    BY <2>1, <2>2
<1>7. Distinct(b)
  BY <1>1, <1>2 DEF Distinct
<1>. QED
  BY <1>2, <1>3, <1>4, <1>5, <1>6, <1>7 DEF In

(* Every step keeps the types.                                             *)
LEMMA NextType == ASSUME IInv, [Next]_vars PROVE TypeOK'
<1>0. TypeOK
  BY DEF IInv
<1>1. CASE PeriodPasses
  <2>1. ahead' \in 0 .. MaxAhead
    BY <1>0, <1>1, SchedulerAssumption DEF TypeOK, PeriodPasses,
       SchedulerAssumption
  <2>. QED
    BY <1>0, <1>1, <2>1 DEF TypeOK, Caller, Causes, PeriodPasses, job,
       callers, deferred, runs, records, history
<1>2. CASE Skip
  <2>1. ahead' \in 0 .. MaxAhead /\ faults' \in Nat
    BY <1>0, <1>2, SchedulerAssumption DEF TypeOK, Skip, Fault,
       SchedulerAssumption
  <2>. QED
    BY <1>0, <1>2, <2>1 DEF TypeOK, Caller, Causes, Skip, Fault, job,
       callers, deferred, runs, records, history
<1>3. CASE Load
  BY <1>0, <1>3 DEF TypeOK, Caller, Causes, Load, IsDue, job, callers,
     deferred, runs, records, history
<1>4. CASE Check
  BY <1>0, <1>4 DEF TypeOK, Caller, Causes, Check, IsDue, IsJobInQueue, job,
     callers, deferred, runs, records, history
<1>5. ASSUME NEW c \in Caller, Enqueue(c) PROVE TypeOK'
  BY <1>0, <1>5 DEF TypeOK, Caller, Causes, Enqueue, job, callers, deferred,
     runs, records, history
<1>6. CASE Abandon
  BY <1>0, <1>6 DEF TypeOK, Caller, Causes, Abandon, job, callers, deferred,
     runs, records, history
<1>7. ASSUME NEW u \in User, ExecuteEvent(u) PROVE TypeOK'
  BY <1>0, <1>7 DEF TypeOK, Caller, Causes, ExecuteEvent, Fault,
     IsJobInQueue, job, callers, deferred, runs, records, history
<1>8. ASSUME NEW b \in Batches, Push(b) PROVE TypeOK'
  <2>1. /\ b \in Seq(Record) \ {<< >>} /\ (single => Len(b) = 1)
        /\ pushed + Len(b) \in 0 .. MaxRecords
    BY <1>0, <1>8, Deferred DEF Push
  <2>2. /\ queue' = Append(queue, b) /\ pushed' = pushed + Len(b)
        /\ UNCHANGED <<ahead, ran, entries, rq, at, loaded, single, phase, hand, inserted,
                       count, broken, stored, rejected, faults, causes>>
    BY <1>8 DEF Push, job, callers, deferred, runs, records, history
  <2>3. queue' \in Seq(Seq(Record) \ {<< >>})
    BY <1>0, <2>1, <2>2, AppendProperties DEF TypeOK
  <2>4. \A i \in DOMAIN queue' : queue'[i] = b \/ (i \in DOMAIN queue /\ queue'[i] = queue[i])
    BY <1>0, <2>1, <2>2, AppendProperties DEF TypeOK
  <2>5. single' => \A i \in DOMAIN queue' : Len(queue'[i]) = 1
    BY <1>0, <2>1, <2>2, <2>4 DEF TypeOK
  <2>. QED
    BY <1>0, <2>1, <2>2, <2>3, <2>5 DEF TypeOK
<1>9. ASSUME NEW b \in Batches, PushFails(b) PROVE TypeOK'
  <2>1. In(b) \subseteq Record /\ pushed + Len(b) \in 0 .. MaxRecords
    BY <1>0, <1>9, Deferred DEF PushFails
  <2>2. /\ stored' \subseteq Record /\ rejected' \subseteq Record
        /\ pushed' \in 0 .. MaxRecords
    BY <1>0, <1>9, <2>1 DEF TypeOK, PushFails
  <2>3. faults' \in Nat /\ causes' \subseteq Causes
    BY <1>0, <1>9 DEF TypeOK, PushFails, Fault, Causes
  <2>4. UNCHANGED <<ahead, ran, entries, rq, at, loaded, queue, single, phase, hand, inserted,
                    count, broken>>
    BY <1>9 DEF PushFails, job, callers, runs
  <2>. QED
    BY <1>0, <2>2, <2>3, <2>4 DEF TypeOK
<1>10. CASE RedisRestarts
  BY <1>0, <1>10 DEF TypeOK, Caller, Causes, RedisRestarts, Fault, job,
     callers, deferred, runs, records, history
<1>11. ASSUME NEW w \in Worker, Pop(w) PROVE TypeOK'
  BY <1>0, <1>11 DEF TypeOK, Caller, Causes, Pop, job, callers, deferred,
     runs, records, history
<1>12. ASSUME NEW w \in Worker, Start(w) PROVE TypeOK'
  <2>1. ahead' \in 0 .. MaxAhead /\ ran' \in Nat
    BY <1>0, <1>12, SchedulerAssumption DEF TypeOK, Start, Executed,
       SchedulerAssumption
  <2>. QED
    BY <1>0, <1>12, <2>1 DEF TypeOK, Caller, Causes, Start, job, callers,
       deferred, runs, records, history
<1>13. ASSUME NEW w \in Worker, Look(w) PROVE TypeOK'
  BY <1>0, <1>13 DEF TypeOK, Caller, Causes, Look, job, callers, deferred,
     runs, records, history
<1>14. ASSUME NEW w \in Worker, Take(w) PROVE TypeOK'
  BY <1>0, <1>14 DEF TypeOK, Caller, Causes, Take, Rest, job, callers,
     deferred, runs, records, history
<1>15. ASSUME NEW w \in Worker, Fail(w) PROVE TypeOK'
  <2>1. ahead' \in 0 .. MaxAhead
    BY <1>15, SchedulerAssumption DEF Fail, Executed, SchedulerAssumption
  <2>2. Ends(w)
    BY <1>15 DEF Fail
  <2>3. stored' \subseteq Record /\ rejected' \subseteq Record /\ causes' \subseteq Causes
    BY <1>0, <1>15 DEF TypeOK, Causes, Fail, records, history
  <2>4. UNCHANGED <<ran, entries, at, loaded, queue, single, pushed, faults>>
    BY <1>15 DEF Fail, callers, deferred, history
  <2>. QED
    BY <1>0, <2>1, <2>2, <2>3, <2>4 DEF TypeOK, Ends
<1>16. ASSUME NEW w \in Worker, Insert(w) PROVE TypeOK'
  <2>. DEFINE r == Head(hand[w])
  <2>1. /\ phase[w] = "loop" /\ hand[w] # << >>
        /\ hand' = [hand EXCEPT ![w] = Tail(@)] /\ count' = [count EXCEPT ![w] = @ + 1]
        /\ UNCHANGED <<ahead, ran, entries, rq, at, loaded, queue, single, pushed, phase>>
    BY <1>16 DEF Insert, job, callers, deferred
  <2>2. r \in Record /\ Tail(hand[w]) \in Seq(Record)
    <3>1. hand[w] \in Seq(Record)
      BY <1>0 DEF TypeOK
    <3>. QED
      BY <2>1, <3>1, HeadTailProperties
  <2>3. inserted' \in [Worker -> SUBSET Record]
    <3>1. \/ inserted' = [inserted EXCEPT ![w] = {}]
          \/ inserted' = [inserted EXCEPT ![w] = inserted[w]]
          \/ inserted' = [inserted EXCEPT ![w] = inserted[w] \cup {r}]
      BY <1>16 DEF Insert
    <3>2. inserted \in [Worker -> SUBSET Record]
      BY <1>0 DEF TypeOK
    <3>. QED
      BY <2>2, <3>1, <3>2
  <2>4. stored' \subseteq Record /\ rejected' \subseteq Record
    BY <1>0, <1>16, <2>2 DEF TypeOK, Insert
  <2>5. broken' \in [Worker -> BOOLEAN]
    BY <1>0, <1>16 DEF TypeOK, Insert
  <2>6. faults' \in Nat /\ causes' \subseteq Causes
    <3>1. UNCHANGED history \/ Fault("aborted")
      BY <1>16, Zenon DEF Insert
    <3>2. faults \in Nat /\ causes \subseteq Causes
      BY <1>0 DEF TypeOK
    <3>3. CASE UNCHANGED history
      BY <3>2, <3>3 DEF history
    <3>4. CASE Fault("aborted")
      <4>1. faults' = faults + 1
        BY <3>4 DEF Fault
      <4>2. causes' = causes \cup {"aborted"}
        BY <3>4 DEF Fault
      <4>. QED
        BY <3>2, <4>1, <4>2 DEF Causes
    <3>. QED
      BY <3>1, <3>3, <3>4
  <2>7. hand' \in [Worker -> Seq(Record)] /\ count' \in [Worker -> Nat]
    BY <1>0, <2>1, <2>2 DEF TypeOK
  <2>8. \A v \in Worker : v # w => /\ hand'[v] = hand[v] /\ inserted'[v] = inserted[v]
                                   /\ broken'[v] = broken[v]
    BY <1>0, <1>16 DEF TypeOK, Insert
  <2>9. \A v \in Worker : hand'[v] # << >> \/ inserted'[v] # {} \/ broken'[v]
                            => phase'[v] \in {"loop", "pop"}
    BY <1>0, <2>1, <2>8 DEF TypeOK
  <2>. QED
    BY <1>0, <2>1, <2>3, <2>4, <2>5, <2>6, <2>7, <2>9 DEF TypeOK
<1>17. ASSUME NEW w \in Worker, Finish(w) PROVE TypeOK'
  <2>1. ahead' \in 0 .. MaxAhead
    BY <1>17, SchedulerAssumption DEF Finish, Executed, SchedulerAssumption
  <2>2. Ends(w)
    BY <1>17 DEF Finish
  <2>3. stored' \subseteq Record /\ rejected' \subseteq Record /\ causes' \subseteq Causes
    BY <1>0, <1>17 DEF TypeOK, Causes, Finish, records, history
  <2>4. UNCHANGED <<ran, entries, at, loaded, queue, single, pushed, faults>>
    BY <1>17 DEF Finish, callers, deferred, history
  <2>. QED
    BY <1>0, <2>1, <2>2, <2>3, <2>4 DEF TypeOK, Ends
<1>18. ASSUME NEW w \in Worker, Crash(w) PROVE TypeOK'
  BY <1>0, <1>18 DEF TypeOK, Caller, Causes, Crash, Fault, job, callers,
     deferred, runs, records, history
<1>20. ASSUME NEW w \in Worker, Drop(w) PROVE TypeOK'
  BY <1>0, <1>20 DEF TypeOK, Caller, Causes, Drop, Fault, job, callers, deferred,
     runs, records, history
<1>19. CASE UNCHANGED vars
  BY <1>0, <1>19 DEF TypeOK, Caller, Causes, vars, job, callers, deferred,
     runs, records, history
<1>. QED
  BY <1>1, <1>2, <1>3, <1>4, <1>5, <1>6, <1>7, <1>8, <1>9, <1>10, <1>11,
     <1>12, <1>13, <1>14, <1>15, <1>16, <1>17, <1>18, <1>19, <1>20 DEF Next, Ticks,
     Works, Caller

(* The scheduler's copy is dropped when it is looked at; a user who is in  *)
(* enqueue has forced the job.                                             *)
LEMMA NextCallers == ASSUME IInv, [Next]_vars PROVE CallersFit'
<1>0. TypeOK /\ CallersFit
  BY DEF IInv
<1>1. CASE PeriodPasses
  BY <1>0, <1>1 DEF CallersFit, Forced, TypeOK, Caller, PeriodPasses, job,
     callers, deferred, runs, records, history
<1>2. CASE Skip
  BY <1>0, <1>2 DEF CallersFit, Forced, TypeOK, Caller, Skip, Fault, job,
     callers, deferred, runs, records, history
<1>3. CASE Load
  <2>1. at'["scheduler"] = "loaded" /\ causes' = causes
    BY <1>0, <1>3 DEF TypeOK, Caller, Load, IsDue, job, callers, deferred,
       runs, records, history
  <2>2. \A u \in User : at'[u] = at[u]
    BY <1>0, <1>3, SchedulerAssumption DEF TypeOK, Caller,
       SchedulerAssumption, Load
  <2>. QED
    BY <1>0, <2>1, <2>2, Zenon DEF CallersFit, Forced
<1>4. CASE Check
  BY <1>0, <1>4 DEF CallersFit, Forced, TypeOK, Caller, Check, IsDue,
     IsJobInQueue, job, callers, deferred, runs, records, history
<1>5. ASSUME NEW c \in Caller, Enqueue(c) PROVE CallersFit'
  BY <1>0, <1>5 DEF CallersFit, Forced, TypeOK, Caller, Enqueue, job,
     callers, deferred, runs, records, history
<1>6. CASE Abandon
  BY <1>0, <1>6 DEF CallersFit, Forced, TypeOK, Caller, Abandon, job,
     callers, deferred, runs, records, history
<1>7. ASSUME NEW u \in User, ExecuteEvent(u) PROVE CallersFit'
  BY <1>0, <1>7 DEF CallersFit, Forced, TypeOK, Caller, ExecuteEvent, Fault,
     IsJobInQueue, job, callers, deferred, runs, records, history
<1>8. ASSUME NEW b \in Batches, Push(b) PROVE CallersFit'
  BY <1>0, <1>8 DEF CallersFit, Forced, TypeOK, Caller, Push, job, callers,
     deferred, runs, records, history
<1>9. ASSUME NEW b \in Batches, PushFails(b) PROVE CallersFit'
  BY <1>0, <1>9 DEF CallersFit, Forced, TypeOK, Caller, PushFails, Fault,
     job, callers, deferred, runs, records, history
<1>10. CASE RedisRestarts
  BY <1>0, <1>10 DEF CallersFit, Forced, TypeOK, Caller, RedisRestarts,
     Fault, job, callers, deferred, runs, records, history
<1>11. ASSUME NEW w \in Worker, Pop(w) PROVE CallersFit'
  BY <1>0, <1>11 DEF CallersFit, Forced, TypeOK, Caller, Pop, job, callers,
     deferred, runs, records, history
<1>12. ASSUME NEW w \in Worker, Start(w) PROVE CallersFit'
  BY <1>0, <1>12 DEF CallersFit, Forced, TypeOK, Caller, Start, Executed,
     job, callers, deferred, runs, records, history
<1>13. ASSUME NEW w \in Worker, Look(w) PROVE CallersFit'
  BY <1>0, <1>13 DEF CallersFit, Forced, TypeOK, Caller, Look, job, callers,
     deferred, runs, records, history
<1>14. ASSUME NEW w \in Worker, Take(w) PROVE CallersFit'
  BY <1>0, <1>14 DEF CallersFit, Forced, TypeOK, Caller, Take, Rest, job,
     callers, deferred, runs, records, history
<1>15. ASSUME NEW w \in Worker, Fail(w) PROVE CallersFit'
  BY <1>0, <1>15 DEF CallersFit, Forced, TypeOK, Caller, Fail, Ends,
     Executed, job, callers, deferred, runs, records, history
<1>16. ASSUME NEW w \in Worker, Insert(w) PROVE CallersFit'
  BY <1>0, <1>16 DEF CallersFit, Forced, TypeOK, Caller, Insert, Fault, job,
     callers, deferred, runs, records, history
<1>17. ASSUME NEW w \in Worker, Finish(w) PROVE CallersFit'
  BY <1>0, <1>17 DEF CallersFit, Forced, TypeOK, Caller, Finish, Ends,
     Executed, job, callers, deferred, runs, records, history
<1>18. ASSUME NEW w \in Worker, Crash(w) PROVE CallersFit'
  BY <1>0, <1>18 DEF CallersFit, Forced, TypeOK, Caller, Crash, Fault, job,
     callers, deferred, runs, records, history
<1>20. ASSUME NEW w \in Worker, Drop(w) PROVE CallersFit'
  BY <1>0, <1>20 DEF CallersFit, Forced, TypeOK, Caller, Drop, Fault, job, callers,
     deferred, runs, records, history
<1>19. CASE UNCHANGED vars
  BY <1>0, <1>19 DEF CallersFit, Forced, TypeOK, Caller, vars, job, callers,
     deferred, runs, records, history
<1>. QED
  BY <1>1, <1>2, <1>3, <1>4, <1>5, <1>6, <1>7, <1>8, <1>9, <1>10, <1>11,
     <1>12, <1>13, <1>14, <1>15, <1>16, <1>17, <1>18, <1>19, <1>20 DEF Next, Ticks,
     Works, Caller

(* Whoever takes the job on took it from the only other holder.            *)
LEMMA NextOneHolder == ASSUME IInv, [Next]_vars PROVE OneHolder'
<1>0. TypeOK /\ CallersFit /\ OneHolder
  BY DEF IInv
<1>1. CASE PeriodPasses
  BY <1>0, <1>1 DEF OneHolder, CallersFit, Forced, Decided, IsJobInQueue,
     TypeOK, Caller, PeriodPasses, job, callers, deferred, runs, records,
     history
<1>2. CASE Skip
  BY <1>0, <1>2 DEF OneHolder, CallersFit, Forced, Decided, IsJobInQueue,
     TypeOK, Caller, Skip, Fault, job, callers, deferred, runs, records,
     history
<1>3. CASE Load
  BY <1>0, <1>3 DEF OneHolder, CallersFit, Forced, Decided, IsJobInQueue,
     TypeOK, Caller, Load, IsDue, job, callers, deferred, runs, records,
     history
<1>4. CASE Check
  BY <1>0, <1>4 DEF OneHolder, CallersFit, Forced, Decided, IsJobInQueue,
     TypeOK, Caller, Check, IsDue, IsJobInQueue, job, callers, deferred,
     runs, records, history
<1>5. ASSUME NEW c \in Caller, Enqueue(c) PROVE OneHolder'
  BY <1>0, <1>5 DEF OneHolder, CallersFit, Forced, Decided, IsJobInQueue,
     TypeOK, Caller, Enqueue, job, callers, deferred, runs, records, history
<1>6. CASE Abandon
  BY <1>0, <1>6 DEF OneHolder, CallersFit, Forced, Decided, IsJobInQueue,
     TypeOK, Caller, Abandon, job, callers, deferred, runs, records, history
<1>7. ASSUME NEW u \in User, ExecuteEvent(u) PROVE OneHolder'
  BY <1>0, <1>7 DEF OneHolder, CallersFit, Forced, Decided, IsJobInQueue,
     TypeOK, Caller, ExecuteEvent, Fault, IsJobInQueue, job, callers,
     deferred, runs, records, history
<1>8. ASSUME NEW b \in Batches, Push(b) PROVE OneHolder'
  BY <1>0, <1>8 DEF OneHolder, CallersFit, Forced, Decided, IsJobInQueue,
     TypeOK, Caller, Push, job, callers, deferred, runs, records, history
<1>9. ASSUME NEW b \in Batches, PushFails(b) PROVE OneHolder'
  BY <1>0, <1>9 DEF OneHolder, CallersFit, Forced, Decided, IsJobInQueue,
     TypeOK, Caller, PushFails, Fault, job, callers, deferred, runs, records,
     history
<1>10. CASE RedisRestarts
  BY <1>0, <1>10 DEF OneHolder, CallersFit, Forced, Decided, IsJobInQueue,
     TypeOK, Caller, RedisRestarts, Fault, job, callers, deferred, runs,
     records, history
<1>11. ASSUME NEW w \in Worker, Pop(w) PROVE OneHolder'
  BY <1>0, <1>11 DEF OneHolder, CallersFit, Forced, Decided, IsJobInQueue,
     TypeOK, Caller, Pop, job, callers, deferred, runs, records, history
<1>12. ASSUME NEW w \in Worker, Start(w) PROVE OneHolder'
  BY <1>0, <1>12 DEF OneHolder, CallersFit, Forced, Decided, IsJobInQueue,
     TypeOK, Caller, Start, Executed, job, callers, deferred, runs, records,
     history
<1>13. ASSUME NEW w \in Worker, Look(w) PROVE OneHolder'
  BY <1>0, <1>13 DEF OneHolder, CallersFit, Forced, Decided, IsJobInQueue,
     TypeOK, Caller, Look, job, callers, deferred, runs, records, history
<1>14. ASSUME NEW w \in Worker, Take(w) PROVE OneHolder'
  BY <1>0, <1>14 DEF OneHolder, CallersFit, Forced, Decided, IsJobInQueue,
     TypeOK, Caller, Take, Rest, job, callers, deferred, runs, records,
     history
<1>15. ASSUME NEW w \in Worker, Fail(w) PROVE OneHolder'
  BY <1>0, <1>15 DEF OneHolder, CallersFit, Forced, Decided, IsJobInQueue,
     TypeOK, Caller, Fail, Ends, Executed, job, callers, deferred, runs,
     records, history
<1>16. ASSUME NEW w \in Worker, Insert(w) PROVE OneHolder'
  BY <1>0, <1>16 DEF OneHolder, CallersFit, Forced, Decided, IsJobInQueue,
     TypeOK, Caller, Insert, Fault, job, callers, deferred, runs, records,
     history
<1>17. ASSUME NEW w \in Worker, Finish(w) PROVE OneHolder'
  BY <1>0, <1>17 DEF OneHolder, CallersFit, Forced, Decided, IsJobInQueue,
     TypeOK, Caller, Finish, Ends, Executed, job, callers, deferred, runs,
     records, history
<1>18. ASSUME NEW w \in Worker, Crash(w) PROVE OneHolder'
  BY <1>0, <1>18 DEF OneHolder, CallersFit, Forced, Decided, IsJobInQueue,
     TypeOK, Caller, Crash, Fault, job, callers, deferred, runs, records,
     history
<1>20. ASSUME NEW w \in Worker, Drop(w) PROVE OneHolder'
  BY <1>0, <1>20 DEF OneHolder, CallersFit, Forced, Decided, IsJobInQueue,
     TypeOK, Caller, Drop, Fault, job, callers, deferred, runs, records, history
<1>19. CASE UNCHANGED vars
  BY <1>0, <1>19 DEF OneHolder, CallersFit, Forced, Decided, IsJobInQueue,
     TypeOK, Caller, vars, job, callers, deferred, runs, records, history
<1>. QED
  BY <1>1, <1>2, <1>3, <1>4, <1>5, <1>6, <1>7, <1>8, <1>9, <1>10, <1>11,
     <1>12, <1>13, <1>14, <1>15, <1>16, <1>17, <1>18, <1>19, <1>20 DEF Next, Ticks,
     Works, Caller

(* A run that begins moves the next one past the next boundary.            *)
LEMMA NextCounted == ASSUME IInv, [Next]_vars PROVE Counted'
<1>0. TypeOK /\ CallersFit /\ OneHolder /\ Counted
  BY DEF IInv
<1>1. CASE PeriodPasses
  BY <1>0, <1>1 DEF Counted, OneHolder, CallersFit, Forced, Stale, Decided,
     Waiting, IsJobInQueue, TypeOK, Caller, PeriodPasses, job, callers,
     deferred, runs, records, history
<1>2. CASE Skip
  BY <1>0, <1>2 DEF Counted, OneHolder, CallersFit, Forced, Stale, Decided,
     Waiting, IsJobInQueue, TypeOK, Caller, Skip, Fault, job, callers,
     deferred, runs, records, history
<1>3. CASE Load
  BY <1>0, <1>3 DEF Counted, OneHolder, CallersFit, Forced, Stale, Decided,
     Waiting, IsJobInQueue, TypeOK, Caller, Load, IsDue, job, callers,
     deferred, runs, records, history
<1>4. CASE Check
  BY <1>0, <1>4 DEF Counted, OneHolder, CallersFit, Forced, Stale, Decided,
     Waiting, IsJobInQueue, TypeOK, Caller, Check, IsDue, IsJobInQueue, job,
     callers, deferred, runs, records, history
<1>5. ASSUME NEW c \in Caller, Enqueue(c) PROVE Counted'
  BY <1>0, <1>5 DEF Counted, OneHolder, CallersFit, Forced, Stale, Decided,
     Waiting, IsJobInQueue, TypeOK, Caller, Enqueue, job, callers, deferred,
     runs, records, history
<1>6. CASE Abandon
  BY <1>0, <1>6 DEF Counted, OneHolder, CallersFit, Forced, Stale, Decided,
     Waiting, IsJobInQueue, TypeOK, Caller, Abandon, job, callers, deferred,
     runs, records, history
<1>7. ASSUME NEW u \in User, ExecuteEvent(u) PROVE Counted'
  BY <1>0, <1>7 DEF Counted, OneHolder, CallersFit, Forced, Stale, Decided,
     Waiting, IsJobInQueue, TypeOK, Caller, ExecuteEvent, Fault,
     IsJobInQueue, job, callers, deferred, runs, records, history
<1>8. ASSUME NEW b \in Batches, Push(b) PROVE Counted'
  BY <1>0, <1>8 DEF Counted, OneHolder, CallersFit, Forced, Stale, Decided,
     Waiting, IsJobInQueue, TypeOK, Caller, Push, job, callers, deferred,
     runs, records, history
<1>9. ASSUME NEW b \in Batches, PushFails(b) PROVE Counted'
  BY <1>0, <1>9 DEF Counted, OneHolder, CallersFit, Forced, Stale, Decided,
     Waiting, IsJobInQueue, TypeOK, Caller, PushFails, Fault, job, callers,
     deferred, runs, records, history
<1>10. CASE RedisRestarts
  BY <1>0, <1>10 DEF Counted, OneHolder, CallersFit, Forced, Stale, Decided,
     Waiting, IsJobInQueue, TypeOK, Caller, RedisRestarts, Fault, job,
     callers, deferred, runs, records, history
<1>11. ASSUME NEW w \in Worker, Pop(w) PROVE Counted'
  BY <1>0, <1>11 DEF Counted, OneHolder, CallersFit, Forced, Stale, Decided,
     Waiting, IsJobInQueue, TypeOK, Caller, Pop, job, callers, deferred,
     runs, records, history
<1>12. ASSUME NEW w \in Worker, Start(w) PROVE Counted'
  BY <1>0, <1>12 DEF Counted, OneHolder, CallersFit, Forced, Stale, Decided,
     Waiting, IsJobInQueue, TypeOK, Caller, Start, Executed, job, callers,
     deferred, runs, records, history
<1>13. ASSUME NEW w \in Worker, Look(w) PROVE Counted'
  BY <1>0, <1>13 DEF Counted, OneHolder, CallersFit, Forced, Stale, Decided,
     Waiting, IsJobInQueue, TypeOK, Caller, Look, job, callers, deferred,
     runs, records, history
<1>14. ASSUME NEW w \in Worker, Take(w) PROVE Counted'
  BY <1>0, <1>14 DEF Counted, OneHolder, CallersFit, Forced, Stale, Decided,
     Waiting, IsJobInQueue, TypeOK, Caller, Take, Rest, job, callers,
     deferred, runs, records, history
<1>15. ASSUME NEW w \in Worker, Fail(w) PROVE Counted'
  BY <1>0, <1>15 DEF Counted, OneHolder, CallersFit, Forced, Stale, Decided,
     Waiting, IsJobInQueue, TypeOK, Caller, Fail, Ends, Executed, job,
     callers, deferred, runs, records, history
<1>16. ASSUME NEW w \in Worker, Insert(w) PROVE Counted'
  BY <1>0, <1>16 DEF Counted, OneHolder, CallersFit, Forced, Stale, Decided,
     Waiting, IsJobInQueue, TypeOK, Caller, Insert, Fault, job, callers,
     deferred, runs, records, history
<1>17. ASSUME NEW w \in Worker, Finish(w) PROVE Counted'
  BY <1>0, <1>17 DEF Counted, OneHolder, CallersFit, Forced, Stale, Decided,
     Waiting, IsJobInQueue, TypeOK, Caller, Finish, Ends, Executed, job,
     callers, deferred, runs, records, history
<1>18. ASSUME NEW w \in Worker, Crash(w) PROVE Counted'
  BY <1>0, <1>18 DEF Counted, OneHolder, CallersFit, Forced, Stale, Decided,
     Waiting, IsJobInQueue, TypeOK, Caller, Crash, Fault, job, callers,
     deferred, runs, records, history
<1>20. ASSUME NEW w \in Worker, Drop(w) PROVE Counted'
  BY <1>0, <1>20 DEF Counted, OneHolder, CallersFit, Forced, Stale, Decided,
     Waiting, IsJobInQueue, TypeOK, Caller, Drop, Fault, job, callers, deferred,
     runs, records, history
<1>19. CASE UNCHANGED vars
  BY <1>0, <1>19 DEF Counted, OneHolder, CallersFit, Forced, Stale, Decided,
     Waiting, IsJobInQueue, TypeOK, Caller, vars, job, callers, deferred,
     runs, records, history
<1>. QED
  BY <1>1, <1>2, <1>3, <1>4, <1>5, <1>6, <1>7, <1>8, <1>9, <1>10, <1>11,
     <1>12, <1>13, <1>14, <1>15, <1>16, <1>17, <1>18, <1>19, <1>20 DEF Next, Ticks,
     Works, Caller

-----------------------------------------------------------------------------
(* What steps do that move no record.                                      *)
LEMMA PlacesStay ==
  ASSUME TypeOK, Traced, causes \subseteq causes',
         UNCHANGED <<queue, hand, inserted, broken, stored, rejected, pushed>>,
         \A w \in Worker : phase'[w] = "pop" => phase[w] = "pop" \/ hand[w] = << >>
  PROVE  Traced'
<1>1. ListsFit'
  BY DEF Traced, ListsFit, Distinct
<1>2. OnePlace'
  BY DEF Traced, OnePlace, InOnePlace, IsSomewhere, QueuedAt, InHand, Pended, IsQueued, Held, Open, Over, In
<1>3. SomePlace'
  <2>1. NoLoss' => NoLoss
    BY DEF NoLoss
  <2>2. \A r : /\ IsQueued(r)' <=> IsQueued(r)
               /\ Held(r)' <=> Held(r)
               /\ Open(r)' <=> Open(r)
               /\ Over(r)' <=> Over(r)
    BY DEF IsQueued, Held, Open, Over, In, InHand, Pended
  <2>. QED
    BY <2>1, <2>2 DEF Traced, SomePlace, IsSomewhere
<1>. QED
  BY <1>1, <1>2, <1>3 DEF Traced

(* A run's transaction ends, and the run: what it inserted is committed if *)
(* all went well, and otherwise rolled back.                               *)
LEMMA RunEnds ==
  ASSUME TypeOK, Traced, NEW w \in Worker, causes \subseteq causes',
         UNCHANGED <<queue, pushed, rejected>>,
         phase' = [phase EXCEPT ![w] = "idle"], hand' = [hand EXCEPT ![w] = << >>],
         inserted' = [inserted EXCEPT ![w] = {}], broken' = [broken EXCEPT ![w] = FALSE],
         \/ stored' = stored /\ ~NoLoss'
         \/ stored' = stored \cup inserted[w] /\ hand[w] = << >>
  PROVE  Traced'
<1>1. /\ hand'[w] = << >> /\ inserted'[w] = {} /\ phase'[w] = "idle" /\ ~broken'[w]
      /\ \A v \in Worker : v # w => /\ hand'[v] = hand[v] /\ inserted'[v] = inserted[v]
                                    /\ phase'[v] = phase[v] /\ broken'[v] = broken[v]
  BY DEF TypeOK
<1>2. /\ \A r \in Record : ~InHand(r, w)' /\ ~Pended(r, w)'
      /\ \A v \in Worker, r \in Record :
           v # w => (InHand(r, v)' <=> InHand(r, v)) /\ (Pended(r, v)' <=> Pended(r, v))
  BY <1>1 DEF InHand, Pended, In
<1>3. \A r \in Record : /\ IsQueued(r)' <=> IsQueued(r)
                        /\ \A i \in DOMAIN queue : QueuedAt(r, i)' <=> QueuedAt(r, i)
  BY DEF IsQueued, QueuedAt, In
<1>4. ListsFit'
  BY <1>1 DEF Traced, ListsFit, Distinct
<1>5. \A r \in Record : /\ Held(r)' => Held(r)
                        /\ Open(r)' => Open(r)
                        /\ Over(r)' => Over(r) \/ Pended(r, w)
                        /\ r \in stored' => r \in stored \/ Pended(r, w)
                        /\ Open(r)' => ~Pended(r, w)
  <2>1. \A r \in Record : Open(r)' => ~Pended(r, w)
    <3>. SUFFICES ASSUME NEW r \in Record, Open(r)', Pended(r, w) PROVE FALSE
      OBVIOUS
    <3>1. PICK v \in Worker : Pended(r, v)'
      BY DEF Open
    <3>2. v # w /\ Pended(r, v)
      BY <1>2, <3>1
    <3>. QED
      BY <3>2 DEF Traced, OnePlace, InOnePlace
  <2>2. \A r \in Record : (Held(r)' => Held(r)) /\ (Open(r)' => Open(r))
    BY <1>2 DEF Held, Open
  <2>. QED
    BY <2>1, <2>2 DEF Over, Pended
<1>6. OnePlace'
  <2>. SUFFICES ASSUME NEW r \in Record
                PROVE  InOnePlace(r)' /\ (IsSomewhere(r)' => r <= pushed')
    BY DEF OnePlace
  <2>1. InOnePlace(r) /\ (IsSomewhere(r) => r <= pushed)
    BY DEF Traced, OnePlace
  <2>2. Pended(r, w) => Open(r)
    BY DEF Open
  <2>3. /\ IsQueued(r)' => ~Held(r)' /\ ~Open(r)' /\ ~Over(r)'
        /\ Held(r)' => ~Open(r)' /\ ~Over(r)'
        /\ Open(r)' => ~Over(r)'
        /\ r \in stored' => r \notin rejected'
        /\ IsSomewhere(r)' => r <= pushed'
    BY <1>3, <1>5, <2>1, <2>2 DEF Over, InOnePlace, IsSomewhere
  <2>. QED
    BY <1>2, <1>3, <2>1, <2>3 DEF InOnePlace
<1>7. SomePlace'
  <2>. SUFFICES ASSUME NoLoss'
                PROVE  (\A v \in Worker : ~broken'[v]) /\ \A r \in 1 .. pushed' : IsSomewhere(r)'
    BY DEF SomePlace
  <2>1. NoLoss /\ stored' = stored \cup inserted[w] /\ hand[w] = << >>
    BY DEF NoLoss
  <2>2. (\A v \in Worker : ~broken[v]) /\ \A r \in 1 .. pushed : IsSomewhere(r)
    BY <2>1 DEF Traced, SomePlace
  <2>3. \A v \in Worker : ~broken'[v]
    BY <1>1, <2>2
  <2>4. ASSUME NEW r \in 1 .. pushed' PROVE IsSomewhere(r)'
    <3>0. r \in Record /\ r \in 1 .. pushed
      BY SchedulerAssumption DEF TypeOK, Record, SchedulerAssumption
    <3>1. CASE Held(r)
      BY <1>2, <2>1, <3>0, <3>1 DEF IsSomewhere, Held, InHand, In
    <3>2. CASE Open(r)
      BY <1>2, <2>1, <3>0, <3>2 DEF IsSomewhere, Open, Over, Pended
    <3>3. CASE Over(r)
      BY <2>1, <3>3 DEF IsSomewhere, Over
    <3>. QED
      BY <1>3, <2>2, <3>0, <3>1, <3>2, <3>3 DEF IsSomewhere
  <2>. QED
    BY <2>3, <2>4
<1>. QED
  BY <1>4, <1>6, <1>7 DEF Traced

(* Redis loses the whole list.                                             *)
LEMMA RestartTraced == ASSUME TypeOK, Traced, RedisRestarts PROVE Traced'
<1>1. /\ queue' = << >> /\ "restarted" \in causes'
      /\ UNCHANGED <<pushed, phase, hand, inserted, broken, stored, rejected>>
  BY DEF RedisRestarts, Fault, runs, records
<1>2. DOMAIN queue' = {} /\ ~NoLoss'
  BY <1>1 DEF NoLoss
<1>3. \A r \in Record : /\ ~IsQueued(r)' /\ (Held(r)' <=> Held(r))
                        /\ Open(r)' <=> Open(r)
                        /\ Over(r)' <=> Over(r)
  BY <1>1, <1>2 DEF IsQueued, Held, Open, Over, InHand, Pended, In
<1>4. ListsFit'
  BY <1>1, <1>2 DEF Traced, ListsFit, Distinct
<1>5. OnePlace'
  <2>. SUFFICES ASSUME NEW r \in Record
                PROVE  InOnePlace(r)' /\ (IsSomewhere(r)' => r <= pushed')
    BY DEF OnePlace
  <2>1. InOnePlace(r) /\ (IsSomewhere(r) => r <= pushed)
    BY DEF Traced, OnePlace
  <2>2. \A v \in Worker : (InHand(r, v)' <=> InHand(r, v)) /\ (Pended(r, v)' <=> Pended(r, v))
    BY <1>1 DEF InHand, Pended, In
  <2>. QED
    BY <1>1, <1>2, <1>3, <2>1, <2>2 DEF InOnePlace, IsSomewhere
<1>. QED
  BY <1>2, <1>4, <1>5 DEF Traced, SomePlace

(* The first list moves from the queue into empty hands.                   *)
LEMMA TakeTraced ==
  ASSUME TypeOK, Traced, NEW w \in Worker, Take(w) PROVE Traced'
<1>1. /\ queue # << >> /\ queue' = Tail(queue) /\ hand[w] = << >>
      /\ hand' = [hand EXCEPT ![w] = Head(queue)] /\ phase' = [phase EXCEPT ![w] = "loop"]
      /\ UNCHANGED <<pushed, inserted, broken, stored, rejected, causes>>
  BY DEF Take, Rest, records, history, Traced, ListsFit
<1>2. /\ Len(queue) \in Nat /\ DOMAIN queue = 1 .. Len(queue) /\ 1 \in DOMAIN queue
      /\ DOMAIN queue' = 1 .. Len(queue) - 1
      /\ \A i \in DOMAIN queue' : queue'[i] = queue[i + 1]
      /\ Head(queue) = queue[1]
  <2>1. queue \in Seq(Seq(Record) \ {<< >>})
    BY DEF TypeOK
  <2>2. Len(queue) \in Nat /\ DOMAIN queue = 1 .. Len(queue) /\ Len(queue) # 0
    BY <1>1, <2>1
  <2>3. /\ Tail(queue) \in Seq(Seq(Record) \ {<< >>}) /\ Len(Tail(queue)) = Len(queue) - 1
        /\ \A i \in 1 .. Len(Tail(queue)) : Tail(queue)[i] = queue[i + 1]
    BY <1>1, <2>1, HeadTailProperties
  <2>4. Head(queue) = queue[1]
    BY <2>1, <2>2
  <2>. QED
    BY <1>1, <2>2, <2>3, <2>4
<1>3. /\ hand'[w] = queue[1] /\ phase'[w] = "loop"
      /\ \A v \in Worker : v # w => hand'[v] = hand[v] /\ phase'[v] = phase[v]
  BY <1>1, <1>2 DEF TypeOK
<1>4. ListsFit'
  <2>1. \A v \in Worker : phase'[v] = "pop" => hand'[v] = << >>
    BY <1>3 DEF Traced, ListsFit
  <2>2. \A v \in Worker : Distinct(hand[v])' /\ \A i \in DOMAIN queue : Distinct(queue[i])
    BY <1>2, <1>3 DEF Traced, ListsFit, Distinct
  <2>3. \A i \in DOMAIN queue' : Distinct(queue[i])'
    BY <1>2, <2>2 DEF Distinct
  <2>. QED
    BY <2>1, <2>2, <2>3 DEF ListsFit
<1>5. ASSUME NEW r \in Record
      PROVE  /\ \A i \in DOMAIN queue' : i + 1 \in DOMAIN queue /\ (QueuedAt(r, i)' <=> QueuedAt(r, i + 1))
             /\ InHand(r, w)' <=> QueuedAt(r, 1)
             /\ ~InHand(r, w)
             /\ \A v \in Worker : v # w => (InHand(r, v)' <=> InHand(r, v))
             /\ \A v \in Worker : Pended(r, v)' <=> Pended(r, v)
  BY <1>1, <1>2, <1>3 DEF QueuedAt, InHand, Pended, In
<1>6. ASSUME NEW r \in Record
      PROVE  /\ InOnePlace(r)'
             /\ IsSomewhere(r)' <=> IsSomewhere(r)
  <2>1. InOnePlace(r)
    BY DEF Traced, OnePlace
  <2>2. /\ IsQueued(r) <=> \E i \in DOMAIN queue : QueuedAt(r, i)
        /\ IsQueued(r)' <=> \E i \in DOMAIN queue' : QueuedAt(r, i)'
    BY DEF IsQueued, QueuedAt
  <2>3. IsQueued(r)' <=> \E i \in DOMAIN queue : i # 1 /\ QueuedAt(r, i)
    <3>1. ASSUME NEW i \in DOMAIN queue, i # 1, QueuedAt(r, i) PROVE IsQueued(r)'
      <4>1. i - 1 \in DOMAIN queue' /\ (i - 1) + 1 = i
        BY <1>2, <3>1
      <4>. QED
        BY <1>5, <2>2, <3>1, <4>1
    <3>2. ASSUME NEW i \in DOMAIN queue', QueuedAt(r, i)'
          PROVE  \E j \in DOMAIN queue : j # 1 /\ QueuedAt(r, j)
      <4>1. i + 1 \in DOMAIN queue /\ i + 1 # 1
        BY <1>2
      <4>. QED
        BY <1>5, <3>2, <4>1
    <3>. QED
      BY <2>2, <3>1, <3>2
  <2>4. Held(r)' <=> Held(r) \/ QueuedAt(r, 1)
    BY <1>5 DEF Held
  <2>5. (Open(r)' <=> Open(r)) /\ (Over(r)' <=> Over(r))
    BY <1>1, <1>5 DEF Open, Over
  <2>6. QueuedAt(r, 1) => ~IsQueued(r)' /\ IsQueued(r)
    BY <1>2, <2>1, <2>2, <2>3 DEF InOnePlace
  <2>7. \A i, j \in DOMAIN queue' : QueuedAt(r, i)' /\ QueuedAt(r, j)' => i = j
    BY <1>2, <1>5, <2>1 DEF InOnePlace
  <2>8. \A v, x \in Worker : InHand(r, v)' /\ InHand(r, x)' => v = x
    BY <1>5, <2>1, <2>6 DEF InOnePlace, Held
  <2>9. \A v, x \in Worker : Pended(r, v)' /\ Pended(r, x)' => v = x
    BY <1>5, <2>1 DEF InOnePlace
  <2>10. InOnePlace(r)'
    BY <1>1, <2>1, <2>2, <2>3, <2>4, <2>5, <2>6, <2>7, <2>8, <2>9 DEF InOnePlace
  <2>. QED
    BY <2>2, <2>3, <2>4, <2>5, <2>6, <2>10 DEF IsSomewhere
<1>7. OnePlace'
  BY <1>1, <1>6 DEF Traced, OnePlace
<1>8. SomePlace'
  <2>1. \A r \in 1 .. pushed : r \in Record
    BY SchedulerAssumption DEF TypeOK, Record, SchedulerAssumption
  <2>. QED
    BY <1>1, <1>6, <2>1 DEF Traced, SomePlace, NoLoss
<1>. QED
  BY <1>4, <1>7, <1>8 DEF Traced

(* New records come in a new list at the end of the queue ...              *)
LEMMA PushTraced ==
  ASSUME TypeOK, Traced, NEW b \in Batches, Push(b) PROVE Traced'
<1>1. /\ pushed + Len(b) <= MaxRecords /\ pushed' = pushed + Len(b)
      /\ queue' = Append(queue, b)
      /\ UNCHANGED <<phase, hand, inserted, broken, stored, rejected, causes>>
  BY DEF Push, runs, records, history
<1>2. /\ b \in Seq(Record) \ {<< >>} /\ Distinct(b) /\ Len(b) \in Nat /\ pushed \in Nat
      /\ \A r \in Record : r \in Nat /\ (r \in In(b) <=> pushed < r /\ r <= pushed')
  <2>1. pushed \in Nat /\ \A r \in Record : r \in Nat
    BY SchedulerAssumption DEF TypeOK, Record, SchedulerAssumption
  <2>. QED
    BY <1>1, <2>1, Deferred
<1>. DEFINE n == Len(queue)
<1>3. /\ n \in Nat /\ DOMAIN queue = 1 .. n /\ DOMAIN queue' = 1 .. n + 1
      /\ queue'[n + 1] = b /\ \A i \in DOMAIN queue : queue'[i] = queue[i]
  <2>1. queue \in Seq(Seq(Record) \ {<< >>})
    BY DEF TypeOK
  <2>2. n \in Nat /\ DOMAIN queue = 1 .. n
    BY <2>1
  <2>. QED
    BY <1>1, <1>2, <2>1, <2>2, AppendProperties
<1>4. PICK e \in Nat :
        /\ e \in DOMAIN queue' /\ e \notin DOMAIN queue /\ queue'[e] = b
        /\ \A i \in DOMAIN queue' : i = e \/ i \in DOMAIN queue
        /\ \A i \in DOMAIN queue : i \in DOMAIN queue' /\ queue'[i] = queue[i]
  <2>1. n + 1 \in Nat /\ n + 1 \in DOMAIN queue' /\ n + 1 \notin DOMAIN queue
    BY <1>3
  <2>2. /\ \A i \in DOMAIN queue' : i = n + 1 \/ i \in DOMAIN queue
        /\ \A i \in DOMAIN queue : i \in DOMAIN queue' /\ queue'[i] = queue[i]
    BY <1>3
  <2>. QED
    BY <1>3, <2>1, <2>2
<1>5. ListsFit'
  BY <1>1, <1>2, <1>4 DEF Traced, ListsFit, Distinct
<1>6. ASSUME NEW r \in Record
      PROVE  /\ QueuedAt(r, e)' <=> r \in In(b)
             /\ \A i \in DOMAIN queue : QueuedAt(r, i)' <=> QueuedAt(r, i)
             /\ \A v \in Worker : (InHand(r, v)' <=> InHand(r, v)) /\ (Pended(r, v)' <=> Pended(r, v))
  BY <1>1, <1>4 DEF QueuedAt, InHand, Pended, In
<1>7. ASSUME NEW r \in Record
      PROVE  /\ InOnePlace(r)'
             /\ IsSomewhere(r)' <=> IsSomewhere(r) \/ r \in In(b)
  <2>1. InOnePlace(r) /\ (r \in In(b) => ~IsSomewhere(r))
    BY <1>2 DEF Traced, OnePlace
  <2>2. /\ IsQueued(r) <=> \E i \in DOMAIN queue : QueuedAt(r, i)
        /\ IsQueued(r)' <=> \E i \in DOMAIN queue' : QueuedAt(r, i)'
    BY DEF IsQueued, QueuedAt
  <2>3. IsQueued(r)' <=> IsQueued(r) \/ r \in In(b)
    BY <1>4, <1>6, <2>2
  <2>4. (Held(r)' <=> Held(r)) /\ (Open(r)' <=> Open(r)) /\ (Over(r)' <=> Over(r))
    BY <1>1, <1>6 DEF Held, Open, Over
  <2>5. \A i, j \in DOMAIN queue' : QueuedAt(r, i)' /\ QueuedAt(r, j)' => i = j
    <3>. SUFFICES ASSUME NEW i \in DOMAIN queue', NEW j \in DOMAIN queue',
                         QueuedAt(r, i)', QueuedAt(r, j)'
                  PROVE  i = j
      OBVIOUS
    <3>1. CASE r \in In(b)
      BY <1>4, <1>6, <2>1, <2>2, <3>1 DEF IsSomewhere
    <3>2. CASE r \notin In(b)
      BY <1>4, <1>6, <2>1, <3>2 DEF InOnePlace
    <3>. QED
      BY <3>1, <3>2
  <2>. QED
    BY <1>1, <1>6, <2>1, <2>3, <2>4, <2>5 DEF InOnePlace, IsSomewhere
<1>8. OnePlace'
  <2>1. ASSUME NEW r \in Record, IsSomewhere(r)' PROVE r <= pushed'
    <3>1. CASE r \in In(b)
      BY <1>2, <3>1
    <3>2. CASE IsSomewhere(r)
      <4>1. r <= pushed
        BY <3>2 DEF Traced, OnePlace
      <4>. QED
        BY <1>1, <1>2, <4>1
    <3>. QED
      BY <1>7, <2>1, <3>1, <3>2
  <2>. QED
    BY <1>7, <2>1 DEF OnePlace
<1>9. SomePlace'
  <2>1. \A r \in 1 .. pushed' : r \in Record /\ (r \in 1 .. pushed \/ r \in In(b))
    BY <1>1, <1>2, SchedulerAssumption DEF Record, SchedulerAssumption
  <2>. QED
    BY <1>1, <1>7, <2>1 DEF Traced, SomePlace, NoLoss
<1>. QED
  BY <1>5, <1>8, <1>9 DEF Traced

(* ... or, without Redis, are stored, or refused, at once.                 *)
LEMMA PushFailsTraced ==
  ASSUME TypeOK, Traced, NEW b \in Batches, PushFails(b) PROVE Traced'
<1>1. /\ pushed + Len(b) <= MaxRecords /\ pushed' = pushed + Len(b)
      /\ causes \subseteq causes'
      /\ \/ rejected' = rejected \cup In(b) /\ stored' = stored
         \/ stored' = stored \cup In(b) /\ rejected' = rejected
      /\ UNCHANGED <<queue, phase, hand, inserted, broken>>
  BY DEF PushFails, Fault, runs
<1>2. /\ Len(b) \in Nat /\ pushed \in Nat
      /\ \A r \in Record : r \in Nat /\ (r \in In(b) <=> pushed < r /\ r <= pushed')
  BY <1>1, Deferred DEF TypeOK, Record
<1>3. ListsFit'
  BY <1>1 DEF Traced, ListsFit, Distinct
<1>4. ASSUME NEW r \in Record
      PROVE  /\ IsQueued(r)' <=> IsQueued(r)
             /\ \A i \in DOMAIN queue : QueuedAt(r, i)' <=> QueuedAt(r, i)
             /\ \A v \in Worker : (InHand(r, v)' <=> InHand(r, v)) /\ (Pended(r, v)' <=> Pended(r, v))
  BY <1>1 DEF IsQueued, QueuedAt, InHand, Pended, In
<1>5. ASSUME NEW r \in Record
      PROVE  /\ InOnePlace(r)'
             /\ IsSomewhere(r)' <=> IsSomewhere(r) \/ r \in In(b)
  <2>1. InOnePlace(r) /\ (r \in In(b) => ~IsSomewhere(r))
    BY <1>2 DEF Traced, OnePlace
  <2>2. (Held(r)' <=> Held(r)) /\ (Open(r)' <=> Open(r)) /\ (Over(r)' <=> Over(r) \/ r \in In(b))
    BY <1>1, <1>4 DEF Held, Open, Over
  <2>3. r \in stored' => r \notin rejected'
    BY <1>1, <2>1 DEF InOnePlace, IsSomewhere, Over
  <2>. QED
    BY <1>1, <1>4, <2>1, <2>2, <2>3 DEF InOnePlace, IsSomewhere
<1>6. OnePlace'
  <2>1. ASSUME NEW r \in Record, IsSomewhere(r)' PROVE r <= pushed'
    <3>1. CASE r \in In(b)
      BY <1>2, <3>1
    <3>2. CASE IsSomewhere(r)
      <4>1. r <= pushed
        BY <3>2 DEF Traced, OnePlace
      <4>. QED
        BY <1>1, <1>2, <4>1
    <3>. QED
      BY <1>5, <2>1, <3>1, <3>2
  <2>. QED
    BY <1>5, <2>1 DEF OnePlace
<1>7. SomePlace'
  <2>1. \A r \in 1 .. pushed' : r \in Record /\ (r \in 1 .. pushed \/ r \in In(b))
    BY <1>1, <1>2, SchedulerAssumption DEF Record, SchedulerAssumption
  <2>2. NoLoss' => NoLoss
    BY <1>1 DEF NoLoss
  <2>. QED
    BY <1>1, <1>5, <2>1, <2>2 DEF Traced, SomePlace
<1>. QED
  BY <1>3, <1>6, <1>7 DEF Traced

(* The next record goes from a run's hands to what it has inserted, or to  *)
(* what was refused; with a commit, all that it inserted is stored.        *)
LEMMA InsertTraced ==
  ASSUME TypeOK, Traced, NEW w \in Worker, Insert(w) PROVE Traced'
<1>. DEFINE r0 == Head(hand[w])
            done == inserted[w] \cup {r0}
<1>1. /\ phase[w] = "loop" /\ hand[w] # << >> /\ hand' = [hand EXCEPT ![w] = Tail(@)]
      /\ UNCHANGED <<queue, pushed, phase>>
  BY DEF Insert, deferred
<1>2. causes \subseteq causes'
  BY DEF Insert, Fault, history
<1>3. PICK D, E \in SUBSET Record :
        /\ (D = done /\ E = {}) \/ (D = inserted[w] /\ E = {r0})
        /\ rejected' = rejected \cup E
        /\ \/ inserted' = [inserted EXCEPT ![w] = D] /\ stored' = stored
           \/ inserted' = [inserted EXCEPT ![w] = {}] /\ stored' = stored \cup D
           \/ inserted' = [inserted EXCEPT ![w] = {}] /\ stored' = stored /\ ~NoLoss'
        /\ NoLoss' => \A v \in Worker : ~broken'[v]
  <2>1. inserted[w] \in SUBSET Record /\ r0 \in Record
    <3>1. hand[w] \in Seq(Record) /\ inserted[w] \in SUBSET Record
      BY DEF TypeOK
    <3>. QED
      BY <1>1, <3>1, HeadTailProperties
  <2>2. NoLoss' => /\ \A v \in Worker : ~broken[v]
                   /\ "aborted" \notin causes'
    BY <1>2 DEF NoLoss, Traced, SomePlace
  <2>3. CASE /\ ~broken[w] /\ rejected' = rejected
             /\ IF IsCommitTime(w)
                THEN /\ stored' = stored \cup done /\ inserted' = [inserted EXCEPT ![w] = {}]
                     /\ broken' = [broken EXCEPT ![w] = FALSE]
                ELSE /\ inserted' = [inserted EXCEPT ![w] = done] /\ stored' = stored
                     /\ broken' = [broken EXCEPT ![w] = FALSE]
    <3>1. NoLoss' => \A v \in Worker : ~broken'[v]
      BY <2>2, <2>3 DEF TypeOK
    <3>2. done \in SUBSET Record /\ {} \in SUBSET Record
      BY <2>1
    <3>3. \/ inserted' = [inserted EXCEPT ![w] = done] /\ stored' = stored
          \/ inserted' = [inserted EXCEPT ![w] = {}] /\ stored' = stored \cup done
      BY <2>3
    <3>4. rejected' = rejected \cup {}
      BY <2>3
    <3>. QED
      BY <3>1, <3>2, <3>3, <3>4
  <2>4. CASE /\ rejected' = rejected \cup {r0}
             /\ IF IsCommitTime(w)
                THEN /\ stored' = IF broken[w] THEN stored ELSE stored \cup inserted[w]
                     /\ inserted' = [inserted EXCEPT ![w] = {}]
                     /\ broken' = [broken EXCEPT ![w] = FALSE]
                ELSE /\ inserted' = [inserted EXCEPT ![w] = inserted[w]] /\ stored' = stored
                     /\ broken' = [broken EXCEPT ![w] = broken[w]]
    <3>1. NoLoss' => \A v \in Worker : ~broken'[v]
      BY <2>2, <2>4 DEF TypeOK
    <3>2. {r0} \in SUBSET Record
      BY <2>1
    <3>3. \/ inserted' = [inserted EXCEPT ![w] = inserted[w]] /\ stored' = stored
          \/ inserted' = [inserted EXCEPT ![w] = {}] /\ stored' = stored \cup inserted[w]
          \/ inserted' = [inserted EXCEPT ![w] = {}] /\ stored' = stored /\ ~NoLoss'
      BY <2>2, <2>4
    <3>. QED
      BY <2>1, <2>4, <3>1, <3>2, <3>3
  <2>5. CASE /\ rejected' = rejected \cup {r0} /\ "aborted" \in causes'
             /\ IF IsCommitTime(w)
                THEN /\ stored' = stored /\ inserted' = [inserted EXCEPT ![w] = {}]
                ELSE /\ inserted' = [inserted EXCEPT ![w] = inserted[w]] /\ stored' = stored
    <3>1. ~NoLoss'
      BY <2>2, <2>5
    <3>2. {r0} \in SUBSET Record
      BY <2>1
    <3>3. \/ inserted' = [inserted EXCEPT ![w] = inserted[w]] /\ stored' = stored
          \/ inserted' = [inserted EXCEPT ![w] = {}] /\ stored' = stored /\ ~NoLoss'
      BY <2>5, <3>1
    <3>. QED
      BY <2>1, <2>5, <3>1, <3>2, <3>3
  <2>. QED
    BY <2>3, <2>4, <2>5 DEF Insert, Fault
<1>4. PICK h \in Record :
        /\ h = r0 /\ InHand(h, w) /\ ~InHand(h, w)' /\ Distinct(hand[w])'
        /\ \A r \in Record : r # h => (InHand(r, w)' <=> InHand(r, w))
  <2>1. hand[w] \in Seq(Record)
    BY DEF TypeOK
  <2>2. /\ Len(hand[w]) \in Nat /\ DOMAIN hand[w] = 1 .. Len(hand[w]) /\ 1 \in DOMAIN hand[w]
        /\ r0 = hand[w][1] /\ r0 \in Record
    BY <1>1, <2>1
  <2>3. /\ Tail(hand[w]) \in Seq(Record) /\ Len(Tail(hand[w])) = Len(hand[w]) - 1
        /\ \A i \in 1 .. Len(Tail(hand[w])) : Tail(hand[w])[i] = hand[w][i + 1]
    BY <1>1, <2>1, HeadTailProperties
  <2>4. hand'[w] = Tail(hand[w])
    BY <1>1 DEF TypeOK
  <2>5. /\ DOMAIN (hand'[w]) = 1 .. Len(hand[w]) - 1
        /\ \A i \in DOMAIN (hand'[w]) : i + 1 \in DOMAIN hand[w] /\ hand'[w][i] = hand[w][i + 1]
    BY <2>2, <2>3, <2>4
  <2>6. Distinct(hand[w])
    BY DEF Traced, ListsFit
  <2>7. Distinct(hand[w])'
    <3>. SUFFICES ASSUME NEW k \in DOMAIN (hand'[w]), NEW l \in DOMAIN (hand'[w]),
                         hand'[w][k] = hand'[w][l]
                  PROVE  k = l
      BY DEF Distinct
    <3>1. k + 1 = l + 1
      BY <2>5, <2>6 DEF Distinct
    <3>. QED
      BY <2>2, <2>5, <3>1
  <2>8. \A i \in DOMAIN (hand'[w]) : hand'[w][i] # r0
    BY <2>2, <2>5, <2>6 DEF Distinct
  <2>9. ASSUME NEW r \in Record, r # r0 PROVE InHand(r, w)' <=> InHand(r, w)
    <3>1. InHand(r, w) <=> \E k \in DOMAIN hand[w] : k # 1 /\ hand[w][k] = r
      BY <2>2, <2>9 DEF InHand, In
    <3>2. InHand(r, w)' <=> \E k \in DOMAIN (hand'[w]) : hand[w][k + 1] = r
      BY <2>5 DEF InHand, In
    <3>3. \A k \in DOMAIN hand[w] : k # 1 => k - 1 \in DOMAIN (hand'[w]) /\ (k - 1) + 1 = k
      BY <2>2, <2>5
    <3>4. \A k \in DOMAIN (hand'[w]) : k + 1 \in DOMAIN hand[w] /\ k + 1 # 1
      BY <2>2, <2>5
    <3>. QED
      BY <3>1, <3>2, <3>3, <3>4
  <2>10. \A r : (r = r0 => InHand(r, w) /\ ~InHand(r, w)')
    BY <2>2, <2>8 DEF InHand, In
  <2>. QED
    BY <2>2, <2>7, <2>9, <2>10
<1>5. /\ \A v \in Worker, r \in Record :
           v # w => (InHand(r, v)' <=> InHand(r, v)) /\ (Pended(r, v)' <=> Pended(r, v))
      /\ \A r \in Record : /\ IsQueued(r)' <=> IsQueued(r)
                           /\ \A i \in DOMAIN queue : QueuedAt(r, i)' <=> QueuedAt(r, i)
      /\ \A v \in Worker : v # w => hand'[v] = hand[v]
  <2>1. \A v \in Worker : v # w => hand'[v] = hand[v] /\ inserted'[v] = inserted[v]
    BY <1>1, <1>3 DEF TypeOK
  <2>. QED
    BY <1>1, <2>1 DEF InHand, Pended, In, IsQueued, QueuedAt
<1>6. /\ \A r \in Record : Pended(r, w)' => r \in D
      /\ \A r \in Record : r \in stored' => r \in stored \/ (r \in D /\ ~Pended(r, w)')
      /\ NoLoss' => \A r \in D : Pended(r, w)' \/ r \in stored'
      /\ stored \subseteq stored' /\ rejected \subseteq rejected' /\ E \subseteq rejected'
      /\ \A r \in Record : r \in rejected' => r \in rejected \/ r \in E
  BY <1>3 DEF Pended, TypeOK
<1>7. /\ \A r \in Record : r # h => (r \in D <=> Pended(r, w)) /\ r \notin E
      /\ (h \in D /\ h \notin E) \/ (h \in E /\ h \notin D)
  <2>1. ~Pended(h, w)
    BY <1>4 DEF Traced, OnePlace, InOnePlace, Held, Open
  <2>. QED
    BY <1>3, <1>4, <2>1 DEF Pended
<1>8. ListsFit'
  BY <1>1, <1>4, <1>5 DEF Traced, ListsFit, Distinct
<1>9. ASSUME NEW r \in Record
      PROVE  /\ InOnePlace(r)' /\ (IsSomewhere(r)' => IsSomewhere(r))
             /\ NoLoss' /\ IsSomewhere(r) => IsSomewhere(r)'
  <2>1. InOnePlace(r)
    BY DEF Traced, OnePlace
  <2>2. CASE r = h
    <3>1. IsSomewhere(h) /\ ~IsQueued(h) /\ ~Open(h) /\ ~Over(h)
      BY <1>4, <2>1, <2>2 DEF InOnePlace, IsSomewhere, Held
    <3>2. ~Held(h)' /\ ~IsQueued(h)'
      BY <1>4, <1>5, <2>1, <2>2, <3>1 DEF Held, InOnePlace
    <3>3. \A v \in Worker : Pended(h, v)' => v = w
      BY <1>5, <3>1 DEF Open
    <3>4. /\ Open(h)' <=> Pended(h, w)'
          /\ Over(h)' <=> h \in stored' \/ h \in rejected'
      BY <3>3 DEF Open, Over
    <3>5. ~(h \in stored' /\ h \in rejected') /\ ~(Pended(h, w)' /\ (h \in stored' \/ h \in rejected'))
      BY <1>6, <1>7, <3>1 DEF Over
    <3>6. NoLoss' => Pended(h, w)' \/ h \in stored' \/ h \in rejected'
      BY <1>6, <1>7
    <3>7. InOnePlace(h)'
      BY <1>1, <1>4, <1>5, <2>1, <2>2, <3>2, <3>3, <3>4, <3>5 DEF InOnePlace, Held
    <3>. QED
      BY <2>2, <3>1, <3>4, <3>6, <3>7 DEF IsSomewhere
  <2>3. CASE r # h
    <3>1. \A v \in Worker : InHand(r, v)' <=> InHand(r, v)
      BY <1>4, <1>5, <2>3
    <3>2. \A v \in Worker : Pended(r, v)' => Pended(r, v)
      BY <1>5, <1>6, <1>7, <2>3
    <3>3. r \in stored' => r \in stored \/ (Pended(r, w) /\ ~Pended(r, w)')
      BY <1>6, <1>7, <2>3
    <3>4. r \in rejected' <=> r \in rejected
      BY <1>6, <1>7, <2>3
    <3>5. (Held(r)' <=> Held(r)) /\ (Open(r)' => Open(r)) /\ (Pended(r, w) => Open(r))
      BY <3>1, <3>2 DEF Held, Open
    <3>6. Over(r)' => Over(r) \/ (Open(r) /\ ~Open(r)')
      BY <2>1, <3>2, <3>3, <3>4, <3>5 DEF Over, Open, InOnePlace
    <3>7. r \in stored' => r \notin rejected'
      BY <2>1, <3>3, <3>4, <3>5 DEF InOnePlace, Over
    <3>8. NoLoss' /\ Open(r) => Open(r)' \/ Over(r)'
      BY <1>5, <1>6, <1>7, <2>3 DEF Open, Over
    <3>9. Over(r) => Over(r)'
      BY <1>6 DEF Over
    <3>10. InOnePlace(r)'
      BY <1>1, <1>5, <2>1, <3>1, <3>2, <3>5, <3>6, <3>7 DEF InOnePlace
    <3>. QED
      BY <1>5, <3>5, <3>6, <3>8, <3>9, <3>10 DEF IsSomewhere
  <2>. QED
    BY <2>2, <2>3
<1>10. OnePlace'
  BY <1>1, <1>9 DEF Traced, OnePlace
<1>11. SomePlace'
  <2>1. \A r \in 1 .. pushed : r \in Record
    BY SchedulerAssumption DEF TypeOK, Record, SchedulerAssumption
  <2>2. NoLoss' => NoLoss
    BY <1>2 DEF NoLoss
  <2>. QED
    BY <1>1, <1>3, <1>9, <2>1, <2>2 DEF Traced, SomePlace
<1>. QED
  BY <1>8, <1>10, <1>11 DEF Traced

-----------------------------------------------------------------------------
(* A run of which nothing changes ...                                      *)
LEMMA CountStays ==
  ASSUME NEW w \in Worker, CountFits(w), single' = single,
         inserted'[w] = inserted[w], count'[w] = count[w], hand'[w] = hand[w],
         phase'[w] = "pop" => phase[w] = "pop" \/ count[w] <= Limit
  PROVE  CountFits(w)'
  BY DEF CountFits

(* ... and one that ended.                                                 *)
LEMMA CountEnds ==
  ASSUME NEW w \in Worker, single' = single,
         inserted'[w] = {}, count'[w] = 0, hand'[w] = << >>, phase'[w] = "idle"
  PROVE  CountFits(w)'
<1>1. Cardinality({}) = 0 /\ Limit \in Nat /\ Every \in Nat \ {0}
  BY FS_EmptySet, SchedulerAssumption DEF SchedulerAssumption
<1>2. 0 % Every \in Nat
  BY <1>1, Rests
<1>3. Len(hand'[w]) = 0
  OBVIOUS
<1>. QED
  BY <1>1, <1>2, <1>3 DEF CountFits

(* The count goes on by one, and with it what is inserted.                 *)
LEMMA InsertCounts ==
  ASSUME TypeOK, Counting, NEW w \in Worker, Insert(w) PROVE CountFits(w)'
<1>. DEFINE r0 == Head(hand[w])
<1>1. /\ hand[w] # << >> /\ hand' = [hand EXCEPT ![w] = Tail(@)]
      /\ count' = [count EXCEPT ![w] = @ + 1] /\ phase[w] = "loop"
      /\ UNCHANGED <<single, phase>>
  BY DEF Insert, deferred
<1>2. /\ hand'[w] = Tail(hand[w]) /\ count'[w] = count[w] + 1 /\ phase'[w] = "loop"
      /\ count[w] \in Nat /\ inserted[w] \in SUBSET Record /\ hand[w] \in Seq(Record)
      /\ single' = single /\ single \in BOOLEAN
  BY <1>1 DEF TypeOK
<1>3. IF IsCommitTime(w)
      THEN inserted' = [inserted EXCEPT ![w] = {}]
      ELSE \/ inserted' = [inserted EXCEPT ![w] = inserted[w]]
           \/ inserted' = [inserted EXCEPT ![w] = inserted[w] \cup {r0}]
  BY DEF Insert
<1>4. IF IsCommitTime(w)
      THEN inserted'[w] = {}
      ELSE inserted'[w] = inserted[w] \/ inserted'[w] = inserted[w] \cup {r0}
  BY <1>3 DEF TypeOK
<1>5. /\ Cardinality(inserted[w]) \in Nat /\ Cardinality(inserted'[w]) \in Nat
      /\ IF IsCommitTime(w) THEN Cardinality(inserted'[w]) = 0
         ELSE Cardinality(inserted'[w]) <= Cardinality(inserted[w]) + 1
  <2>1. /\ Cardinality(inserted[w]) \in Nat /\ Cardinality({}) = 0
        /\ Cardinality(inserted[w] \cup {r0}) \in Nat
        /\ Cardinality(inserted[w] \cup {r0}) <= Cardinality(inserted[w]) + 1
    BY <1>2, OneMore
  <2>2. CASE inserted'[w] = {} /\ IsCommitTime(w)
    BY <2>1, <2>2
  <2>3. CASE inserted'[w] = inserted[w] /\ ~IsCommitTime(w)
    BY <2>1, <2>3
  <2>4. CASE inserted'[w] = inserted[w] \cup {r0} /\ ~IsCommitTime(w)
    BY <2>1, <2>4
  <2>. QED
    BY <1>4, <2>2, <2>3, <2>4
<1>6. /\ Every \in Nat \ {0} /\ Limit \in Nat
      /\ count[w] % Every \in Nat /\ (count[w] + 1) % Every \in Nat
  <2>1. Every \in Nat \ {0} /\ Limit \in Nat
    BY SchedulerAssumption DEF SchedulerAssumption
  <2>2. count[w] + 1 \in Nat
    BY <1>2
  <2>. QED
    BY <1>2, <2>1, <2>2, Rests
<1>7. /\ Cardinality(inserted[w]) <= IF single THEN count[w] ELSE count[w] % Every
      /\ single => Len(hand[w]) <= 1 /\ count[w] <= Limit
  BY <1>1, <1>2 DEF Counting, CountFits
<1>8. Cardinality(inserted'[w]) <= IF single THEN count[w] + 1 ELSE (count[w] + 1) % Every
  <2>1. CASE IsCommitTime(w)
    BY <1>2, <1>5, <1>6, <2>1
  <2>2. CASE ~IsCommitTime(w) /\ single
    BY <1>2, <1>5, <1>7, <2>2
  <2>3. CASE ~IsCommitTime(w) /\ ~single
    <3>1. (count[w] + 1) % Every = (count[w] % Every) + 1
      BY <1>2, <1>6, <2>3, NextRest DEF IsCommitTime
    <3>. QED
      BY <1>5, <1>6, <1>7, <2>3, <3>1
  <2>. QED
    BY <2>1, <2>2, <2>3
<1>9. Len(Tail(hand[w])) = Len(hand[w]) - 1 /\ Len(hand[w]) \in Nat /\ Tail(hand[w]) \in Seq(Record)
  BY <1>1, <1>2, HeadTailProperties
<1>10. single => Len(hand'[w]) = 0 /\ hand'[w] = << >>
  <2>1. Len(hand[w]) # 0
    BY <1>1, <1>2, EmptySeq
  <2>2. single => Len(Tail(hand[w])) = 0
    <3>1. Len(hand[w]) <= 1 => Len(Tail(hand[w])) = 0
      <4>1. \A n \in Nat : n # 0 /\ n <= 1 => n - 1 = 0
        OBVIOUS
      <4>2. Len(hand[w]) \in Nat /\ Len(Tail(hand[w])) = Len(hand[w]) - 1
        BY <1>9
      <4>. QED
        BY <2>1, <4>1, <4>2, Zenon
    <3>. QED
      BY <1>7, <3>1, Zenon
  <2>. QED
    BY <1>2, <1>9, <2>2, EmptySeq
<1>. QED
  BY <1>2, <1>6, <1>7, <1>8, <1>10 DEF CountFits

(* No step moves a record to two places, or from its place to none.        *)
LEMMA NextTraced == ASSUME IInv, [Next]_vars PROVE Traced'
<1>0. TypeOK /\ Traced
  BY DEF IInv
<1>1. CASE PeriodPasses
  BY <1>0, <1>1, PlacesStay DEF PeriodPasses, deferred, runs, records, history
<1>2. CASE Skip
  BY <1>0, <1>2, PlacesStay DEF Skip, Fault, deferred, runs, records, history
<1>3. CASE Load
  BY <1>0, <1>3, PlacesStay DEF Load, deferred, runs, records, history
<1>4. CASE Check
  BY <1>0, <1>4, PlacesStay DEF Check, deferred, runs, records, history
<1>5. ASSUME NEW c \in Caller, Enqueue(c) PROVE Traced'
  BY <1>0, <1>5, PlacesStay DEF Enqueue, deferred, runs, records, history
<1>6. CASE Abandon
  BY <1>0, <1>6, PlacesStay DEF Abandon, deferred, runs, records, history
<1>7. ASSUME NEW u \in User, ExecuteEvent(u) PROVE Traced'
  BY <1>0, <1>7, PlacesStay DEF ExecuteEvent, Fault, deferred, runs, records, history
<1>8. ASSUME NEW b \in Batches, Push(b) PROVE Traced'
  BY <1>0, <1>8, PushTraced
<1>9. ASSUME NEW b \in Batches, PushFails(b) PROVE Traced'
  BY <1>0, <1>9, PushFailsTraced
<1>10. CASE RedisRestarts
  BY <1>0, <1>10, RestartTraced
<1>11. ASSUME NEW w \in Worker, Pop(w) PROVE Traced'
  <2>1. \A v \in Worker : v # w => phase'[v] = phase[v]
    BY <1>0, <1>11 DEF TypeOK, Pop
  <2>2. phase'[w] = "pop" => hand[w] = << >>
    BY <1>0, <1>11 DEF TypeOK, Pop
  <2>3. UNCHANGED <<queue, hand, inserted, broken, stored, rejected, pushed, causes>>
    BY <1>11 DEF Pop, deferred, records, history
  <2>. QED
    BY <1>0, <2>1, <2>2, <2>3, PlacesStay
<1>12. ASSUME NEW w \in Worker, Start(w) PROVE Traced'
  <2>1. \A v \in Worker : v # w => phase'[v] = phase[v]
    BY <1>0, <1>12 DEF TypeOK, Start
  <2>2. phase'[w] = "pop" => hand[w] = << >>
    BY <1>0, <1>12 DEF TypeOK, Start
  <2>3. UNCHANGED <<queue, hand, inserted, broken, stored, rejected, pushed, causes>>
    BY <1>12 DEF Start, deferred, records, history
  <2>. QED
    BY <1>0, <2>1, <2>2, <2>3, PlacesStay
<1>13. ASSUME NEW w \in Worker, Look(w) PROVE Traced'
  <2>1. \A v \in Worker : v # w => phase'[v] = phase[v]
    BY <1>0, <1>13 DEF TypeOK, Look
  <2>2. phase'[w] = "pop" => hand[w] = << >>
    BY <1>0, <1>13 DEF TypeOK, Look
  <2>3. UNCHANGED <<queue, hand, inserted, broken, stored, rejected, pushed, causes>>
    BY <1>13 DEF Look, deferred, records, history
  <2>. QED
    BY <1>0, <2>1, <2>2, <2>3, PlacesStay
<1>14. ASSUME NEW w \in Worker, Take(w) PROVE Traced'
  BY <1>0, <1>14, TakeTraced
<1>15. ASSUME NEW w \in Worker, Fail(w) PROVE Traced'
  <2>1. causes' = causes \cup {"overlap"}
    BY <1>15 DEF Fail
  <2>2. ~NoLoss' /\ causes \subseteq causes'
    BY <2>1 DEF NoLoss
  <2>3. /\ UNCHANGED <<queue, pushed, rejected, stored>>
        /\ phase' = [phase EXCEPT ![w] = "idle"] /\ hand' = [hand EXCEPT ![w] = << >>]
        /\ inserted' = [inserted EXCEPT ![w] = {}] /\ broken' = [broken EXCEPT ![w] = FALSE]
    BY <1>15 DEF Fail, Ends, deferred, records
  <2>. QED
    BY <1>0, <2>2, <2>3, RunEnds
<1>16. ASSUME NEW w \in Worker, Insert(w) PROVE Traced'
  BY <1>0, <1>16, InsertTraced
<1>17. ASSUME NEW w \in Worker, Finish(w) PROVE Traced'
  <2>1. /\ UNCHANGED <<queue, pushed, rejected, causes>> /\ hand[w] = << >>
        /\ phase' = [phase EXCEPT ![w] = "idle"] /\ hand' = [hand EXCEPT ![w] = << >>]
        /\ inserted' = [inserted EXCEPT ![w] = {}] /\ broken' = [broken EXCEPT ![w] = FALSE]
    BY <1>17 DEF Finish, Ends, deferred, history
  <2>2. stored' = IF broken[w] THEN stored ELSE stored \cup inserted[w]
    BY <1>17 DEF Finish
  <2>3. NoLoss' => ~broken[w]
    BY <1>0, <2>1 DEF Traced, SomePlace, NoLoss
  <2>4. \/ stored' = stored /\ ~NoLoss'
        \/ stored' = stored \cup inserted[w] /\ hand[w] = << >>
    BY <2>1, <2>2, <2>3
  <2>. QED
    BY <1>0, <2>1, <2>4, RunEnds
<1>18. ASSUME NEW w \in Worker, Crash(w) PROVE Traced'
  <2>1. causes' = causes \cup {"crashed"}
    BY <1>18 DEF Crash, Fault
  <2>2. ~NoLoss' /\ causes \subseteq causes'
    BY <2>1 DEF NoLoss
  <2>3. /\ UNCHANGED <<queue, pushed, rejected, stored>>
        /\ phase' = [phase EXCEPT ![w] = "idle"] /\ hand' = [hand EXCEPT ![w] = << >>]
        /\ inserted' = [inserted EXCEPT ![w] = {}] /\ broken' = [broken EXCEPT ![w] = FALSE]
    BY <1>18 DEF Crash, deferred, records
  <2>. QED
    BY <1>0, <2>2, <2>3, RunEnds
<1>20. ASSUME NEW w \in Worker, Drop(w) PROVE Traced'
  <2>1. \A v \in Worker : v # w => phase'[v] = phase[v]
    BY <1>0, <1>20 DEF TypeOK, Drop
  <2>2. phase'[w] = "pop" => hand[w] = << >>
    BY <1>0, <1>20 DEF TypeOK, Drop
  <2>3. UNCHANGED <<queue, hand, inserted, broken, stored, rejected, pushed>>
    BY <1>20 DEF Drop, deferred, records
  <2>4. causes \subseteq causes'
    BY <1>20 DEF Drop, Fault
  <2>. QED
    BY <1>0, <2>1, <2>2, <2>3, <2>4, PlacesStay
<1>19. CASE UNCHANGED vars
  BY <1>0, <1>19, PlacesStay DEF vars, deferred, runs, records, history
<1>. QED
  BY <1>1, <1>2, <1>3, <1>4, <1>5, <1>6, <1>7, <1>8, <1>9, <1>10, <1>11,
     <1>12, <1>13, <1>14, <1>15, <1>16, <1>17, <1>18, <1>19, <1>20 DEF Next, Ticks,
     Works, Caller

(* Only Insert counts, and what ends or is taken fits.                     *)
LEMMA NextCounting == ASSUME IInv, [Next]_vars PROVE Counting'
<1>0. TypeOK /\ Counting
  BY DEF IInv
<1>1. CASE PeriodPasses
  BY <1>0, <1>1, CountStays DEF Counting, PeriodPasses, deferred, runs
<1>2. CASE Skip
  BY <1>0, <1>2, CountStays DEF Counting, Skip, deferred, runs
<1>3. CASE Load
  BY <1>0, <1>3, CountStays DEF Counting, Load, deferred, runs
<1>4. CASE Check
  BY <1>0, <1>4, CountStays DEF Counting, Check, deferred, runs
<1>5. ASSUME NEW c \in Caller, Enqueue(c) PROVE Counting'
  BY <1>0, <1>5, CountStays DEF Counting, Enqueue, deferred, runs
<1>6. CASE Abandon
  BY <1>0, <1>6, CountStays DEF Counting, Abandon, deferred, runs
<1>7. ASSUME NEW u \in User, ExecuteEvent(u) PROVE Counting'
  BY <1>0, <1>7, CountStays DEF Counting, ExecuteEvent, deferred, runs
<1>8. ASSUME NEW b \in Batches, Push(b) PROVE Counting'
  BY <1>0, <1>8, CountStays DEF Counting, Push, deferred, runs
<1>9. ASSUME NEW b \in Batches, PushFails(b) PROVE Counting'
  BY <1>0, <1>9, CountStays DEF Counting, PushFails, deferred, runs
<1>10. CASE RedisRestarts
  BY <1>0, <1>10, CountStays DEF Counting, RedisRestarts, deferred, runs
<1>11. ASSUME NEW w \in Worker, Pop(w) PROVE Counting'
  <2>1. /\ single' = single
        /\ \A v \in Worker : v # w => /\ inserted'[v] = inserted[v] /\ count'[v] = count[v]
                                      /\ hand'[v] = hand[v] /\ phase'[v] = phase[v]
    BY <1>0, <1>11 DEF TypeOK, Pop, deferred
  <2>2. \A v \in Worker : v # w => CountFits(v)'
    BY <1>0, <2>1, CountStays DEF Counting
  <2>3. CountFits(w)'
    <3>1. phase'[w] = "pop" => phase[w] = "pop" \/ count[w] <= Limit
      BY <1>0, <1>11 DEF TypeOK, Pop, GoesOn
    <3>2. UNCHANGED <<single, inserted, count, hand>>
      BY <1>11 DEF Pop, deferred
    <3>. QED
      BY <1>0, <3>1, <3>2, CountStays DEF Counting
  <2>. QED
    BY <2>2, <2>3 DEF Counting
<1>12. ASSUME NEW w \in Worker, Start(w) PROVE Counting'
  <2>1. /\ single' = single
        /\ \A v \in Worker : v # w => /\ inserted'[v] = inserted[v] /\ count'[v] = count[v]
                                      /\ hand'[v] = hand[v] /\ phase'[v] = phase[v]
    BY <1>0, <1>12 DEF TypeOK, Start, deferred
  <2>2. \A v \in Worker : v # w => CountFits(v)'
    BY <1>0, <2>1, CountStays DEF Counting
  <2>3. CountFits(w)'
    <3>1. phase'[w] = "pop" => phase[w] = "pop" \/ count[w] <= Limit
      BY <1>0, <1>12 DEF TypeOK, Start, GoesOn
    <3>2. UNCHANGED <<single, inserted, count, hand>>
      BY <1>12 DEF Start, deferred
    <3>. QED
      BY <1>0, <3>1, <3>2, CountStays DEF Counting
  <2>. QED
    BY <2>2, <2>3 DEF Counting
<1>13. ASSUME NEW w \in Worker, Look(w) PROVE Counting'
  <2>1. /\ single' = single
        /\ \A v \in Worker : v # w => /\ inserted'[v] = inserted[v] /\ count'[v] = count[v]
                                      /\ hand'[v] = hand[v] /\ phase'[v] = phase[v]
    BY <1>0, <1>13 DEF TypeOK, Look, deferred
  <2>2. \A v \in Worker : v # w => CountFits(v)'
    BY <1>0, <2>1, CountStays DEF Counting
  <2>3. CountFits(w)'
    <3>1. phase'[w] = "pop" => phase[w] = "pop" \/ count[w] <= Limit
      BY <1>0, <1>13 DEF TypeOK, Look, GoesOn
    <3>2. UNCHANGED <<single, inserted, count, hand>>
      BY <1>13 DEF Look, deferred
    <3>. QED
      BY <1>0, <3>1, <3>2, CountStays DEF Counting
  <2>. QED
    BY <2>2, <2>3 DEF Counting
<1>14. ASSUME NEW w \in Worker, Take(w) PROVE Counting'
  <2>1. /\ single' = single
        /\ \A v \in Worker : v # w => /\ inserted'[v] = inserted[v] /\ count'[v] = count[v]
                                      /\ hand'[v] = hand[v] /\ phase'[v] = phase[v]
    BY <1>0, <1>14 DEF TypeOK, Take, deferred
  <2>2. \A v \in Worker : v # w => CountFits(v)'
    BY <1>0, <2>1, CountStays DEF Counting
  <2>3. CountFits(w)'
    <3>1. /\ phase[w] = "pop" /\ queue # << >> /\ hand'[w] = Head(queue) /\ phase'[w] = "loop"
          /\ inserted'[w] = inserted[w] /\ count'[w] = count[w]
      BY <1>0, <1>14 DEF TypeOK, Take
    <3>2. 1 \in DOMAIN queue /\ Head(queue) = queue[1]
      <4>1. queue \in Seq(Seq(Record) \ {<< >>})
        BY <1>0 DEF TypeOK
      <4>. QED
        BY <3>1, <4>1
    <3>3. single => Len(hand'[w]) = 1
      BY <1>0, <3>1, <3>2 DEF TypeOK
    <3>4. CountFits(w)
      BY <1>0 DEF Counting
    <3>5. /\ Cardinality(inserted[w])' <= IF single' THEN count'[w] ELSE count'[w] % Every
          /\ single' => count'[w] <= Limit
      BY <2>1, <3>1, <3>4 DEF CountFits
    <3>6. Limit \in Nat /\ count'[w] \in Nat
      BY <1>0, <3>1, SchedulerAssumption DEF TypeOK, SchedulerAssumption
    <3>7. single' => count'[w] <= Limit + 1 /\ Len(hand'[w]) <= 1
      <4>1. count'[w] <= Limit => count'[w] <= Limit + 1
        BY <3>6
      <4>2. Len(hand'[w]) = 1 => Len(hand'[w]) <= 1
        OBVIOUS
      <4>. QED
        BY <2>1, <3>3, <3>5, <4>1, <4>2, Zenon
    <3>. QED
      BY <3>5, <3>7 DEF CountFits
  <2>. QED
    BY <2>2, <2>3 DEF Counting
<1>15. ASSUME NEW w \in Worker, Fail(w) PROVE Counting'
  <2>1. /\ single' = single
        /\ \A v \in Worker : v # w => /\ inserted'[v] = inserted[v] /\ count'[v] = count[v]
                                      /\ hand'[v] = hand[v] /\ phase'[v] = phase[v]
    BY <1>0, <1>15 DEF TypeOK, Fail, Ends, deferred
  <2>2. \A v \in Worker : v # w => CountFits(v)'
    BY <1>0, <2>1, CountStays DEF Counting
  <2>3. CountFits(w)'
    <3>1. inserted'[w] = {} /\ count'[w] = 0 /\ hand'[w] = << >> /\ phase'[w] = "idle"
      BY <1>0, <1>15 DEF TypeOK, Fail, Ends
    <3>. QED
      BY <2>1, <3>1, CountEnds
  <2>. QED
    BY <2>2, <2>3 DEF Counting
<1>16. ASSUME NEW w \in Worker, Insert(w) PROVE Counting'
  <2>1. /\ single' = single
        /\ \A v \in Worker : v # w => /\ inserted'[v] = inserted[v] /\ count'[v] = count[v]
                                      /\ hand'[v] = hand[v] /\ phase'[v] = phase[v]
    BY <1>0, <1>16 DEF TypeOK, Insert, deferred
  <2>2. \A v \in Worker : v # w => CountFits(v)'
    BY <1>0, <2>1, CountStays DEF Counting
  <2>3. CountFits(w)'
    BY <1>0, <1>16, InsertCounts
  <2>. QED
    BY <2>2, <2>3 DEF Counting
<1>17. ASSUME NEW w \in Worker, Finish(w) PROVE Counting'
  <2>1. /\ single' = single
        /\ \A v \in Worker : v # w => /\ inserted'[v] = inserted[v] /\ count'[v] = count[v]
                                      /\ hand'[v] = hand[v] /\ phase'[v] = phase[v]
    BY <1>0, <1>17 DEF TypeOK, Finish, Ends, deferred
  <2>2. \A v \in Worker : v # w => CountFits(v)'
    BY <1>0, <2>1, CountStays DEF Counting
  <2>3. CountFits(w)'
    <3>1. inserted'[w] = {} /\ count'[w] = 0 /\ hand'[w] = << >> /\ phase'[w] = "idle"
      BY <1>0, <1>17 DEF TypeOK, Finish, Ends
    <3>. QED
      BY <2>1, <3>1, CountEnds
  <2>. QED
    BY <2>2, <2>3 DEF Counting
<1>18. ASSUME NEW w \in Worker, Crash(w) PROVE Counting'
  <2>1. /\ single' = single
        /\ \A v \in Worker : v # w => /\ inserted'[v] = inserted[v] /\ count'[v] = count[v]
                                      /\ hand'[v] = hand[v] /\ phase'[v] = phase[v]
    BY <1>0, <1>18 DEF TypeOK, Crash, deferred
  <2>2. \A v \in Worker : v # w => CountFits(v)'
    BY <1>0, <2>1, CountStays DEF Counting
  <2>3. CountFits(w)'
    <3>1. inserted'[w] = {} /\ count'[w] = 0 /\ hand'[w] = << >> /\ phase'[w] = "idle"
      BY <1>0, <1>18 DEF TypeOK, Crash
    <3>. QED
      BY <2>1, <3>1, CountEnds
  <2>. QED
    BY <2>2, <2>3 DEF Counting
<1>20. ASSUME NEW w \in Worker, Drop(w) PROVE Counting'
  <2>1. /\ single' = single
        /\ \A v \in Worker : v # w => /\ inserted'[v] = inserted[v] /\ count'[v] = count[v]
                                      /\ hand'[v] = hand[v] /\ phase'[v] = phase[v]
    BY <1>0, <1>20 DEF TypeOK, Drop, Fault, deferred
  <2>2. \A v \in Worker : v # w => CountFits(v)'
    BY <1>0, <2>1, CountStays DEF Counting
  <2>3. CountFits(w)'
    <3>1. phase'[w] = "pop" => phase[w] = "pop" \/ count[w] <= Limit
      BY <1>0, <1>20 DEF TypeOK, Drop, GoesOn
    <3>2. UNCHANGED <<single, inserted, count, hand>>
      BY <1>20 DEF Drop, deferred
    <3>. QED
      BY <1>0, <3>1, <3>2, CountStays DEF Counting
  <2>. QED
    BY <2>2, <2>3 DEF Counting
<1>19. CASE UNCHANGED vars
  BY <1>0, <1>19, CountStays DEF Counting, vars, deferred, runs
<1>. QED
  BY <1>1, <1>2, <1>3, <1>4, <1>5, <1>6, <1>7, <1>8, <1>9, <1>10, <1>11,
     <1>12, <1>13, <1>14, <1>15, <1>16, <1>17, <1>18, <1>19, <1>20 DEF Next, Ticks,
     Works, Caller

-----------------------------------------------------------------------------
(* The inductive invariant holds in every reachable state.                 *)
THEOREM InvariantHolds == Spec => []IInv
<1>1. ASSUME IInv, [Next]_vars PROVE IInv'
  BY <1>1, NextType, NextCallers, NextOneHolder, NextCounted, NextTraced, NextCounting
     DEF IInv
<1>. QED
  BY InitInv, <1>1, PTL DEF Spec

(* Every variable keeps its type: no empty list is ever in the queue, and  *)
(* a worker without the job has none of its records.                       *)
THEOREM TypeCorrect == Spec => []TypeOK
<1>1. IInv => TypeOK
  BY DEF IInv
<1>. QED
  BY <1>1, InvariantHolds, PTL

(* Nobody but a user who executes it can make the job begin more often.    *)
THEOREM Periodic == Spec => []OncePerPeriod
<1>1. ASSUME IInv PROVE OncePerPeriod
  <2>. SUFFICES ASSUME ~Forced PROVE ran <= IF Stale THEN 2 ELSE 1
    BY DEF OncePerPeriod, Forced, Stale
  <2>1. ran \in {0, 1} \/ (Stale /\ ran = 2)
    BY <1>1 DEF IInv, Counted
  <2>. QED
    BY <2>1
<1>. QED
  BY <1>1, InvariantHolds, PTL

(* However many runs empty the list at once, a record is never in two      *)
(* places, so never stored twice; and it is in one, unless Redis was       *)
(* restarted, a run died, popped from an empty list or lost a statement.   *)
THEOREM Accounted == Spec => []NothingLost
<1>1. ASSUME IInv PROVE NothingLost
  <2>0. TypeOK /\ Traced
    BY <1>1 DEF IInv
  <2>. SUFFICES ASSUME NEW r \in 1 .. pushed
                PROVE  /\ Cardinality(Places(r)) <= 1
                       /\ NoLoss => Places(r) # {}
    BY DEF NothingLost, NoLoss
  <2>1. r \in Record
    BY <2>0, SchedulerAssumption DEF TypeOK, Record, SchedulerAssumption
  <2>2. InOnePlace(r)
    BY <2>0, <2>1 DEF Traced, OnePlace
  <2>. DEFINE Q == {<<"queue", i>> : i \in {j \in DOMAIN queue : QueuedAt(r, j)}}
              H == {<<"hand", w>> : w \in {v \in Worker : InHand(r, v)}}
              O == {<<"inserted", w>> : w \in {v \in Worker : Pended(r, v)}}
              T == {<<"table", s>> : s \in {t \in {"stored", "rejected"} :
                                               r \in IF t = "stored" THEN stored ELSE rejected}}
  <2>3. Places(r) = Q \cup H \cup O \cup T
    BY DEF Places, QueuedAt, InHand, Pended
  <2>4. /\ \A p, q \in Q : p = q
        /\ \A p, q \in H : p = q
        /\ \A p, q \in O : p = q
        /\ \A p, q \in T : p = q
    BY <2>2 DEF InOnePlace
  <2>5. /\ Q # {} <=> IsQueued(r)
        /\ H # {} <=> Held(r)
        /\ O # {} <=> Open(r)
        /\ T # {} <=> Over(r)
    <3>1. Q # {} <=> IsQueued(r)
      BY DEF IsQueued, QueuedAt
    <3>2. (H # {} <=> Held(r)) /\ (O # {} <=> Open(r))
      BY DEF Held, Open
    <3>3. T # {} <=> Over(r)
      BY DEF Over
    <3>. QED
      BY <3>1, <3>2, <3>3
  <2>6. \A p, q \in Places(r) : p = q
    <3>. HIDE DEF Q, H, O, T
    <3>. QED
      BY <2>2, <2>3, <2>4, <2>5 DEF InOnePlace
  <2>7. Places(r) = {} => ~IsSomewhere(r)
    BY <2>3, <2>5 DEF IsSomewhere
  <2>8. Cardinality(Places(r)) <= 1
    <3>1. CASE Places(r) = {}
      BY <3>1, FS_EmptySet
    <3>2. CASE Places(r) # {}
      <4>1. PICK p \in Places(r) : TRUE
        BY <3>2
      <4>2. Places(r) = {p}
        BY <2>6, <4>1
      <4>3. Cardinality({p}) = 1
        BY FS_Singleton
      <4>. QED
        BY <4>2, <4>3
    <3>. QED
      BY <3>1, <3>2
  <2>. QED
    BY <2>0, <2>7, <2>8 DEF Traced, SomePlace
<1>. QED
  BY <1>1, InvariantHolds, PTL

(* A rollback or crash of a run undoes less than a hundred records of a    *)
(* doctype that came in lists, and all it took of one whose came one by    *)
(* one.                                                                    *)
THEOREM BoundedLoss == Spec => []LossIsBounded
<1>1. ASSUME IInv PROVE LossIsBounded
  <2>. SUFFICES ASSUME NEW w \in Worker
                PROVE  Cardinality(inserted[w]) <= IF single THEN Limit + 1 ELSE Every - 1
    BY DEF LossIsBounded
  <2>1. /\ CountFits(w) /\ count[w] \in Nat /\ inserted[w] \in SUBSET Record
        /\ Every \in Nat \ {0} /\ Limit \in Nat
    BY <1>1, SchedulerAssumption DEF IInv, Counting, TypeOK, SchedulerAssumption
  <2>2. Cardinality(inserted[w]) \in Nat
    BY <2>1, OneMore
  <2>3. count[w] % Every \in Nat /\ count[w] % Every <= Every - 1
    BY <2>1, Rests
  <2>. QED
    BY <2>1, <2>2, <2>3 DEF CountFits
<1>. QED
  BY <1>1, InvariantHolds, PTL
=============================================================================
