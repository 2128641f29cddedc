------------------------------ MODULE Scheduler ------------------------------
(***************************************************************************)
(* One Scheduled Job Type, frappe.deferred_insert.save_to_db, from the     *)
(* scheduler's tick and "Execute" in the form to the run in a worker, with *)
(* one of the lists of deferred records in Redis that the run empties.     *)
(* The job type is a Cron one without a log, as the hook declares it.      *)
(*                                                                         *)
(* Time is the number of boundaries of the cron expression that are still  *)
(* ahead until the next execution: 0 is due.                               *)
(***************************************************************************)
EXTENDS Naturals, FiniteSets, Sequences

CONSTANTS User,         \* users who press Execute
          Worker,       \* RQ workers
          Every,        \* save_to_db commits when record_count % 100 == 0
          Limit,        \* ... and goes on while record_count <= 10000
          MaxAhead,     \* bound: boundaries until the next execution
          MaxRecords,   \* bound: deferred records
          MaxList,      \* bound: records of one call of deferred_insert
          MaxFaults     \* bound: crashes, failures of Redis and of a statement,
                        \* and times a user presses Execute or Skip

ASSUME SchedulerAssumption ==
  /\ IsFiniteSet(User) /\ IsFiniteSet(Worker)
  /\ {MaxRecords, MaxFaults, Limit} \subseteq Nat
  /\ {Every, MaxAhead, MaxList} \subseteq Nat \ {0}
  /\ "scheduler" \notin User

VARIABLES
  ahead,      \* boundaries until the next execution
  entries,    \* how often the job id is in the RQ queue
  rq,         \* the status of the RQ job
  at,         \* where caller c of `enqueue` is
  loaded,     \* the scheduler's copy of the job type is due
  queue,      \* insert_queue_for_<doctype>: a list of lists of records
  single,     \* the records of the doctype are pushed one by one, as dicts
  phase,      \* what worker w does
  hand,       \* the records w has popped and not inserted
  inserted,   \* the records w has inserted and not committed
  count,      \* w's record_count
  broken,     \* w's transaction is aborted
  stored,     \* the committed records
  rejected,   \* records whose insert raised, or that Redis did not take
  pushed,     \* history: number of records, which are 1 .. pushed
  ran,        \* history: runs begun since the last boundary
  faults, causes  \* history: faults and users, what explains a surprise

job     == <<entries, rq>>
callers == <<at, loaded>>
deferred == <<queue, single, pushed>>
runs    == <<phase, hand, inserted, count, broken>>
records == <<stored, rejected>>
history == <<faults, causes>>
vars == <<ahead, ran, job, callers, deferred, runs, records, history>>

Caller == {"scheduler"} \cup User
Record == 1 .. MaxRecords
Causes == {"stale", "forced", "skipped", "crashed", "dropped", "overlap", "aborted", "refused",
           "restarted"}

TypeOK ==
  /\ ahead \in 0 .. MaxAhead /\ ran \in Nat
  /\ entries \in Nat /\ rq \in {"none", "queued", "started", "ended"}
  /\ at \in [Caller -> {"out", "loaded", "enqueue"}] /\ loaded \in BOOLEAN
  /\ queue \in Seq(Seq(Record) \ {<< >>}) /\ single \in BOOLEAN
  /\ single => \A i \in DOMAIN queue : Len(queue[i]) = 1
  /\ pushed \in 0 .. MaxRecords
  /\ phase \in [Worker -> {"idle", "popped", "loop", "pop"}]
  /\ hand \in [Worker -> Seq(Record)] /\ inserted \in [Worker -> SUBSET Record]
  /\ count \in [Worker -> Nat] /\ broken \in [Worker -> BOOLEAN]
  /\ \A w \in Worker : hand[w] # << >> \/ inserted[w] # {} \/ broken[w]
                         => phase[w] \in {"loop", "pop"}
  /\ stored \subseteq Record /\ rejected \subseteq Record
  /\ faults \in Nat /\ causes \subseteq Causes

Init ==
  /\ ahead = 0 /\ ran = 0
  /\ entries = 0 /\ rq = "none"
  /\ at = [c \in Caller |-> "out"] /\ loaded = FALSE
  /\ queue = << >> /\ single \in BOOLEAN /\ pushed = 0
  /\ phase = [w \in Worker |-> "idle"] /\ hand = [w \in Worker |-> << >>]
  /\ inserted = [w \in Worker |-> {}] /\ count = [w \in Worker |-> 0]
  /\ broken = [w \in Worker |-> FALSE]
  /\ stored = {} /\ rejected = {}
  /\ faults = 0 /\ causes = {}

-----------------------------------------------------------------------------
(* Helpers.                                                                *)

MIsJobInQueue == rq # "none"

IsJobInQueue == rq \in {"queued", "started"}

IsDue == ahead = 0

MExecuted == ahead' = ahead

(* last_execution is now: the next one is at the next boundary.            *)
Executed == ahead' = 1

Fault(c) ==
  /\ faults < MaxFaults
  /\ faults' = faults + 1
  /\ causes' = causes \cup {c}

(* The records of a list.                                                  *)
In(s) == {s[i] : i \in DOMAIN s}

-----------------------------------------------------------------------------
(* Time, and skip_next_execution: last_execution becomes next_execution,   *)
(* which may be long ago.                                                  *)

PeriodPasses ==
  /\ ahead' = IF ahead = 0 THEN 0 ELSE ahead - 1
  /\ ran' = 0
  /\ UNCHANGED <<job, callers, deferred, runs, records, history>>

Skip ==
  /\ Fault("skipped")
  /\ ahead < MaxAhead
  /\ ahead' = ahead + 1 \/ (ahead = 0 /\ ahead' = 0)
  /\ UNCHANGED <<ran, job, callers, deferred, runs, records>>

-----------------------------------------------------------------------------
(* enqueue.                                                                *)

(* enqueue_events reads all job types before it looks at the first.        *)
Load ==
  /\ at["scheduler"] = "out"
  /\ at' = [at EXCEPT !["scheduler"] = "loaded"]
  /\ loaded' = IsDue
  /\ UNCHANGED <<ahead, ran, job, deferred, runs, records, history>>

(* is_event_due for the copy, and is_job_in_queue.                         *)
Check ==
  LET goes == loaded /\ ~IsJobInQueue IN
    /\ at["scheduler"] = "loaded"
    /\ at' = [at EXCEPT !["scheduler"] = IF goes THEN "enqueue" ELSE "out"]
    /\ loaded' = FALSE
    /\ causes' = IF goes /\ ~IsDue THEN causes \cup {"stale"} ELSE causes
    /\ UNCHANGED <<ahead, ran, job, deferred, runs, records, faults>>

(* execute_event: enqueue(force=True).                                     *)
ExecuteEvent(u) ==
  /\ at[u] = "out" /\ ~IsJobInQueue
  /\ at' = [at EXCEPT ![u] = "enqueue"]
  /\ Fault("forced")
  /\ UNCHANGED <<ahead, ran, job, loaded, deferred, runs, records>>

(* The job is queued with its id, without another look at the queue.       *)
Enqueue(c) ==
  /\ at[c] = "enqueue"
  /\ entries' = entries + 1 /\ rq' = "queued"
  /\ at' = [at EXCEPT ![c] = "out"]
  /\ UNCHANGED <<ahead, ran, loaded, deferred, runs, records, history>>

-----------------------------------------------------------------------------
(* deferred_insert.                                                        *)

Batches == {[i \in 1 .. k |-> pushed + i] : k \in 1 .. IF single THEN 1 ELSE MaxList}

Push(b) ==
  /\ pushed + Len(b) <= MaxRecords
  /\ pushed' = pushed + Len(b)
  /\ queue' = Append(queue, b)
  /\ UNCHANGED <<ahead, ran, job, callers, single, runs, records, history>>

(* Redis is down: the caller inserts the records of a list itself, but of  *)
(* a dict it takes the keys for records, and each one's insert fails.      *)
PushFails(b) ==
  /\ pushed + Len(b) <= MaxRecords
  /\ Fault("refused")
  /\ pushed' = pushed + Len(b)
  /\ IF single THEN rejected' = rejected \cup In(b) /\ UNCHANGED stored
     ELSE stored' = stored \cup In(b) /\ UNCHANGED rejected
  /\ UNCHANGED <<ahead, ran, job, callers, queue, single, runs>>

(* "Redis can be restarted before data is flushed to database."            *)
RedisRestarts ==
  /\ queue # << >> /\ Fault("restarted")
  /\ queue' = << >>
  /\ UNCHANGED <<ahead, ran, job, callers, single, pushed, runs, records>>

-----------------------------------------------------------------------------
(* The worker: execute, and save_to_db.                                    *)

Pop(w) ==
  /\ phase[w] = "idle" /\ entries > 0
  /\ entries' = entries - 1
  /\ phase' = [phase EXCEPT ![w] = "popped"]
  /\ UNCHANGED <<ahead, ran, rq, callers, deferred, hand, inserted, count, broken,
                 records, history>>

(* log_status("Start").                                                    *)
Start(w) ==
  /\ phase[w] = "popped"
  /\ rq' = "started"
  /\ Executed /\ ran' = ran + 1
  /\ phase' = [phase EXCEPT ![w] = "loop"]
  /\ UNCHANGED <<entries, callers, deferred, hand, inserted, count, broken,
                 records, history>>

GoesOn(w) == queue # << >> /\ count[w] <= Limit

(* llen, and then lpop.                                                    *)
Look(w) ==
  /\ phase[w] = "loop" /\ hand[w] = << >> /\ GoesOn(w)
  /\ phase' = [phase EXCEPT ![w] = "pop"]
  /\ UNCHANGED <<ahead, ran, job, callers, deferred, hand, inserted, count, broken,
                 records, history>>

MRest == queue

Rest == Tail(queue)

Take(w) ==
  /\ phase[w] = "pop" /\ queue # << >>
  /\ queue' = Rest
  /\ hand' = [hand EXCEPT ![w] = Head(queue)]
  /\ phase' = [phase EXCEPT ![w] = "loop"]
  /\ UNCHANGED <<ahead, ran, job, callers, single, pushed, inserted, count, broken,
                 records, history>>

MEnds(w) ==
  /\ phase' = [phase EXCEPT ![w] = "idle"]
  /\ rq' = "ended"
  /\ UNCHANGED <<hand, inserted, count, broken>>

(* A run ends, and its job with it.                                        *)
Ends(w) ==
  /\ phase' = [phase EXCEPT ![w] = "idle"] /\ hand' = [hand EXCEPT ![w] = << >>]
  /\ inserted' = [inserted EXCEPT ![w] = {}] /\ count' = [count EXCEPT ![w] = 0]
  /\ broken' = [broken EXCEPT ![w] = FALSE]
  /\ rq' = "ended"

(* Another run took the last list: None.decode raises.  Rollback, and      *)
(* log_status("Failed").                                                   *)
Fail(w) ==
  /\ phase[w] = "pop" /\ queue = << >>
  /\ Ends(w) /\ Executed
  /\ causes' = causes \cup {"overlap"}
  /\ UNCHANGED <<ran, entries, callers, deferred, records, faults>>

MIsCommitTime(w) == FALSE

(* After the `continue` of a dict there is no commit.                      *)
IsCommitTime(w) == ~single /\ (count[w] + 1) % Every = 0

(* insert_record of the next record: all is well, or a check of the new    *)
(* document raises, or a statement fails; both are logged, and the latter  *)
(* aborts the transaction: what follows fails, and the commit is a         *)
(* rollback.                                                               *)
Insert(w) ==
  LET r == Head(hand[w])
      Written(done, isBroken) ==
        IF IsCommitTime(w)
        THEN /\ stored' = IF isBroken THEN stored ELSE stored \cup done
             /\ inserted' = [inserted EXCEPT ![w] = {}]
             /\ broken' = [broken EXCEPT ![w] = FALSE]
        ELSE /\ inserted' = [inserted EXCEPT ![w] = done]
             /\ broken' = [broken EXCEPT ![w] = isBroken]
             /\ UNCHANGED stored
  IN
  /\ phase[w] = "loop" /\ hand[w] # << >>
  /\ \/ /\ ~broken[w]
        /\ Written(inserted[w] \cup {r}, FALSE)
        /\ UNCHANGED <<rejected, history>>
     \/ /\ Written(inserted[w], broken[w])
        /\ rejected' = rejected \cup {r}
        /\ UNCHANGED history
     \/ /\ Fault("aborted")
        /\ Written(inserted[w], TRUE)
        /\ rejected' = rejected \cup {r}
  /\ hand' = [hand EXCEPT ![w] = Tail(@)]
  /\ count' = [count EXCEPT ![w] = @ + 1]
  /\ UNCHANGED <<ahead, ran, job, callers, deferred, phase>>

(* Commit, and log_status("Complete").  The doctypes whose lists the run    *)
(* empties before and after, with their own counts, are left out.          *)
Finish(w) ==
  /\ phase[w] = "loop" /\ hand[w] = << >> /\ ~GoesOn(w)
  /\ stored' = IF broken[w] THEN stored ELSE stored \cup inserted[w]
  /\ Ends(w) /\ Executed
  /\ UNCHANGED <<ran, entries, callers, deferred, rejected, history>>

(* The worker dies with the job it took, before RQ marks it started: by    *)
(* its status it is queued, and whoever looks finds it so.                 *)
Drop(w) ==
  /\ phase[w] = "popped" /\ Fault("dropped")
  /\ phase' = [phase EXCEPT ![w] = "idle"]
  /\ UNCHANGED <<ahead, ran, job, callers, deferred, hand, inserted, count, broken,
                 records>>

(* The worker dies after that, also before log_status("Start"); RQ still   *)
(* says started ...                                                        *)
Crash(w) ==
  /\ phase[w] # "idle" /\ Fault("crashed")
  /\ rq' = IF phase[w] = "popped" THEN "started" ELSE rq
  /\ phase' = [phase EXCEPT ![w] = "idle"] /\ hand' = [hand EXCEPT ![w] = << >>]
  /\ inserted' = [inserted EXCEPT ![w] = {}] /\ count' = [count EXCEPT ![w] = 0]
  /\ broken' = [broken EXCEPT ![w] = FALSE]
  /\ UNCHANGED <<ahead, ran, entries, callers, deferred, records>>

(* ... until it finds that nobody renews the job.                          *)
Abandon ==
  /\ rq = "started" /\ \A w \in Worker : phase[w] = "idle"
  /\ rq' = "ended"
  /\ UNCHANGED <<ahead, ran, entries, callers, deferred, runs, records, history>>

-----------------------------------------------------------------------------
Ticks == Load \/ Check \/ Enqueue("scheduler")

Works(w) ==
  \/ Pop(w) \/ Start(w) \/ Look(w) \/ Take(w) \/ Fail(w) \/ Insert(w) \/ Finish(w)

Next ==
  \/ PeriodPasses \/ Skip \/ Ticks \/ Abandon
  \/ (\E u \in User : ExecuteEvent(u) \/ Enqueue(u))
  \/ (\E b \in Batches : Push(b) \/ PushFails(b)) \/ RedisRestarts
  \/ (\E w \in Worker : Works(w) \/ Drop(w) \/ Crash(w))

Spec == Init /\ [][Next]_vars

(* Time passes, the scheduler ticks, workers go on, RQ finds lost jobs.    *)
Fairness ==
  /\ WF_vars(PeriodPasses) /\ WF_vars(Ticks) /\ WF_vars(Abandon)
  /\ \A w \in Worker : WF_vars(Works(w))

FairSpec == Spec /\ Fairness

-----------------------------------------------------------------------------
(* Properties.                                                             *)

IsQueued(r) == \E i \in DOMAIN queue : r \in In(queue[i])

(* The lists, runs and tables that have the record.                        *)
Places(r) ==
  {<<"queue", i>> : i \in {j \in DOMAIN queue : r \in In(queue[j])}}
  \cup {<<"hand", w>> : w \in {v \in Worker : r \in In(hand[v])}}
  \cup {<<"inserted", w>> : w \in {v \in Worker : r \in inserted[v]}}
  \cup {<<"table", s>> : s \in {t \in {"stored", "rejected"} :
                                   r \in IF t = "stored" THEN stored ELSE rejected}}

(* A deferred record is never inserted twice, however many runs empty the  *)
(* list at once, and it is always somewhere: in the list, with one run, or *)
(* in the database or the log of what was refused.  It is lost only if     *)
(* Redis restarts, a run dies, a run finds the list empty that was not, or *)
(* a statement fails.                                                      *)
NothingLost ==
  \A r \in 1 .. pushed :
    /\ Cardinality(Places(r)) <= 1
    /\ causes \cap {"crashed", "overlap", "aborted", "restarted"} = {}
         => Places(r) # {}

(* What a rollback or a crash of a run undoes of this doctype is less than *)
(* a hundred records that came in lists; of records that came one by one   *)
(* it is all that the run took.  save_to_db goes through the doctypes in   *)
(* one transaction, so what is left of each of them adds up.               *)
LossIsBounded ==
  \A w \in Worker :
    Cardinality(inserted[w]) <= IF single THEN Limit + 1 ELSE Every - 1

(* Without Execute in the form, the job begins once in a period, even if   *)
(* its worker dies in it; or twice, if the scheduler had read the job type *)
(* before the first run began and looked for the job after its end.        *)
OncePerPeriod ==
  "forced" \notin causes => ran <= IF "stale" \in causes THEN 2 ELSE 1

(* The job is queued by its status alone: is_job_in_queue says so to the   *)
(* scheduler and to Execute, and nobody will run it.                       *)
Stranded ==
  /\ "dropped" \in causes /\ rq = "queued"
  /\ entries = 0 /\ \A w \in Worker : phase[w] = "idle"

(* Deferred records do not stay in the list, whatever fails, except that   *)
(* nobody empties it when the worker died that took the job and had not    *)
(* marked it started; and without faults, and without Execute, they are    *)
(* stored or refused.                                                      *)
RecordsArrive ==
  \A r \in Record :
    IsQueued(r) ~> \/ Stranded
                   \/ /\ ~IsQueued(r)
                      /\ causes \subseteq {"stale", "skipped"} => r \in stored \cup rejected
=============================================================================
