--------------------------- MODULE SubmissionQueue ---------------------------
(***************************************************************************)
(* Submitting or cancelling one document in the background:                *)
(* core/doctype/submission_queue, the document's lock file, execute_action *)
(* in the workers, and the event of the change that exe_bridge writes to   *)
(* another database, where it is committed at once.                        *)
(*                                                                         *)
(* The module Document has the steps of a save; here a save in a request   *)
(* is one step, done or undone, and the one of a job is open until the     *)
(* job's commit.  The document's versions are the values of `modified`.    *)
(***************************************************************************)
EXTENDS Naturals, FiniteSets, Sequences

CONSTANTS Session,     \* web requests
          Worker,      \* RQ workers
          MaxRows,     \* bound: rows of the Submission Queue
          MaxStamp,    \* bound: calls of now()
          MaxFaults    \* bound: crashes and failures of Redis

ASSUME QueueAssumption ==
  /\ IsFiniteSet(Session) /\ IsFiniteSet(Worker)
  /\ {MaxRows, MaxStamp, MaxFaults} \subseteq Nat

VARIABLES
  version, docstatus,  \* the committed document
  lock,                \* its lock file: "none", "held", or "expired"
  row,                 \* the committed rows of the Submission Queue
  jobs,                \* the rows with a job in the RQ queue
  at, want,            \* where session s is, and what it wants
  phase, cur,          \* where worker w is, and the row it works on
  wrote,               \* the version w has written and not committed, or 0
  event,               \* event[t]: the version in the event of type t, or 0
  clock,               \* the last value of now()
  latest,              \* history: the last committed version of each type
  faults, causes       \* history: faults, and what can explain a surprise

document == <<version, docstatus, latest>>
requests == <<at, want>>
workers  == <<phase, cur, wrote>>
history  == <<faults, causes>>
vars == <<document, lock, row, jobs, requests, workers, event, clock, history>>

Actions == {"Submit", "Cancel"}
Types   == {"updated", "submitted", "cancelled"}
Wish    == [action : Actions, version : Nat]
Statuses == {"Queued", "Finished", "Failed", "Cleared"}
Causes  == {"expired", "forced", "raced", "unqueued", "crashed", "unnotified", "undone", "lost"}
Row     == [status : Statuses, action : Actions, version : Nat]

TypeOK ==
  /\ version \in Nat /\ docstatus \in 0 .. 2
  /\ lock \in {"none", "held", "expired"}
  /\ row \in Seq(Row)
  /\ jobs \subseteq {r \in DOMAIN row : row[r].status = "Queued"}
  /\ at \in [Session -> {"out", "checked", "stale", "tested", "locked"}]
  /\ want \in [Session -> Wish]
  /\ phase \in [Worker -> {"idle", "started", "acted", "failed"}]
  /\ cur \in [Worker -> 0 .. Len(row)]
  /\ \A w \in Worker :
       IF phase[w] = "idle" THEN cur[w] = 0 /\ wrote[w] = 0
       ELSE cur[w] # 0 /\ row[cur[w]].status = "Queued"
  /\ wrote \in [Worker -> Nat] /\ clock \in Nat
  /\ event \in [Types -> Nat] /\ latest \in [Types -> Nat]
  /\ faults \in Nat
  /\ causes \subseteq Causes

NoWish == [action |-> "Submit", version |-> 0]

Init ==
  /\ version = 0 /\ docstatus = 0 /\ lock = "none"
  /\ row = << >> /\ jobs = {}
  /\ at = [s \in Session |-> "out"]
  /\ want = [s \in Session |-> NoWish]
  /\ phase = [w \in Worker |-> "idle"] /\ cur = [w \in Worker |-> 0]
  /\ wrote = [w \in Worker |-> 0]
  /\ event = [t \in Types |-> 0] /\ latest = [t \in Types |-> 0]
  /\ clock = 0 /\ faults = 0 /\ causes = {}

-----------------------------------------------------------------------------
(* Helpers.                                                                *)

QueuedRows == {r \in DOMAIN row : row[r].status = "Queued"}

(* Document.is_locked.                                                     *)
IsLocked == lock = "held"

(* A request ends.                                                         *)
Leaves(s) ==
  /\ at' = [at EXCEPT ![s] = "out"]
  /\ want' = [want EXCEPT ![s] = NoWish]

MRowIsHeld == FALSE

(* check_if_latest reads FOR UPDATE: some job has written the document and *)
(* holds its row.                                                          *)
RowIsHeld == \E w \in Worker : phase[w] = "acted"

(* _emit_event, for the types that hooks.py wires: the row of this type is *)
(* overwritten, or nothing happens, if the bridge is not there.            *)
Emit(T, n) ==
  \/ /\ event' = [t \in Types |-> IF t \in T THEN n ELSE event[t]]
     /\ UNCHANGED history
  \/ /\ faults < MaxFaults
     /\ faults' = faults + 1
     /\ causes' = causes \cup {"lost"}
     /\ UNCHANGED event

Fault(c) ==
  /\ faults < MaxFaults
  /\ faults' = faults + 1
  /\ causes' = causes \cup {c}

-----------------------------------------------------------------------------
(* Web requests.                                                           *)

(* A draft is saved, or a submitted document is updated; the latter has no *)
(* event.  Only a save from the latest version is of interest here.        *)
Save ==
  /\ ~IsLocked /\ ~RowIsHeld
  /\ docstatus # 2 /\ clock < MaxStamp
  /\ clock' = clock + 1 /\ version' = clock + 1
  /\ IF docstatus = 0
     THEN /\ Emit({"updated"}, clock + 1)
          /\ latest' = [latest EXCEPT !["updated"] = clock + 1]
     ELSE UNCHANGED <<event, latest, history>>
  /\ UNCHANGED <<docstatus, lock, row, jobs, requests, workers>>

(* A draft is saved and the request fails after the event: a later hook    *)
(* raises, or its process dies before the commit.                          *)
SaveFails ==
  /\ ~IsLocked /\ ~RowIsHeld
  /\ docstatus = 0 /\ clock < MaxStamp
  /\ clock' = clock + 1
  /\ event' = [event EXCEPT !["updated"] = clock + 1]
  /\ causes' = causes \cup {"undone"}
  /\ UNCHANGED <<document, lock, row, jobs, requests, workers, faults>>

(* queue_submission: nothing to do if the document is queued.  A document  *)
(* to submit comes from the form of a draft, perhaps an old one, one to    *)
(* cancel from the database.                                               *)
AskFor(s, a, n) ==
  /\ at[s] = "out"
  /\ QueuedRows = {}
  /\ Len(row) < MaxRows
  /\ \/ a = "Submit" /\ n <= version /\ (docstatus = 0 \/ n < latest["submitted"])
     \/ a = "Cancel" /\ n = version /\ docstatus = 1
  /\ want' = [want EXCEPT ![s] = [action |-> a, version |-> n]]
  /\ at' = [at EXCEPT ![s] = "checked"]
  /\ UNCHANGED <<document, lock, row, jobs, workers, event, clock, history>>

(* The requests that are between their look for the file and its creation. *)
Locking == {s \in Session : at[s] \in {"stale", "tested"}}

MMayLock == TRUE

(* lock: a held lock refuses ...                                           *)
MayLock == lock # "held"

(* ... insert, after_insert, queue_action, lock: the file is looked for,   *)
(* and its age.                                                            *)
TestLock(s) ==
  /\ at[s] = "checked" /\ MayLock
  /\ at' = [at EXCEPT ![s] = IF lock = "expired" THEN "stale" ELSE "tested"]
  /\ UNCHANGED <<document, lock, row, jobs, want, workers, event, clock, history>>

(* The file that had expired is deleted, or the one made since.            *)
DeleteLock(s) ==
  /\ at[s] = "stale"
  /\ lock' = "none"
  /\ at' = [at EXCEPT ![s] = "tested"]
  /\ UNCHANGED <<document, row, jobs, want, workers, event, clock, history>>

(* create_lock: "prone to race conditions".  It leaves a file that is      *)
(* there since the test alone, and lock() does not ask whether it made it. *)
(* If that file is older than ten minutes, create_lock raises (Abort).     *)
CreateLock(s) ==
  /\ at[s] = "tested" /\ lock # "expired"
  /\ lock' = "held"
  /\ at' = [at EXCEPT ![s] = "locked"]
  /\ causes' = IF Locking \ {s} # {} THEN causes \cup {"raced"} ELSE causes
  /\ UNCHANGED <<document, row, jobs, want, workers, event, clock, faults>>

(* DocumentLockedError.                                                    *)
Refuse(s) ==
  /\ at[s] = "checked" /\ ~MayLock
  /\ Leaves(s)
  /\ UNCHANGED <<document, lock, row, jobs, workers, event, clock, history>>

NewRow(s) == [status |-> "Queued", action |-> want[s].action, version |-> want[s].version]

(* The request's commit, and after it the job.                             *)
Commit(s) ==
  /\ at[s] = "locked" /\ Len(row) < MaxRows
  /\ row' = Append(row, NewRow(s))
  /\ jobs' = jobs \cup {Len(row) + 1}
  /\ Leaves(s)
  /\ UNCHANGED <<document, lock, workers, event, clock, history>>

(* The row is committed but its job cannot be queued.                      *)
CommitOnly(s) ==
  /\ at[s] = "locked" /\ Len(row) < MaxRows
  /\ row' = Append(row, NewRow(s))
  /\ Fault("unqueued")
  /\ Leaves(s)
  /\ UNCHANGED <<document, lock, jobs, workers, event, clock>>

(* The request fails in lock, in enqueue or later; a file it made stays.   *)
Abort(s) ==
  /\ at[s] # "out"
  /\ Leaves(s)
  /\ UNCHANGED <<document, lock, row, jobs, workers, event, clock, history>>

(* Three hours.                                                            *)
Expire ==
  /\ lock = "held"
  /\ lock' = "expired"
  /\ causes' = causes \cup {"expired"}
  /\ UNCHANGED <<document, row, jobs, requests, workers, event, clock, faults>>

(* unlock_doc of a queued row, or Force Unlock in the form.                *)
ForceUnlock ==
  /\ lock # "none"
  /\ lock' = "none"
  /\ causes' = causes \cup {"forced"}
  /\ UNCHANGED <<document, row, jobs, requests, workers, event, clock, faults>>

(* clear_old_logs, when nobody works on the row any more.                  *)
ClearOldLogs(r) ==
  /\ row[r].status # "Cleared"
  /\ r \notin jobs /\ \A w \in Worker : cur[w] # r
  /\ row' = [row EXCEPT ![r].status = "Cleared"]
  /\ UNCHANGED <<document, lock, jobs, requests, workers, event, clock, history>>

-----------------------------------------------------------------------------
(* Workers.                                                                *)

(* execute_action removes the lock file, whoever made it; update_job_id    *)
(* commits.                                                                *)
Start(w, r) ==
  /\ phase[w] = "idle" /\ r \in jobs
  /\ jobs' = jobs \ {r}
  /\ lock' = "none"
  /\ phase' = [phase EXCEPT ![w] = "started"] /\ cur' = [cur EXCEPT ![w] = r]
  /\ UNCHANGED <<document, row, requests, wrote, event, clock, history>>

MIsCurrent(w) == TRUE

(* check_if_latest, for the document as it was when it was queued.         *)
IsCurrent(w) == row[cur[w]].version = version

From(a) == IF a = "Submit" THEN 0 ELSE 1

EventsOf(a) == IF a = "Submit" THEN {"updated", "submitted"} ELSE {"cancelled"}

(* submit or cancel; a cancelled document admits neither.  What it writes  *)
(* is not committed, its event is.                                         *)
Act(w) ==
  LET a == row[cur[w]].action IN
    /\ phase[w] = "started" /\ ~RowIsHeld
    /\ ~IsLocked /\ IsCurrent(w) /\ docstatus # 2
    /\ clock < MaxStamp
    /\ clock' = clock + 1
    /\ wrote' = [wrote EXCEPT ![w] = clock + 1]
    /\ phase' = [phase EXCEPT ![w] = "acted"]
    /\ Emit(EventsOf(a), clock + 1)
    /\ UNCHANGED <<document, lock, row, jobs, requests, cur>>

(* ... or it raises: the document is locked or changed, or a check or hook *)
(* of it says no, perhaps after the event (check_no_back_links_exist).     *)
ActFails(w) ==
  /\ phase[w] = "started" \/ phase[w] = "acted"
  /\ phase' = [phase EXCEPT ![w] = "failed"]
  /\ wrote' = [wrote EXCEPT ![w] = 0]
  /\ causes' = IF phase[w] = "acted" THEN causes \cup {"undone"} ELSE causes
  /\ UNCHANGED <<document, lock, row, jobs, requests, cur, event, clock, faults>>

MLeave(w) ==
  phase' = [phase EXCEPT ![w] = "idle"] /\ UNCHANGED <<cur, wrote>>

Leave(w) ==
  /\ phase' = [phase EXCEPT ![w] = "idle"]
  /\ cur' = [cur EXCEPT ![w] = 0]
  /\ wrote' = [wrote EXCEPT ![w] = 0]

MOutcome(w) == IF phase[w] = "acted" THEN "Finished" ELSE "Queued"

Outcome(w) == IF phase[w] = "acted" THEN "Finished" ELSE "Failed"

(* The status is set, the user is notified, and the job commits.           *)
Conclude(w) ==
  LET r == cur[w]
      a == row[r].action
      T == EventsOf(a)
  IN
  /\ phase[w] \in {"acted", "failed"}
  /\ row' = [row EXCEPT ![r].status = Outcome(w)]
  /\ IF phase[w] = "acted"
     THEN /\ version' = wrote[w] /\ docstatus' = From(a) + 1
          /\ latest' = [t \in Types |-> IF t \in T THEN wrote[w] ELSE latest[t]]
     ELSE UNCHANGED document
  /\ Leave(w)
  /\ UNCHANGED <<lock, jobs, requests, event, clock, history>>

(* What was done is undone, and the row stays as it is.                    *)
Undo(w, c) ==
  /\ faults < MaxFaults
  /\ faults' = faults + 1
  /\ causes' = causes \cup {c} \cup IF phase[w] = "acted" THEN {"undone"} ELSE {}
  /\ Leave(w)
  /\ UNCHANGED <<document, lock, row, jobs, requests, event, clock>>

(* notify raises: execute_action rolls back the status and the document.   *)
NotifyFails(w) == phase[w] \in {"acted", "failed"} /\ Undo(w, "unnotified")

(* The worker dies.                                                        *)
Crash(w) == phase[w] # "idle" /\ Undo(w, "crashed")

-----------------------------------------------------------------------------
Requests(s) ==
  \/ \E a \in Actions, n \in 0 .. MaxStamp : AskFor(s, a, n)
  \/ TestLock(s) \/ DeleteLock(s) \/ CreateLock(s)
  \/ Refuse(s) \/ Commit(s) \/ CommitOnly(s) \/ Abort(s)

Works(w) ==
  \/ (\E r \in jobs : Start(w, r))
  \/ Act(w) \/ ActFails(w) \/ Conclude(w)

Next ==
  \/ Save \/ SaveFails \/ Expire \/ ForceUnlock
  \/ (\E s \in Session : Requests(s))
  \/ (\E w \in Worker : Works(w) \/ NotifyFails(w) \/ Crash(w))
  \/ (\E r \in DOMAIN row : ClearOldLogs(r))

Spec == Init /\ [][Next]_vars

(* Workers take jobs and go on with them; old logs are cleared every day.  *)
Fairness ==
  /\ \A w \in Worker : WF_vars(Works(w))
  /\ \A r \in 1 .. MaxRows : WF_vars(r \in DOMAIN row /\ ClearOldLogs(r))

FairSpec == Spec /\ Fairness

-----------------------------------------------------------------------------
(* Properties.                                                             *)

Finished(a) == {r \in DOMAIN row : row[r].status = "Finished" /\ row[r].action = a}

(* However many rows were queued for one change of the document, by stale  *)
(* requests or after an unlock, at most one of them is Finished, and only  *)
(* when the document really has that change: never Finished for what was   *)
(* rolled back.                                                            *)
FinishedOnce ==
  \A a \in Actions :
    /\ Cardinality(Finished(a)) <= 1
    /\ Finished(a) # {} => docstatus > From(a)

(* A request that looked for a Queued row before another one's commit is   *)
(* stopped by the lock: at most one job waits for the document, and its    *)
(* lock is there.  Two can wait only if a request makes its lock file      *)
(* between another one's look for the file and its own creation of it, or  *)
(* if a lock expires or is removed by hand.                                *)
WaitsAlone ==
  causes \cap {"raced", "expired", "forced"} = {} =>
    /\ Cardinality(jobs) <= 1
    /\ jobs # {} => lock = "held" /\ \A s \in Session : at[s] # "locked"

(* The bridge's last event of a type has the version of the last committed *)
(* change of that type, or of the one that is about to be committed,       *)
(* unless an event was lost or what it told of was undone.                 *)
EventsAreExact ==
  causes \cap {"lost", "undone"} = {} =>
    \A t \in Types :
      \/ event[t] = latest[t]
      \/ \E w \in Worker : /\ phase[w] = "acted" /\ event[t] = wrote[w]
                           /\ t \in EventsOf(row[cur[w]].action)

(* A Queued row, which refuses every other request for the document, does  *)
(* not stay: without faults its job decides it, and with them it is there  *)
(* until it is cleared.                                                    *)
RowsEnd ==
  \A r \in 1 .. MaxRows :
    LET Is(S) == r \in DOMAIN row /\ row[r].status \in S
    IN /\ Is({"Queued"}) ~> Is({"Finished", "Failed", "Cleared"})
       /\ [](faults = 0) => (Is({"Queued"}) ~> Is({"Finished", "Failed"}))
=============================================================================
