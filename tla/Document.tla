------------------------------ MODULE Document ------------------------------
(***************************************************************************)
(* One document (frappe/model/document.py) under concurrent web requests   *)
(* and background actions.  Every request runs in one PostgreSQL           *)
(* transaction at REPEATABLE READ, so `SELECT ... FOR UPDATE` waits for    *)
(* the row lock and fails if the row changed after the snapshot.           *)
(*                                                                         *)
(* The content of a row is the set `edits` of the stamps of the changes    *)
(* that are in it: a change that overwrites another one is a row whose     *)
(* `edits` misses a stamp.                                                 *)
(***************************************************************************)
EXTENDS Naturals

CONSTANTS Session,        \* web request workers, each serving one open form
          Worker,         \* RQ workers
          NoProc,         \* nobody holds the row lock
          Unsubmittable,  \* meta.is_submittable is off
          MaxStamp,       \* bound: calls of now()
          MaxQueued       \* bound: calls of queue_action

Proc == Session \cup Worker

ASSUME DocumentAssumption ==
  /\ NoProc \notin Proc
  /\ Session \cap Worker = {}
  /\ Unsubmittable \in BOOLEAN
  /\ MaxStamp \in Nat
  /\ MaxQueued \in Nat

Draft     == 0
Submitted == 1
Cancelled == 2
DocStatus == {Draft, Submitted, Cancelled}

Stamp == 0 .. MaxStamp
Row   == [modified : Stamp, docstatus : DocStatus, edits : SUBSET Stamp]

VARIABLES
  db,        \* the committed row
  rowLock,   \* the process whose open transaction has locked the row
  lock,      \* the lock file: "none", "held", or "expired" (older than 3 h)
  clock,     \* the last value returned by now()
  phase,     \* phase[p]: where p is in its request or job
  act,       \* act[p]: "save", "discard" or "db_set"
  snap,      \* snap[p]: the row in the snapshot of p's transaction
  doc,       \* doc[p]: the Document object in memory, then the row written
  orig,      \* orig[p]: the object's _original_modified
  form,      \* form[s]: the copy in the client of session s
  jobs,      \* jobs[k]: queued execute_action jobs that set docstatus k
  queued,    \* how many times queue_action was called
  orphaned   \* history: who was to remove the lock file is gone

vars == <<db, rowLock, lock, clock, phase, act, snap, doc, orig, form, jobs,
          queued, orphaned>>

Phases == {"idle", "locking", "queued", "loaded", "unlocked", "saving",
           "written"}

NewRow == [modified |-> 0, docstatus |-> Draft, edits |-> {0}]

TypeOK ==
  /\ db \in Row
  /\ rowLock \in Proc \cup {NoProc}
  /\ lock \in {"none", "held", "expired"}
  /\ clock \in Stamp
  /\ phase \in [Proc -> Phases]
  /\ act \in [Proc -> {"save", "discard", "db_set"}]
  /\ snap \in [Proc -> Row]
  /\ doc \in [Proc -> Row]
  /\ orig \in [Proc -> Stamp]
  /\ form \in [Session -> Row]
  /\ jobs \in [{Submitted, Cancelled} -> Nat]
  /\ queued \in Nat
  /\ orphaned \in BOOLEAN

Init ==
  /\ db = NewRow
  /\ rowLock = NoProc
  /\ lock = "none"
  /\ clock = 0
  /\ phase = [p \in Proc |-> "idle"]
  /\ act = [p \in Proc |-> "save"]
  /\ snap = [p \in Proc |-> NewRow]
  /\ doc = [p \in Proc |-> NewRow]
  /\ orig = [p \in Proc |-> 0]
  /\ form = [s \in Session |-> NewRow]
  /\ jobs = [k \in {Submitted, Cancelled} |-> 0]
  /\ queued = 0
  /\ orphaned = FALSE

-----------------------------------------------------------------------------
(* Helpers.                                                                *)

(* Document.is_locked: the file exists and is not older than the expiry.   *)
IsLocked == lock = "held"

MCheckIfLatest(p) == TRUE

(* check_if_latest: the copy was taken from the version that is in the     *)
(* database now.                                                           *)
CheckIfLatest(p) == orig[p] = db.modified

(* check_docstatus_transition.                                             *)
ValidTransition(from, to) ==
  \/ from = Draft /\ to = Draft
  \/ from = Draft /\ to = Submitted /\ ~Unsubmittable
  \/ from = Submitted /\ to \in {Submitted, Cancelled}

(* Who passes the checks between the row lock and the write.               *)
Accepts(p) ==
  CASE act[p] = "save"    -> /\ CheckIfLatest(p)
                             /\ ValidTransition(db.docstatus, doc[p].docstatus)
    [] act[p] = "discard" -> CheckIfLatest(p) /\ doc[p].docstatus = Draft
    [] act[p] = "db_set"  -> TRUE

MDbSet(p, status) == [db EXCEPT !.docstatus = status]

(* db_set writes its own column and `modified`; the rest of the row is     *)
(* what the database has.                                                  *)
DbSet(p, status) ==
  [modified |-> doc[p].modified, docstatus |-> status,
   edits |-> db.edits \cup {doc[p].modified}]

MForUpdate(p) == snap[p] = db

(* load_doc_before_save: SELECT ... FOR UPDATE gets the row, which has not *)
(* changed since the transaction's snapshot.                               *)
ForUpdate(p) == rowLock = NoProc /\ snap[p] = db

(* What the UPDATE writes: a save writes the whole object.                 *)
NewVersion(p) ==
  CASE act[p] = "save"    -> doc[p]
    [] act[p] = "discard" -> DbSet(p, Cancelled)
    [] act[p] = "db_set"  -> DbSet(p, db.docstatus)

(* set_user_and_timestamp on a copy c of the document, which will be saved *)
(* with docstatus k.                                                       *)
Stamped(p, a, c, k) ==
  /\ clock < MaxStamp
  /\ clock' = clock + 1
  /\ phase' = [phase EXCEPT ![p] = "saving"]
  /\ act'   = [act EXCEPT ![p] = a]
  /\ orig'  = [orig EXCEPT ![p] = c.modified]
  /\ doc'   = [doc EXCEPT ![p] = [modified  |-> clock + 1, docstatus |-> k,
                                  edits |-> c.edits \cup {clock + 1}]]

(* The request or the job is over and forgets its objects.                 *)
Finish(p) ==
  /\ phase' = [phase EXCEPT ![p] = "idle"]
  /\ act'   = [act EXCEPT ![p] = "save"]
  /\ snap'  = [snap EXCEPT ![p] = NewRow]
  /\ doc'   = [doc EXCEPT ![p] = NewRow]
  /\ orig'  = [orig EXCEPT ![p] = 0]

-----------------------------------------------------------------------------
(* Web requests.                                                           *)

(* getdoc: the client of s loads the form.                                 *)
Open(s) ==
  /\ phase[s] = "idle"
  /\ form[s] # db
  /\ form' = [form EXCEPT ![s] = db]
  /\ UNCHANGED <<db, rowLock, lock, clock, phase, act, snap, doc, orig, jobs,
                 queued, orphaned>>

BeginOn(s, a, c, k) ==
  /\ phase[s] = "idle"
  /\ snap' = [snap EXCEPT ![s] = db]
  /\ Stamped(s, a, c, k)
  /\ UNCHANGED <<db, rowLock, lock, form, jobs, queued, orphaned>>

(* savedocs: Save, Submit, Update or Cancel the document the client sent.  *)
SaveDocs(s, k) == ~IsLocked /\ BeginOn(s, "save", form[s], k)

(* The cancel endpoint cancels the document as its transaction reads it.   *)
CancelDoc(s) == ~IsLocked /\ BeginOn(s, "save", db, Cancelled)

(* The discard endpoint: the docstatus in memory stays what was read.      *)
DiscardDoc(s) == ~IsLocked /\ BeginOn(s, "discard", db, db.docstatus)

(* db_set called by server code, on a document it may have read long ago.  *)
BeginDbSet(s) == BeginOn(s, "db_set", form[s], form[s].docstatus)

(* queue_action: check_if_locked, then the first half of lock(), which     *)
(* deletes an expired lock file.                                           *)
QueueAction(s, k) ==
  /\ phase[s] = "idle"
  /\ queued < MaxQueued
  /\ ~IsLocked
  /\ lock' = "none"
  /\ queued' = queued + 1
  /\ phase' = [phase EXCEPT ![s] = "locking"]
  /\ doc' = [doc EXCEPT ![s].docstatus = k]
  /\ UNCHANGED <<db, rowLock, clock, act, snap, orig, form, jobs, orphaned>>

(* The second half of lock(): create_lock touches the file, and when       *)
(* another request created it meanwhile does nothing and reports nothing.  *)
(* (On an old file it raises LockTimeoutError: Abort.)                     *)
CreateLock(s) ==
  /\ phase[s] = "locking"
  /\ lock # "expired"
  /\ lock' = "held" /\ orphaned' = FALSE
  /\ phase' = [phase EXCEPT ![s] = "queued"]
  /\ UNCHANGED <<db, rowLock, clock, act, snap, doc, orig, form, jobs, queued>>

(* The request commits, and its after_commit callback enqueues the job.    *)
CommitQueued(s) ==
  /\ phase[s] = "queued"
  /\ jobs' = [jobs EXCEPT ![doc[s].docstatus] = @ + 1]
  /\ Finish(s)
  /\ UNCHANGED <<db, rowLock, lock, clock, form, queued, orphaned>>

(* unlock_document, the "Force Unlock" button.                             *)
UnlockDocument ==
  /\ lock # "none"
  /\ lock' = "none"
  /\ UNCHANGED <<db, rowLock, clock, phase, act, snap, doc, orig, form, jobs,
                 queued, orphaned>>

(* Three hours pass.                                                       *)
LockExpires ==
  /\ lock = "held"
  /\ lock' = "expired"
  /\ UNCHANGED <<db, rowLock, clock, phase, act, snap, doc, orig, form, jobs,
                 queued, orphaned>>

-----------------------------------------------------------------------------
(* execute_action in a worker.                                             *)

Pending(k) == jobs[k] > 0

(* get_doc opens the transaction and reads the document.                   *)
LoadJob(w, k) ==
  /\ phase[w] = "idle"
  /\ Pending(k)
  /\ jobs' = [jobs EXCEPT ![k] = @ - 1]
  /\ phase' = [phase EXCEPT ![w] = "loaded"]
  /\ snap' = [snap EXCEPT ![w] = db]
  /\ doc' = [doc EXCEPT ![w] = [db EXCEPT !.docstatus = k]]
  /\ UNCHANGED <<db, rowLock, lock, clock, act, orig, form, queued, orphaned>>

MUnlockJob(w) ==
  /\ phase[w] = "loaded"
  /\ phase' = [phase EXCEPT ![w] = "unlocked"]
  /\ UNCHANGED <<db, rowLock, lock, clock, act, snap, doc, orig, form, jobs, queued, orphaned>>

(* doc.unlock(), before the action runs: the lock file goes, whoever made  *)
(* it.                                                                     *)
UnlockJob(w) ==
  /\ phase[w] = "loaded"
  /\ lock' = "none"
  /\ phase' = [phase EXCEPT ![w] = "unlocked"]
  /\ UNCHANGED <<db, rowLock, clock, act, snap, doc, orig, form, jobs, queued, orphaned>>

(* _submit or _cancel, up to check_if_latest.                              *)
RunJob(w) ==
  /\ phase[w] = "unlocked"
  /\ ~IsLocked
  /\ Stamped(w, "save", doc[w], doc[w].docstatus)
  /\ UNCHANGED <<db, rowLock, lock, snap, form, jobs, queued, orphaned>>

-----------------------------------------------------------------------------
(* Steps common to requests and jobs.                                      *)

(* load_doc_before_save locks the row, the checks pass, and the UPDATE is  *)
(* in the transaction.                                                     *)
WriteRow(p) ==
  /\ phase[p] = "saving"
  /\ ForUpdate(p)
  /\ Accepts(p)
  /\ rowLock' = p
  /\ phase' = [phase EXCEPT ![p] = "written"]
  /\ doc' = [doc EXCEPT ![p] = NewVersion(p)]
  /\ UNCHANGED <<db, lock, clock, act, snap, orig, form, jobs, queued, orphaned>>

(* COMMIT; the response carries the saved document back to the form.       *)
Commit(p) ==
  /\ phase[p] = "written"
  /\ db' = doc[p]
  /\ rowLock' = NoProc
  /\ form' = IF p \in Session /\ act[p] # "db_set"
             THEN [form EXCEPT ![p] = doc[p]] ELSE form
  /\ Finish(p)
  /\ UNCHANGED <<lock, clock, jobs, queued, orphaned>>

MMustFail(p) ==
  /\ phase[p] = "saving"
  /\ rowLock = NoProc
  /\ ~Accepts(p)

(* A save that cannot go on: the row changed after the snapshot            *)
(* (serialization failure, even while others wait for the row),            *)
(* TimestampMismatchError, DocstatusTransitionError; or a job that finds   *)
(* its document locked again, DocumentLockedError.                         *)
MustFail(p) ==
  \/ /\ phase[p] = "saving"
     /\ snap[p] # db \/ (rowLock = NoProc /\ ~Accepts(p))
  \/ phase[p] = "unlocked" /\ IsLocked

Release(p) ==
  /\ rowLock' = IF rowLock = p THEN NoProc ELSE rowLock
  /\ Finish(p)
  /\ UNCHANGED <<db, lock, clock, form, jobs, queued>>

Refuse(p) == MustFail(p) /\ Release(p) /\ UNCHANGED orphaned

(* Somebody will remove the lock file: a request that is going to queue    *)
(* its job, a job that waits, or one that has still to unlock.             *)
Owed ==
  \/ \E s \in Session : phase[s] = "queued"
  \/ \E k \in {Submitted, Cancelled} : Pending(k)
  \/ \E w \in Worker : phase[w] = "loaded"

(* A hook raises, a timeout, a killed process: rollback.  The lock file is *)
(* not part of the transaction and stays.  (A request whose job could not  *)
(* be queued after its commit has changed nothing else either.)            *)
Abort(p) ==
  /\ phase[p] # "idle"
  /\ Release(p)
  /\ orphaned' = (orphaned \/ (Owed /\ ~Owed'))

-----------------------------------------------------------------------------
SessionStep(s) ==
  \/ Open(s)
  \/ \E k \in DocStatus : SaveDocs(s, k)
  \/ CancelDoc(s)
  \/ DiscardDoc(s)
  \/ BeginDbSet(s)
  \/ \E k \in {Submitted, Cancelled} : QueueAction(s, k)
  \/ CreateLock(s)
  \/ CommitQueued(s)

WorkerStep(w) ==
  \/ \E k \in {Submitted, Cancelled} : LoadJob(w, k)
  \/ UnlockJob(w)
  \/ RunJob(w)

ProcStep(p) == WriteRow(p) \/ Commit(p) \/ Refuse(p) \/ Abort(p)

Next ==
  \/ \E s \in Session : SessionStep(s)
  \/ \E w \in Worker : WorkerStep(w)
  \/ \E p \in Proc : ProcStep(p)
  \/ UnlockDocument
  \/ LockExpires

Spec == Init /\ [][Next]_vars

(* A process inside the save goes on until it commits or fails; no save    *)
(* has to abort.  A request that has called queue_action ends, workers     *)
(* take the jobs that wait, and a job comes to its save or ends.  Nobody   *)
(* has to unlock, and no lock has to expire.                               *)
AbortEarly(p) == phase[p] # "saving" /\ phase[p] # "written" /\ Abort(p)

Fairness ==
  /\ \A p \in Proc : WF_vars(WriteRow(p) \/ Commit(p) \/ Refuse(p))
  /\ \A s \in Session : WF_vars(CreateLock(s) \/ CommitQueued(s) \/ AbortEarly(s))
  /\ \A w \in Worker : WF_vars(WorkerStep(w) \/ AbortEarly(w))

FairSpec == Spec /\ Fairness

-----------------------------------------------------------------------------
(* Properties.                                                             *)

(* `modified` identifies a version: a copy in a client or in an open       *)
(* transaction that has the row's `modified` is equal to the row.  This is *)
(* what check_if_latest relies on when it compares one column only, and it *)
(* holds because every write of the row stamps it (set_user_and_timestamp, *)
(* db_set).                                                                *)
ModifiedIdentifiesVersion ==
  /\ \A s \in Session : form[s].modified = db.modified => form[s] = db
  /\ \A p \in Proc : snap[p].modified = db.modified => snap[p] = db

(* Whatever is in flight, the committed row changes only as one atomic     *)
(* read-modify-write of its current version: no edit is ever lost to a     *)
(* save from a stale form, a background action, a discard or a db_set, and *)
(* docstatus never goes back.                                              *)
Atomic == INSTANCE AtomicDocument WITH row <- db

DocumentIsAtomic == Atomic!Spec

(* The inductive invariant behind both.                                    *)

Saving  == {p \in Proc : phase[p] \in {"saving", "written"}}
Writing == {p \in Proc : phase[p] = "written"}

(* The stamps in the row are in the past; a stamp given to a save that has *)
(* not committed is nobody else's.                                         *)
StampsAreFresh ==
  /\ db.modified \in db.edits
  /\ \A e \in db.edits : e <= clock
  /\ \A p \in Saving : doc[p].modified <= clock /\ doc[p].modified \notin db.edits
  /\ \A p, q \in Saving : p # q => doc[p].modified # doc[q].modified

(* The version the document was inserted with is part of all later ones.   *)
FirstVersion == 0 \in db.edits /\ (db.modified = 0 => db = NewRow)

(* A copy carries the `modified` of a version that was committed.          *)
CopiesAreCommitted ==
  /\ \A s \in Session : form[s].modified \in db.edits
  /\ \A p \in Proc : snap[p].modified \in db.edits /\ orig[p] \in db.edits
  /\ \A p \in Proc : phase[p] \in {"loaded", "unlocked"} => doc[p].modified \in db.edits

(* An object whose original version is still the current one adds exactly  *)
(* its own edit to it.                                                     *)
ObjectsExtendTheirBase ==
  \A p \in Proc :
    /\ (phase[p] = "saving" /\ orig[p] = db.modified) =>
         /\ doc[p].edits = db.edits \cup {doc[p].modified}
         /\ act[p] = "discard" => doc[p].docstatus = db.docstatus
    /\ (phase[p] \in {"loaded", "unlocked"} /\ doc[p].modified = db.modified) =>
         doc[p].edits = db.edits

LegalStep(from, to) ==
  \/ to = from
  \/ from = Draft /\ to = Submitted /\ ~Unsubmittable
  \/ from = Submitted /\ to = Cancelled
  \/ from = Draft /\ to = Cancelled

(* Only the holder of the row lock has written, and what it wrote is one   *)
(* legal change of the committed row.                                      *)
WriterHoldsRow ==
  /\ \A p \in Proc : phase[p] = "written" <=> rowLock = p
  /\ \A p \in Writing :
       /\ doc[p].edits = db.edits \cup {doc[p].modified}
       /\ LegalStep(db.docstatus, doc[p].docstatus)

RowInv ==
  /\ TypeOK
  /\ StampsAreFresh
  /\ FirstVersion
  /\ CopiesAreCommitted
  /\ ModifiedIdentifiesVersion
  /\ ObjectsExtendTheirBase
  /\ WriterHoldsRow

(* A lock file that counts has somebody who will remove it, unless that    *)
(* one was rolled back or died.                                            *)
LockIsOwed == lock = "held" => Owed \/ orphaned

(* A request that queues an action queues a submission or a cancellation.  *)
ActionsFit ==
  \A s \in Session :
    phase[s] \in {"locking", "queued"} => doc[s].docstatus \in {Submitted, Cancelled}

IInv == RowInv /\ LockIsOwed /\ ActionsFit

(* A save that started ends: it commits, or it is told that it lost the    *)
(* race for the row; it does not wait for the row lock for ever.           *)
SavesEnd == \A p \in Proc : phase[p] = "saving" ~> phase[p] = "idle"

(* The lock file of a queued action goes with the action's job, however    *)
(* many requests pass the test for the file at once, and nobody has to     *)
(* wait for DOCUMENT_LOCK_EXPIRY or press Force Unlock; unless the last    *)
(* request or job that was to remove the file was rolled back or died.     *)
LockGoesWithItsJob == lock = "held" ~> lock # "held" \/ orphaned
=============================================================================
