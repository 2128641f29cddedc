------------------------- MODULE SubmissionQueueProofs -------------------------
(***************************************************************************)
(* One submission waits for a document, one is Finished per change of it,  *)
(* and the bridge's events are exact, for any number of requests, workers, *)
(* rows and faults.                                                        *)
(***************************************************************************)
EXTENDS SubmissionQueue, FiniteSetTheorems, SequenceTheorems, TLAPS

(* A job is worked on once, and by one worker.                             *)
RowsAreTaken ==
  /\ \A w \in Worker : cur[w] \notin jobs
  /\ \A v, w \in Worker : cur[v] = cur[w] /\ cur[v] # 0 => v = w

(* now() is later than everything it ever returned.                        *)
StampsGrow ==
  /\ version <= clock
  /\ \A t \in Types : latest[t] <= version
  /\ \A w \in Worker : phase[w] = "acted" => version < wrote[w] /\ wrote[w] <= clock

(* What somebody wants, or a row asks for, was possible once: a version to *)
(* submit is one of a draft, and older than the submission if there is     *)
(* one; a document to cancel was submitted.                                *)
IsWish(a, n) ==
  IF a = "Submit" THEN n <= version /\ (docstatus = 0 \/ n < latest["submitted"])
                  ELSE docstatus # 0

WishesAreOld ==
  /\ \A s \in Session : at[s] # "out" => IsWish(want[s].action, want[s].version)
  /\ \A r \in DOMAIN row : IsWish(row[r].action, row[r].version)

(* One job has written the document, and what it writes is a legal change. *)
FitsAction(w) == docstatus = From(row[cur[w]].action)

OneWriter ==
  /\ \A v, w \in Worker : phase[v] = "acted" /\ phase[w] = "acted" => v = w
  /\ \A w \in Worker : phase[w] = "acted" => FitsAction(w)

FinishedFits ==
  \A a \in Actions :
    /\ \A q, r \in Finished(a) : q = r
    /\ Finished(a) # {} => docstatus > From(a)

(* The lock has one owner: a request, or the job it queued; and nobody who *)
(* found no file is on the way to make one then.                           *)
LockedAlone ==
  causes \cap {"raced", "expired", "forced"} = {} =>
    /\ lock \in {"none", "held"}
    /\ lock = "held" => Locking = {}
    /\ \A s \in Session : at[s] = "locked" => lock = "held" /\ jobs = {}
    /\ \A s, t \in Session : at[s] = "locked" /\ at[t] = "locked" => s = t
    /\ jobs # {} => lock = "held"
    /\ \A q, r \in jobs : q = r

(* An event was told by the job that has not committed yet, or is latest.  *)
Told(t, w) == phase[w] = "acted" /\ t \in EventsOf(row[cur[w]].action)

EventsFit ==
  causes \cap {"lost", "undone"} = {} =>
    \A t \in Types :
      /\ \A w \in Worker : Told(t, w) => event[t] = wrote[w]
      /\ (\A w \in Worker : ~Told(t, w)) => event[t] = latest[t]

IInv ==
  /\ TypeOK /\ RowsAreTaken /\ StampsGrow /\ WishesAreOld
  /\ OneWriter /\ FinishedFits /\ LockedAlone /\ EventsFit

-----------------------------------------------------------------------------
(* The rows are records ...                                                *)
LEMMA RowsAreRows ==
  ASSUME TypeOK
  PROVE  /\ DOMAIN row = 1 .. Len(row) /\ Len(row) \in Nat
         /\ \A r \in DOMAIN row :
              /\ row[r] \in Row /\ row[r].status \in Statuses
              /\ row[r].action \in Actions /\ row[r].version \in Nat
<1>1. row \in Seq(Row)
  BY DEF TypeOK
<1>2. DOMAIN row = 1 .. Len(row) /\ Len(row) \in Nat
  BY <1>1, LenProperties
<1>3. \A r \in DOMAIN row : row[r] \in Row
  BY <1>1, <1>2, ElementOfSeq
<1>. QED
  BY <1>2, <1>3 DEF Row

(* ... and remain so, with their action and version, when one is decided.  *)
LEMMA StatusChanges ==
  ASSUME TypeOK, NEW r \in DOMAIN row, NEW s \in Statuses,
         row' = [row EXCEPT ![r].status = s]
  PROVE  /\ row' \in Seq(Row) /\ Len(row') = Len(row) /\ DOMAIN row' = DOMAIN row
         /\ \A q \in DOMAIN row : /\ q # r => row'[q] = row[q]
                                  /\ row'[q].action = row[q].action
                                  /\ row'[q].version = row[q].version
         /\ row'[r].status = s
<1>. DEFINE e == [row[r] EXCEPT !.status = s]
<1>1. row \in Seq(Row) /\ r \in 1 .. Len(row) /\ row[r] \in Row
  BY RowsAreRows DEF TypeOK
<1>2. e \in Row /\ e.status = s /\ e.action = row[r].action /\ e.version = row[r].version
  BY <1>1 DEF Row
<1>3. row' = [row EXCEPT ![r] = e]
  OBVIOUS
<1>. HIDE DEF e
<1>4. /\ row' \in Seq(Row) /\ Len(row') = Len(row)
      /\ \A q \in 1 .. Len(row) : row'[q] = IF q = r THEN e ELSE row[q]
  BY <1>1, <1>2, <1>3, ExceptSeq
<1>5. DOMAIN row' = DOMAIN row
  BY <1>3
<1>6. DOMAIN row = 1 .. Len(row)
  BY RowsAreRows
<1>7. row'[r] = e /\ \A q \in DOMAIN row : q # r => row'[q] = row[q]
  BY <1>1, <1>4, <1>6
<1>. QED
  BY <1>2, <1>4, <1>5, <1>7

(* A new document satisfies it.                                            *)
LEMMA InitInv == Init => IInv
<1>. SUFFICES ASSUME Init PROVE IInv
  OBVIOUS
<1>1. TypeOK
  BY DEF Init, TypeOK, Wish, NoWish, Actions, Causes
<1>2. RowsAreTaken /\ OneWriter /\ LockedAlone
  BY DEF Init, RowsAreTaken, OneWriter, LockedAlone, Locking
<1>3. StampsGrow
  BY DEF Init, StampsGrow
<1>4. WishesAreOld /\ FinishedFits
  BY DEF Init, WishesAreOld, FinishedFits, Finished
<1>5. EventsFit
  BY DEF Init, EventsFit, Told
<1>. QED
  BY <1>1, <1>2, <1>3, <1>4, <1>5 DEF IInv

(* A request saves the document when no job holds its row.                 *)
LEMMA SaveInv == ASSUME IInv, Save PROVE IInv'
<1>0. /\ TypeOK /\ RowsAreTaken /\ StampsGrow /\ WishesAreOld
      /\ OneWriter /\ FinishedFits /\ LockedAlone /\ EventsFit
  BY DEF IInv
<1>a. /\ clock' = clock + 1 /\ version' = clock + 1
      /\ \A w \in Worker : phase[w] # "acted"
      /\ UNCHANGED <<docstatus, row, jobs, at, want, phase, cur, wrote, lock>>
  BY DEF Save, RowIsHeld, requests, workers
<1>b. clock \in Nat /\ version \in Nat /\ clock' \in Nat /\ version' \in Nat
  BY <1>0, <1>a DEF TypeOK
<1>c. latest' = IF docstatus = 0 THEN [latest EXCEPT !["updated"] = clock'] ELSE latest
  BY <1>a DEF Save
<1>d. \/ docstatus = 0 /\ event' = [t \in Types |-> IF t = "updated" THEN clock' ELSE event[t]]
      \/ docstatus = 0 /\ event' = event /\ "lost" \in causes'
      \/ docstatus # 0 /\ event' = event
  BY <1>0, <1>a DEF Save, Emit
<1>e. causes \subseteq causes' /\ causes' \subseteq causes \cup {"lost"} /\ faults' \in Nat
  BY <1>0 DEF Save, Emit, history, TypeOK
<1>f. /\ latest' \in [Types -> Nat]
      /\ \A t \in Types : latest'[t] = latest[t] \/ latest'[t] = clock'
  BY <1>0, <1>b, <1>c DEF TypeOK, Types
<1>1. TypeOK'
  <2>1. event' \in [Types -> Nat]
    BY <1>0, <1>b, <1>d DEF TypeOK
  <2>2. causes' \subseteq Causes
    BY <1>0, <1>e DEF TypeOK, Causes
  <2>. QED
    BY <1>0, <1>a, <1>b, <1>e, <1>f, <2>1, <2>2 DEF TypeOK
<1>2. RowsAreTaken'
  BY <1>0 DEF RowsAreTaken, TypeOK, Save, IsLocked, RowIsHeld, Emit,
     document, requests, workers, history
<1>3. StampsGrow'
  <2>1. \A t \in Types : latest[t] \in Nat /\ latest[t] <= clock
    BY <1>0, <1>b DEF TypeOK, StampsGrow
  <2>. QED
    BY <1>a, <1>b, <1>f, <2>1 DEF StampsGrow
<1>4. WishesAreOld'
  <2>1. ASSUME NEW a \in Actions, NEW n \in Nat, IsWish(a, n) PROVE IsWish(a, n)'
    <3>1. latest'["submitted"] = latest["submitted"]
      BY <1>0, <1>c DEF TypeOK, Types
    <3>2. n <= version => n <= version'
      BY <1>0, <1>a, <1>b DEF StampsGrow
    <3>. QED
      BY <1>a, <2>1, <3>1, <3>2 DEF IsWish
  <2>2. /\ \A s \in Session : want[s].action \in Actions /\ want[s].version \in Nat
        /\ \A r \in DOMAIN row : row[r].action \in Actions /\ row[r].version \in Nat
    BY <1>0, RowsAreRows DEF TypeOK, Wish
  <2>. QED
    BY <1>0, <1>a, <2>1, <2>2 DEF WishesAreOld
<1>5. OneWriter'
  BY <1>0 DEF OneWriter, FitsAction, WishesAreOld, IsWish, StampsGrow, From,
     TypeOK, Row, Actions, Save, IsLocked, RowIsHeld, Emit, document,
     requests, workers, history
<1>6. FinishedFits'
  BY <1>0 DEF FinishedFits, OneWriter, RowsAreTaken, Finished, From, TypeOK,
     Row, Actions, Statuses, Save, IsLocked, RowIsHeld, Emit, document,
     requests, workers, history
<1>7. LockedAlone'
  BY <1>0 DEF LockedAlone, Locking, TypeOK, Save, IsLocked, RowIsHeld, Emit, document,
     requests, workers, history
<1>8. EventsFit'
  <2>. SUFFICES ASSUME causes' \cap {"lost", "undone"} = {}, NEW t \in Types
                PROVE  event'[t] = latest'[t]
    BY <1>a DEF EventsFit, Told
  <2>1. event[t] = latest[t]
    BY <1>0, <1>a, <1>e DEF EventsFit, Told
  <2>. QED
    BY <1>0, <1>c, <1>d, <2>1 DEF TypeOK
<1>. QED
  BY <1>1, <1>2, <1>3, <1>4, <1>5, <1>6, <1>7, <1>8 DEF IInv

(* ... or it fails after the event, and leaves the document as it was.     *)
LEMMA SaveFailsInv == ASSUME IInv, SaveFails PROVE IInv'
<1>0. /\ TypeOK /\ RowsAreTaken /\ StampsGrow /\ WishesAreOld
      /\ OneWriter /\ FinishedFits /\ LockedAlone /\ EventsFit
  BY DEF IInv
<1>a. /\ clock \in Nat /\ clock' = clock + 1 /\ clock' \in Nat
      /\ causes' = causes \cup {"undone"}
      /\ UNCHANGED <<version, docstatus, latest, lock, row, jobs, at, want, phase, cur, wrote, faults>>
  BY <1>0 DEF SaveFails, TypeOK, document, requests, workers
<1>1. TypeOK'
  <2>1. event' = [event EXCEPT !["updated"] = clock']
    BY <1>a DEF SaveFails
  <2>2. event' \in [Types -> Nat]
    BY <1>0, <1>a, <2>1 DEF TypeOK
  <2>. QED
    BY <1>0, <1>a, <2>2 DEF TypeOK, Causes
<1>2. RowsAreTaken' /\ WishesAreOld' /\ OneWriter' /\ FinishedFits'
  BY <1>0, <1>a DEF RowsAreTaken, WishesAreOld, IsWish, OneWriter, FitsAction,
     FinishedFits, Finished
<1>3. StampsGrow'
  BY <1>0, <1>a DEF StampsGrow, TypeOK
<1>4. LockedAlone'
  BY <1>0, <1>a DEF LockedAlone, Locking
<1>5. EventsFit'
  BY <1>a DEF EventsFit
<1>. QED
  BY <1>1, <1>2, <1>3, <1>4, <1>5 DEF IInv

(* A request asks with the form or the document it read ...                *)
LEMMA AskForInv ==
  ASSUME IInv, NEW s \in Session, NEW a \in Actions, NEW n \in 0 .. MaxStamp, AskFor(s, a, n) PROVE IInv'
<1>0. /\ TypeOK /\ RowsAreTaken /\ StampsGrow /\ WishesAreOld
      /\ OneWriter /\ FinishedFits /\ LockedAlone /\ EventsFit
  BY DEF IInv
<1>1. TypeOK'
  BY <1>0 DEF TypeOK, Row, Wish, Statuses, Actions, Types, Causes, AskFor,
     QueuedRows, document, requests, workers, history
<1>2. RowsAreTaken'
  BY <1>0 DEF RowsAreTaken, TypeOK, AskFor, QueuedRows, document, requests,
     workers, history
<1>3. StampsGrow'
  BY <1>0 DEF StampsGrow, OneWriter, TypeOK, AskFor, QueuedRows, document,
     requests, workers, history
<1>4. WishesAreOld'
  BY <1>0 DEF WishesAreOld, FinishedFits, StampsGrow, IsWish, TypeOK, Row,
     Actions, AskFor, QueuedRows, document, requests, workers, history
<1>5. OneWriter'
  BY <1>0 DEF OneWriter, FitsAction, WishesAreOld, IsWish, StampsGrow, From,
     TypeOK, Row, Actions, AskFor, QueuedRows, document, requests, workers,
     history
<1>6. FinishedFits'
  BY <1>0 DEF FinishedFits, OneWriter, RowsAreTaken, Finished, From, TypeOK,
     Row, Actions, Statuses, AskFor, QueuedRows, document, requests, workers,
     history
<1>7. LockedAlone'
  BY <1>0 DEF LockedAlone, Locking, TypeOK, AskFor, QueuedRows, document, requests,
     workers, history
<1>8. EventsFit'
  BY <1>0 DEF EventsFit, OneWriter, Told, EventsOf, TypeOK, Types, AskFor,
     QueuedRows, document, requests, workers, history
<1>. QED
  BY <1>1, <1>2, <1>3, <1>4, <1>5, <1>6, <1>7, <1>8 DEF IInv

(* ... finds no lock, or one that expired ...                              *)
LEMMA TestLockInv == ASSUME IInv, NEW s \in Session, TestLock(s) PROVE IInv'
<1>0. /\ TypeOK /\ RowsAreTaken /\ StampsGrow /\ WishesAreOld
      /\ OneWriter /\ FinishedFits /\ LockedAlone /\ EventsFit
  BY DEF IInv
<1>1. TypeOK'
  BY <1>0 DEF TypeOK, Row, Wish, Statuses, Actions, Types, Causes, TestLock, MayLock,
     document, requests, workers, history
<1>2. RowsAreTaken'
  BY <1>0 DEF RowsAreTaken, TypeOK, TestLock, MayLock, document, requests,
     workers, history
<1>3. StampsGrow'
  BY <1>0 DEF StampsGrow, OneWriter, TypeOK, TestLock, MayLock, document,
     requests, workers, history
<1>4. WishesAreOld'
  BY <1>0 DEF WishesAreOld, FinishedFits, StampsGrow, IsWish, TypeOK, Row,
     Actions, TestLock, MayLock, document, requests, workers, history
<1>5. OneWriter'
  BY <1>0 DEF OneWriter, FitsAction, WishesAreOld, IsWish, StampsGrow, From,
     TypeOK, Row, Actions, TestLock, MayLock, document, requests, workers, history
<1>6. FinishedFits'
  BY <1>0 DEF FinishedFits, OneWriter, RowsAreTaken, Finished, From, TypeOK,
     Row, Actions, Statuses, TestLock, MayLock, document, requests, workers,
     history
<1>7. LockedAlone'
  BY <1>0 DEF LockedAlone, Locking, TypeOK, TestLock, MayLock, document, requests,
     workers, history
<1>8. EventsFit'
  BY <1>0 DEF EventsFit, OneWriter, Told, EventsOf, TypeOK, Types, TestLock, MayLock, document, requests, workers, history
<1>. QED
  BY <1>1, <1>2, <1>3, <1>4, <1>5, <1>6, <1>7, <1>8 DEF IInv

(* ... deletes the latter ...                                              *)
LEMMA DeleteLockInv == ASSUME IInv, NEW s \in Session, DeleteLock(s) PROVE IInv'
<1>0. /\ TypeOK /\ RowsAreTaken /\ StampsGrow /\ WishesAreOld
      /\ OneWriter /\ FinishedFits /\ LockedAlone /\ EventsFit
  BY DEF IInv
<1>1. TypeOK'
  BY <1>0 DEF TypeOK, Row, Wish, Statuses, Actions, Types, Causes, DeleteLock,
     document, requests, workers, history
<1>2. RowsAreTaken'
  BY <1>0 DEF RowsAreTaken, TypeOK, DeleteLock, document, requests,
     workers, history
<1>3. StampsGrow'
  BY <1>0 DEF StampsGrow, OneWriter, TypeOK, DeleteLock, document,
     requests, workers, history
<1>4. WishesAreOld'
  BY <1>0 DEF WishesAreOld, FinishedFits, StampsGrow, IsWish, TypeOK, Row,
     Actions, DeleteLock, document, requests, workers, history
<1>5. OneWriter'
  BY <1>0 DEF OneWriter, FitsAction, WishesAreOld, IsWish, StampsGrow, From,
     TypeOK, Row, Actions, DeleteLock, document, requests, workers, history
<1>6. FinishedFits'
  BY <1>0 DEF FinishedFits, OneWriter, RowsAreTaken, Finished, From, TypeOK,
     Row, Actions, Statuses, DeleteLock, document, requests, workers,
     history
<1>7. LockedAlone'
  BY <1>0 DEF LockedAlone, Locking, TypeOK, DeleteLock, document, requests,
     workers, history
<1>8. EventsFit'
  BY <1>0 DEF EventsFit, OneWriter, Told, EventsOf, TypeOK, Types, DeleteLock, document, requests, workers, history
<1>. QED
  BY <1>1, <1>2, <1>3, <1>4, <1>5, <1>6, <1>7, <1>8 DEF IInv

(* ... and makes its own ...                                               *)
LEMMA CreateLockInv == ASSUME IInv, NEW s \in Session, CreateLock(s) PROVE IInv'
<1>0. /\ TypeOK /\ RowsAreTaken /\ StampsGrow /\ WishesAreOld
      /\ OneWriter /\ FinishedFits /\ LockedAlone /\ EventsFit
  BY DEF IInv
<1>1. TypeOK'
  BY <1>0 DEF TypeOK, Row, Wish, Statuses, Actions, Types, Causes, CreateLock, Locking,
     document, requests, workers, history
<1>2. RowsAreTaken'
  BY <1>0 DEF RowsAreTaken, TypeOK, CreateLock, Locking, document, requests,
     workers, history
<1>3. StampsGrow'
  BY <1>0 DEF StampsGrow, OneWriter, TypeOK, CreateLock, Locking, document,
     requests, workers, history
<1>4. WishesAreOld'
  BY <1>0 DEF WishesAreOld, FinishedFits, StampsGrow, IsWish, TypeOK, Row,
     Actions, CreateLock, Locking, document, requests, workers, history
<1>5. OneWriter'
  BY <1>0 DEF OneWriter, FitsAction, WishesAreOld, IsWish, StampsGrow, From,
     TypeOK, Row, Actions, CreateLock, Locking, document, requests, workers, history
<1>6. FinishedFits'
  BY <1>0 DEF FinishedFits, OneWriter, RowsAreTaken, Finished, From, TypeOK,
     Row, Actions, Statuses, CreateLock, Locking, document, requests, workers,
     history
<1>7. LockedAlone'
  BY <1>0 DEF LockedAlone, Locking, TypeOK, CreateLock, Locking, document, requests,
     workers, history
<1>8. EventsFit'
  BY <1>0 DEF EventsFit, OneWriter, Told, EventsOf, TypeOK, Types, CreateLock, Locking, document, requests, workers, history
<1>. QED
  BY <1>1, <1>2, <1>3, <1>4, <1>5, <1>6, <1>7, <1>8 DEF IInv

(* ... or is refused.                                                      *)
LEMMA RefuseInv == ASSUME IInv, NEW s \in Session, Refuse(s) PROVE IInv'
<1>0. /\ TypeOK /\ RowsAreTaken /\ StampsGrow /\ WishesAreOld
      /\ OneWriter /\ FinishedFits /\ LockedAlone /\ EventsFit
  BY DEF IInv
<1>1. TypeOK'
  BY <1>0 DEF TypeOK, Row, Wish, Statuses, Actions, Types, Causes, Refuse, MayLock,
     Leaves, NoWish, document, requests, workers, history
<1>2. RowsAreTaken'
  BY <1>0 DEF RowsAreTaken, TypeOK, Refuse, MayLock, Leaves, NoWish,
     document, requests, workers, history
<1>3. StampsGrow'
  BY <1>0 DEF StampsGrow, OneWriter, TypeOK, Refuse, MayLock, Leaves, NoWish,
     document, requests, workers, history
<1>4. WishesAreOld'
  BY <1>0 DEF WishesAreOld, FinishedFits, StampsGrow, IsWish, TypeOK, Row,
     Actions, Refuse, MayLock, Leaves, NoWish, document, requests, workers,
     history
<1>5. OneWriter'
  BY <1>0 DEF OneWriter, FitsAction, WishesAreOld, IsWish, StampsGrow, From,
     TypeOK, Row, Actions, Refuse, MayLock, Leaves, NoWish, document,
     requests, workers, history
<1>6. FinishedFits'
  BY <1>0 DEF FinishedFits, OneWriter, RowsAreTaken, Finished, From, TypeOK,
     Row, Actions, Statuses, Refuse, MayLock, Leaves, NoWish, document,
     requests, workers, history
<1>7. LockedAlone'
  BY <1>0 DEF LockedAlone, Locking, TypeOK, Refuse, MayLock, Leaves, NoWish, document,
     requests, workers, history
<1>8. EventsFit'
  BY <1>0 DEF EventsFit, OneWriter, Told, EventsOf, TypeOK, Types, Refuse,
     MayLock, Leaves, NoWish, document, requests, workers, history
<1>. QED
  BY <1>1, <1>2, <1>3, <1>4, <1>5, <1>6, <1>7, <1>8 DEF IInv

(* Its row and its job ...                                                 *)
LEMMA CommitInv == ASSUME IInv, NEW s \in Session, Commit(s) PROVE IInv'
<1>0. /\ TypeOK /\ RowsAreTaken /\ StampsGrow /\ WishesAreOld
      /\ OneWriter /\ FinishedFits /\ LockedAlone /\ EventsFit
  BY DEF IInv
<1>1. TypeOK'
  BY <1>0 DEF TypeOK, Row, Wish, Statuses, Actions, Types, Causes, Commit, Leaves,
     NewRow, NoWish, document, requests, workers, history
<1>2. RowsAreTaken'
  BY <1>0 DEF RowsAreTaken, TypeOK, Commit, Leaves, NewRow, NoWish, document,
     requests, workers, history
<1>3. StampsGrow'
  BY <1>0 DEF StampsGrow, OneWriter, TypeOK, Commit, Leaves, NewRow, NoWish,
     document, requests, workers, history
<1>4. WishesAreOld'
  BY <1>0 DEF WishesAreOld, FinishedFits, StampsGrow, IsWish, TypeOK, Row,
     Actions, Commit, Leaves, NewRow, NoWish, document, requests, workers,
     history
<1>5. OneWriter'
  BY <1>0 DEF OneWriter, FitsAction, WishesAreOld, IsWish, StampsGrow, From,
     TypeOK, Row, Actions, Commit, Leaves, NewRow, NoWish, document,
     requests, workers, history
<1>6. FinishedFits'
  BY <1>0 DEF FinishedFits, OneWriter, RowsAreTaken, Finished, From, TypeOK,
     Row, Actions, Statuses, Commit, Leaves, NewRow, NoWish, document,
     requests, workers, history
<1>7. LockedAlone'
  BY <1>0 DEF LockedAlone, Locking, TypeOK, Commit, Leaves, NewRow, NoWish, document,
     requests, workers, history
<1>8. EventsFit'
  BY <1>0 DEF EventsFit, OneWriter, Told, EventsOf, TypeOK, Types, Commit,
     Leaves, NewRow, NoWish, document, requests, workers, history
<1>. QED
  BY <1>1, <1>2, <1>3, <1>4, <1>5, <1>6, <1>7, <1>8 DEF IInv

(* ... or its row only ...                                                 *)
LEMMA CommitOnlyInv ==
  ASSUME IInv, NEW s \in Session, CommitOnly(s) PROVE IInv'
<1>0. /\ TypeOK /\ RowsAreTaken /\ StampsGrow /\ WishesAreOld
      /\ OneWriter /\ FinishedFits /\ LockedAlone /\ EventsFit
  BY DEF IInv
<1>1. TypeOK'
  BY <1>0 DEF TypeOK, Row, Wish, Statuses, Actions, Types, Causes, CommitOnly,
     Leaves, NewRow, NoWish, Fault, document, requests, workers, history
<1>2. RowsAreTaken'
  BY <1>0 DEF RowsAreTaken, TypeOK, CommitOnly, Leaves, NewRow, NoWish,
     Fault, document, requests, workers, history
<1>3. StampsGrow'
  BY <1>0 DEF StampsGrow, OneWriter, TypeOK, CommitOnly, Leaves, NewRow,
     NoWish, Fault, document, requests, workers, history
<1>4. WishesAreOld'
  BY <1>0 DEF WishesAreOld, FinishedFits, StampsGrow, IsWish, TypeOK, Row,
     Actions, CommitOnly, Leaves, NewRow, NoWish, Fault, document, requests,
     workers, history
<1>5. OneWriter'
  BY <1>0 DEF OneWriter, FitsAction, WishesAreOld, IsWish, StampsGrow, From,
     TypeOK, Row, Actions, CommitOnly, Leaves, NewRow, NoWish, Fault,
     document, requests, workers, history
<1>6. FinishedFits'
  BY <1>0 DEF FinishedFits, OneWriter, RowsAreTaken, Finished, From, TypeOK,
     Row, Actions, Statuses, CommitOnly, Leaves, NewRow, NoWish, Fault,
     document, requests, workers, history
<1>7. LockedAlone'
  BY <1>0 DEF LockedAlone, Locking, TypeOK, CommitOnly, Leaves, NewRow, NoWish, Fault,
     document, requests, workers, history
<1>8. EventsFit'
  BY <1>0 DEF EventsFit, OneWriter, Told, EventsOf, TypeOK, Types,
     CommitOnly, Leaves, NewRow, NoWish, Fault, document, requests, workers,
     history
<1>. QED
  BY <1>1, <1>2, <1>3, <1>4, <1>5, <1>6, <1>7, <1>8 DEF IInv

(* ... or nothing stays.                                                   *)
LEMMA AbortInv == ASSUME IInv, NEW s \in Session, Abort(s) PROVE IInv'
<1>0. /\ TypeOK /\ RowsAreTaken /\ StampsGrow /\ WishesAreOld
      /\ OneWriter /\ FinishedFits /\ LockedAlone /\ EventsFit
  BY DEF IInv
<1>1. TypeOK'
  BY <1>0 DEF TypeOK, Row, Wish, Statuses, Actions, Types, Causes, Abort, Leaves,
     NoWish, document, requests, workers, history
<1>2. RowsAreTaken'
  BY <1>0 DEF RowsAreTaken, TypeOK, Abort, Leaves, NoWish, document,
     requests, workers, history
<1>3. StampsGrow'
  BY <1>0 DEF StampsGrow, OneWriter, TypeOK, Abort, Leaves, NoWish, document,
     requests, workers, history
<1>4. WishesAreOld'
  BY <1>0 DEF WishesAreOld, FinishedFits, StampsGrow, IsWish, TypeOK, Row,
     Actions, Abort, Leaves, NoWish, document, requests, workers, history
<1>5. OneWriter'
  BY <1>0 DEF OneWriter, FitsAction, WishesAreOld, IsWish, StampsGrow, From,
     TypeOK, Row, Actions, Abort, Leaves, NoWish, document, requests,
     workers, history
<1>6. FinishedFits'
  BY <1>0 DEF FinishedFits, OneWriter, RowsAreTaken, Finished, From, TypeOK,
     Row, Actions, Statuses, Abort, Leaves, NoWish, document, requests,
     workers, history
<1>7. LockedAlone'
  BY <1>0 DEF LockedAlone, Locking, TypeOK, Abort, Leaves, NoWish, document, requests,
     workers, history
<1>8. EventsFit'
  BY <1>0 DEF EventsFit, OneWriter, Told, EventsOf, TypeOK, Types, Abort,
     Leaves, NoWish, document, requests, workers, history
<1>. QED
  BY <1>1, <1>2, <1>3, <1>4, <1>5, <1>6, <1>7, <1>8 DEF IInv

(* A lock that expires ...                                                 *)
LEMMA ExpireInv == ASSUME IInv, Expire PROVE IInv'
<1>0. /\ TypeOK /\ RowsAreTaken /\ StampsGrow /\ WishesAreOld
      /\ OneWriter /\ FinishedFits /\ LockedAlone /\ EventsFit
  BY DEF IInv
<1>1. TypeOK'
  BY <1>0 DEF TypeOK, Row, Wish, Statuses, Actions, Types, Causes, Expire, document,
     requests, workers, history
<1>2. RowsAreTaken'
  BY <1>0 DEF RowsAreTaken, TypeOK, Expire, document, requests, workers,
     history
<1>3. StampsGrow'
  BY <1>0 DEF StampsGrow, OneWriter, TypeOK, Expire, document, requests,
     workers, history
<1>4. WishesAreOld'
  BY <1>0 DEF WishesAreOld, FinishedFits, StampsGrow, IsWish, TypeOK, Row,
     Actions, Expire, document, requests, workers, history
<1>5. OneWriter'
  BY <1>0 DEF OneWriter, FitsAction, WishesAreOld, IsWish, StampsGrow, From,
     TypeOK, Row, Actions, Expire, document, requests, workers, history
<1>6. FinishedFits'
  BY <1>0 DEF FinishedFits, OneWriter, RowsAreTaken, Finished, From, TypeOK,
     Row, Actions, Statuses, Expire, document, requests, workers, history
<1>7. LockedAlone'
  BY <1>0 DEF LockedAlone, Locking, TypeOK, Expire, document, requests, workers,
     history
<1>8. EventsFit'
  BY <1>0 DEF EventsFit, OneWriter, Told, EventsOf, TypeOK, Types, Expire,
     document, requests, workers, history
<1>. QED
  BY <1>1, <1>2, <1>3, <1>4, <1>5, <1>6, <1>7, <1>8 DEF IInv

(* ... or is removed is a cause.                                           *)
LEMMA ForceUnlockInv == ASSUME IInv, ForceUnlock PROVE IInv'
<1>0. /\ TypeOK /\ RowsAreTaken /\ StampsGrow /\ WishesAreOld
      /\ OneWriter /\ FinishedFits /\ LockedAlone /\ EventsFit
  BY DEF IInv
<1>1. TypeOK'
  BY <1>0 DEF TypeOK, Row, Wish, Statuses, Actions, Types, Causes, ForceUnlock,
     document, requests, workers, history
<1>2. RowsAreTaken'
  BY <1>0 DEF RowsAreTaken, TypeOK, ForceUnlock, document, requests, workers,
     history
<1>3. StampsGrow'
  BY <1>0 DEF StampsGrow, OneWriter, TypeOK, ForceUnlock, document, requests,
     workers, history
<1>4. WishesAreOld'
  BY <1>0 DEF WishesAreOld, FinishedFits, StampsGrow, IsWish, TypeOK, Row,
     Actions, ForceUnlock, document, requests, workers, history
<1>5. OneWriter'
  BY <1>0 DEF OneWriter, FitsAction, WishesAreOld, IsWish, StampsGrow, From,
     TypeOK, Row, Actions, ForceUnlock, document, requests, workers, history
<1>6. FinishedFits'
  BY <1>0 DEF FinishedFits, OneWriter, RowsAreTaken, Finished, From, TypeOK,
     Row, Actions, Statuses, ForceUnlock, document, requests, workers, history
<1>7. LockedAlone'
  BY <1>0 DEF LockedAlone, Locking, TypeOK, ForceUnlock, document, requests, workers,
     history
<1>8. EventsFit'
  BY <1>0 DEF EventsFit, OneWriter, Told, EventsOf, TypeOK, Types,
     ForceUnlock, document, requests, workers, history
<1>. QED
  BY <1>1, <1>2, <1>3, <1>4, <1>5, <1>6, <1>7, <1>8 DEF IInv

(* A row that nobody works on is cleared.                                  *)
LEMMA ClearOldLogsInv ==
  ASSUME IInv, NEW r \in DOMAIN row, ClearOldLogs(r) PROVE IInv'
<1>0. /\ TypeOK /\ RowsAreTaken /\ StampsGrow /\ WishesAreOld
      /\ OneWriter /\ FinishedFits /\ LockedAlone /\ EventsFit
  BY DEF IInv
<1>1. TypeOK'
  <2>1. /\ row' \in Seq(Row) /\ Len(row') = Len(row) /\ DOMAIN row' = DOMAIN row
        /\ \A q \in DOMAIN row : q # r => row'[q] = row[q]
    BY <1>0, StatusChanges DEF Statuses, ClearOldLogs
  <2>2. jobs' \subseteq {q \in DOMAIN row' : row'[q].status = "Queued"}
    BY <1>0, <2>1 DEF TypeOK, ClearOldLogs
  <2>3. \A w \in Worker :
          IF phase[w] = "idle" THEN cur[w] = 0 /\ wrote[w] = 0
          ELSE cur[w] # 0 /\ row'[cur[w]].status = "Queued"
    BY <1>0, <2>1 DEF TypeOK, ClearOldLogs
  <2>. QED
    BY <1>0, <2>1, <2>2, <2>3
       DEF TypeOK, ClearOldLogs, document, requests, workers, history
<1>2. RowsAreTaken'
  BY <1>0 DEF RowsAreTaken, TypeOK, ClearOldLogs, document, requests,
     workers, history
<1>3. StampsGrow'
  BY <1>0 DEF StampsGrow, OneWriter, TypeOK, ClearOldLogs, document,
     requests, workers, history
<1>4. WishesAreOld'
  BY <1>0 DEF WishesAreOld, FinishedFits, StampsGrow, IsWish, TypeOK, Row,
     Actions, ClearOldLogs, document, requests, workers, history
<1>5. OneWriter'
  BY <1>0 DEF OneWriter, FitsAction, WishesAreOld, IsWish, StampsGrow, From,
     TypeOK, Row, Actions, ClearOldLogs, document, requests, workers, history
<1>6. FinishedFits'
  BY <1>0 DEF FinishedFits, OneWriter, RowsAreTaken, Finished, From, TypeOK,
     Row, Actions, Statuses, ClearOldLogs, document, requests, workers,
     history
<1>7. LockedAlone'
  BY <1>0 DEF LockedAlone, Locking, TypeOK, ClearOldLogs, document, requests, workers,
     history
<1>8. EventsFit'
  BY <1>0 DEF EventsFit, OneWriter, Told, EventsOf, TypeOK, Types,
     ClearOldLogs, document, requests, workers, history
<1>. QED
  BY <1>1, <1>2, <1>3, <1>4, <1>5, <1>6, <1>7, <1>8 DEF IInv

(* A worker takes a job, and the lock.                                     *)
LEMMA StartInv ==
  ASSUME IInv, NEW w \in Worker, NEW r \in jobs, Start(w, r) PROVE IInv'
<1>0. /\ TypeOK /\ RowsAreTaken /\ StampsGrow /\ WishesAreOld
      /\ OneWriter /\ FinishedFits /\ LockedAlone /\ EventsFit
  BY DEF IInv
<1>1. TypeOK'
  BY <1>0 DEF TypeOK, Row, Wish, Statuses, Actions, Types, Causes, Start, document,
     requests, workers, history
<1>2. RowsAreTaken'
  BY <1>0 DEF RowsAreTaken, TypeOK, Start, document, requests, workers,
     history
<1>3. StampsGrow'
  BY <1>0 DEF StampsGrow, OneWriter, TypeOK, Start, document, requests,
     workers, history
<1>4. WishesAreOld'
  BY <1>0 DEF WishesAreOld, FinishedFits, StampsGrow, IsWish, TypeOK, Row,
     Actions, Start, document, requests, workers, history
<1>5. OneWriter'
  BY <1>0 DEF OneWriter, FitsAction, WishesAreOld, IsWish, StampsGrow, From,
     TypeOK, Row, Actions, Start, document, requests, workers, history
<1>6. FinishedFits'
  BY <1>0 DEF FinishedFits, OneWriter, RowsAreTaken, Finished, From, TypeOK,
     Row, Actions, Statuses, Start, document, requests, workers, history
<1>7. LockedAlone'
  BY <1>0 DEF LockedAlone, Locking, TypeOK, Start, document, requests, workers, history
<1>8. EventsFit'
  BY <1>0 DEF EventsFit, OneWriter, Told, EventsOf, TypeOK, Types, Start,
     document, requests, workers, history
<1>. QED
  BY <1>1, <1>2, <1>3, <1>4, <1>5, <1>6, <1>7, <1>8 DEF IInv

(* It writes the document it was asked to ...                              *)
LEMMA ActInv == ASSUME IInv, NEW w \in Worker, Act(w) PROVE IInv'
<1>0. /\ TypeOK /\ RowsAreTaken /\ StampsGrow /\ WishesAreOld
      /\ OneWriter /\ FinishedFits /\ LockedAlone /\ EventsFit
  BY DEF IInv
<1>a. /\ phase[w] = "started" /\ phase' = [phase EXCEPT ![w] = "acted"]
      /\ \A v \in Worker : phase[v] # "acted"
      /\ row[cur[w]].version = version /\ docstatus # 2
      /\ clock' = clock + 1 /\ wrote' = [wrote EXCEPT ![w] = clock + 1]
      /\ UNCHANGED <<document, lock, row, jobs, requests, cur>>
  BY DEF Act, RowIsHeld, IsCurrent
<1>b. /\ causes \subseteq causes' /\ causes' \subseteq causes \cup {"lost"}
      /\ \/ event' = [t \in Types |-> IF t \in EventsOf(row[cur[w]].action) THEN clock + 1
                                      ELSE event[t]]
         \/ event' = event /\ "lost" \in causes'
      /\ faults' \in Nat
  BY <1>0 DEF Act, Emit, history, TypeOK
<1>c. cur[w] \in DOMAIN row /\ row[cur[w]].action \in Actions
  BY <1>0, <1>a, RowsAreRows DEF TypeOK
<1>1. TypeOK'
  <2>1. clock + 1 \in Nat /\ clock' \in Nat
    BY <1>0, <1>a DEF TypeOK
  <2>2. event' \in [Types -> Nat]
    BY <1>0, <1>b, <2>1 DEF TypeOK
  <2>3. /\ phase' \in [Worker -> {"idle", "started", "acted", "failed"}]
        /\ wrote' \in [Worker -> Nat]
    BY <1>0, <1>a, <2>1 DEF TypeOK
  <2>4. \A v \in Worker :
          IF phase'[v] = "idle" THEN cur[v] = 0 /\ wrote'[v] = 0
          ELSE cur[v] # 0 /\ row[cur[v]].status = "Queued"
    BY <1>0, <1>a DEF TypeOK
  <2>5. causes' \subseteq Causes
    BY <1>0, <1>b DEF TypeOK, Causes
  <2>. QED
    BY <1>0, <1>a, <1>b, <2>1, <2>2, <2>3, <2>4, <2>5 DEF TypeOK, document,
       requests
<1>2. RowsAreTaken'
  BY <1>0 DEF RowsAreTaken, TypeOK, Act, Emit, IsLocked, IsCurrent,
     RowIsHeld, document, requests, workers, history
<1>3. StampsGrow'
  BY <1>0 DEF StampsGrow, OneWriter, TypeOK, Act, Emit, IsLocked, IsCurrent,
     RowIsHeld, document, requests, workers, history
<1>4. WishesAreOld'
  BY <1>0 DEF WishesAreOld, FinishedFits, StampsGrow, IsWish, TypeOK, Row,
     Actions, Act, Emit, IsLocked, IsCurrent, RowIsHeld, document, requests,
     workers, history
<1>5. OneWriter'
  <2>1. docstatus = From(row[cur[w]].action)
    <3>1. IsWish(row[cur[w]].action, version)
      BY <1>0, <1>a, <1>c DEF WishesAreOld
    <3>2. latest["submitted"] <= version /\ latest["submitted"] \in Nat /\ version \in Nat
      BY <1>0 DEF StampsGrow, TypeOK, Types
    <3>3. docstatus \in 0 .. 2
      BY <1>0 DEF TypeOK
    <3>4. row[cur[w]].action = "Submit" => docstatus = 0
      BY <3>1, <3>2 DEF IsWish
    <3>5. row[cur[w]].action # "Submit" => docstatus # 0
      BY <3>1 DEF IsWish
    <3>6. docstatus = 0 \/ docstatus = 1
      BY <1>a, <3>3
    <3>. QED
      BY <3>4, <3>5, <3>6 DEF From
  <2>. QED
    BY <1>0, <1>a, <2>1 DEF OneWriter, FitsAction, TypeOK, document
<1>6. FinishedFits'
  BY <1>0 DEF FinishedFits, OneWriter, RowsAreTaken, Finished, From, TypeOK,
     Row, Actions, Statuses, Act, Emit, IsLocked, IsCurrent, RowIsHeld,
     document, requests, workers, history
<1>7. LockedAlone'
  BY <1>0 DEF LockedAlone, Locking, TypeOK, Act, Emit, IsLocked, IsCurrent, RowIsHeld,
     document, requests, workers, history
<1>8. EventsFit'
  <2>. SUFFICES ASSUME causes' \cap {"lost", "undone"} = {}, NEW t \in Types
                PROVE  /\ \A v \in Worker : Told(t, v)' => event'[t] = wrote'[v]
                       /\ (\A v \in Worker : ~Told(t, v)') => event'[t] = latest'[t]
    BY DEF EventsFit
  <2>1. event[t] = latest[t] /\ latest' = latest
    BY <1>0, <1>a, <1>b DEF EventsFit, Told, document
  <2>2. wrote'[w] = clock + 1
    BY <1>0, <1>a DEF TypeOK
  <2>3. \A v \in Worker : Told(t, v)' <=> v = w /\ t \in EventsOf(row[cur[w]].action)
    BY <1>0, <1>a DEF Told, TypeOK
  <2>. QED
    BY <1>b, <2>1, <2>2, <2>3
<1>. QED
  BY <1>1, <1>2, <1>3, <1>4, <1>5, <1>6, <1>7, <1>8 DEF IInv

(* ... or gives up.                                                        *)
LEMMA ActFailsInv == ASSUME IInv, NEW w \in Worker, ActFails(w) PROVE IInv'
<1>0. /\ TypeOK /\ RowsAreTaken /\ StampsGrow /\ WishesAreOld
      /\ OneWriter /\ FinishedFits /\ LockedAlone /\ EventsFit
  BY DEF IInv
<1>1. TypeOK'
  BY <1>0 DEF TypeOK, Row, Wish, Statuses, Actions, Types, Causes, ActFails,
     document, requests, workers, history
<1>2. RowsAreTaken'
  BY <1>0 DEF RowsAreTaken, TypeOK, ActFails, document, requests, workers,
     history
<1>3. StampsGrow'
  BY <1>0 DEF StampsGrow, OneWriter, TypeOK, ActFails, document, requests,
     workers, history
<1>4. WishesAreOld'
  BY <1>0 DEF WishesAreOld, FinishedFits, StampsGrow, IsWish, TypeOK, Row,
     Actions, ActFails, document, requests, workers, history
<1>5. OneWriter'
  BY <1>0 DEF OneWriter, FitsAction, WishesAreOld, IsWish, StampsGrow, From,
     TypeOK, Row, Actions, ActFails, document, requests, workers, history
<1>6. FinishedFits'
  BY <1>0 DEF FinishedFits, OneWriter, RowsAreTaken, Finished, From, TypeOK,
     Row, Actions, Statuses, ActFails, document, requests, workers, history
<1>7. LockedAlone'
  BY <1>0 DEF LockedAlone, Locking, TypeOK, ActFails, document, requests, workers,
     history
<1>8. EventsFit'
  <2>. SUFFICES ASSUME causes' \cap {"lost", "undone"} = {}, NEW t \in Types
                PROVE  /\ \A v \in Worker : Told(t, v)' => event'[t] = wrote'[v]
                       /\ (\A v \in Worker : ~Told(t, v)') => event'[t] = latest'[t]
    BY DEF EventsFit
  <2>1. phase[w] # "acted" /\ causes \cap {"lost", "undone"} = {}
    BY DEF ActFails
  <2>2. \A v \in Worker : /\ Told(t, v)' <=> Told(t, v)
                          /\ Told(t, v) => wrote'[v] = wrote[v]
    BY <1>0, <2>1 DEF ActFails, Told, TypeOK
  <2>3. event' = event /\ latest' = latest
    BY DEF ActFails, document
  <2>. QED
    BY <1>0, <2>1, <2>2, <2>3 DEF EventsFit
<1>. QED
  BY <1>1, <1>2, <1>3, <1>4, <1>5, <1>6, <1>7, <1>8 DEF IInv

(* Its commit decides the document and the row.                            *)
LEMMA ConcludeInv == ASSUME IInv, NEW w \in Worker, Conclude(w) PROVE IInv'
<1>0. /\ TypeOK /\ RowsAreTaken /\ StampsGrow /\ WishesAreOld
      /\ OneWriter /\ FinishedFits /\ LockedAlone /\ EventsFit
  BY DEF IInv
<1>. DEFINE r == cur[w]
<1>a. /\ phase[w] \in {"acted", "failed"}
      /\ row' = [row EXCEPT ![r].status = Outcome(w)]
      /\ phase' = [phase EXCEPT ![w] = "idle"] /\ cur' = [cur EXCEPT ![w] = 0]
      /\ wrote' = [wrote EXCEPT ![w] = 0]
      /\ UNCHANGED <<lock, jobs, requests, event, clock, history>>
  BY DEF Conclude, Leave
<1>b. /\ phase[w] # "acted" => UNCHANGED document
      /\ phase[w] = "acted" =>
           /\ version' = wrote[w] /\ docstatus' = From(row[r].action) + 1
           /\ latest' = [t \in Types |-> IF t \in EventsOf(row[r].action) THEN wrote[w]
                                         ELSE latest[t]]
  BY <1>a DEF Conclude
<1>c. /\ r \in DOMAIN row /\ row[r].status = "Queued" /\ row[r].action \in Actions
      /\ r \notin jobs /\ Outcome(w) \in {"Finished", "Failed"}
  BY <1>0, <1>a, RowsAreRows DEF TypeOK, RowsAreTaken, Outcome
<1>d. /\ row' \in Seq(Row) /\ Len(row') = Len(row) /\ DOMAIN row' = DOMAIN row
      /\ \A q \in DOMAIN row : /\ q # r => row'[q] = row[q]
                               /\ row'[q].action = row[q].action
                               /\ row'[q].version = row[q].version
      /\ row'[r].status = Outcome(w)
  BY <1>0, <1>a, <1>c, StatusChanges DEF Statuses
<1>e. /\ wrote[w] \in Nat /\ clock \in Nat /\ version \in Nat
      /\ \A t \in Types : latest[t] \in Nat /\ latest[t] <= version
      /\ version <= clock
      /\ phase[w] = "acted" => version < wrote[w] /\ wrote[w] <= clock
  BY <1>0 DEF TypeOK, StampsGrow
<1>f. \A v \in Worker : phase'[v] = "acted" => v # w /\ phase[v] = "acted" /\ phase[w] # "acted"
  BY <1>0, <1>a DEF TypeOK, OneWriter
<1>1. TypeOK'
  <2>1. version' \in Nat /\ docstatus' \in 0 .. 2 /\ latest' \in [Types -> Nat]
    <3>1. CASE phase[w] # "acted"
      BY <1>0, <1>b, <3>1 DEF TypeOK, document
    <3>2. CASE phase[w] = "acted"
      <4>1. latest' \in [Types -> Nat]
        BY <1>b, <1>e, <3>2
      <4>. QED
        BY <1>b, <1>e, <3>2, <4>1 DEF From
    <3>. QED
      BY <3>1, <3>2
  <2>2. jobs' \subseteq {q \in DOMAIN row' : row'[q].status = "Queued"}
    BY <1>0, <1>a, <1>c, <1>d DEF TypeOK
  <2>3. /\ phase' \in [Worker -> {"idle", "started", "acted", "failed"}]
        /\ cur' \in [Worker -> 0 .. Len(row')] /\ wrote' \in [Worker -> Nat]
    BY <1>0, <1>a, <1>d DEF TypeOK
  <2>4. \A v \in Worker :
          IF phase'[v] = "idle" THEN cur'[v] = 0 /\ wrote'[v] = 0
          ELSE cur'[v] # 0 /\ row'[cur'[v]].status = "Queued"
    <3>1. ASSUME NEW v \in Worker, v # w, phase[v] # "idle"
          PROVE  cur[v] \in DOMAIN row /\ cur[v] # r
      BY <1>0, <1>c, <3>1 DEF TypeOK, RowsAreTaken
    <3>. QED
      BY <1>0, <1>a, <1>d, <3>1 DEF TypeOK
  <2>. QED
    BY <1>0, <1>a, <1>d, <2>1, <2>2, <2>3, <2>4 DEF TypeOK, requests, history
<1>2. RowsAreTaken'
  BY <1>0 DEF RowsAreTaken, TypeOK, Conclude, Leave, Outcome, document,
     requests, workers, history
<1>3. StampsGrow'
  <2>1. CASE phase[w] # "acted"
    BY <1>0, <1>a, <1>b, <2>1 DEF StampsGrow, TypeOK, document
  <2>2. CASE phase[w] = "acted"
    <3>1. \A t \in Types : latest'[t] <= version'
      BY <1>b, <1>e, <2>2
    <3>2. version' <= clock'
      BY <1>a, <1>b, <1>e, <2>2
    <3>. QED
      BY <1>f, <2>2, <3>1, <3>2 DEF StampsGrow
  <2>. QED
    BY <2>1, <2>2
<1>4. WishesAreOld'
  <2>1. ASSUME NEW a \in Actions, NEW n \in Nat, IsWish(a, n) PROVE IsWish(a, n)'
    <3>1. CASE phase[w] # "acted"
      BY <1>b, <2>1, <3>1 DEF IsWish, document
    <3>2. CASE phase[w] = "acted"
      <4>1. docstatus' # 0
        BY <1>b, <3>2 DEF From
      <4>2. docstatus = From(row[r].action)
        BY <1>0, <3>2 DEF OneWriter, FitsAction
      <4>3. CASE row[r].action = "Submit"
        <5>1. latest'["submitted"] = wrote[w]
          BY <1>b, <3>2, <4>3 DEF Types, EventsOf
        <5>2. a = "Submit" => n <= version
          BY <2>1 DEF IsWish
        <5>3. a = "Submit" => n <= version' /\ n < latest'["submitted"]
          BY <1>b, <1>e, <3>2, <5>1, <5>2
        <5>. QED
          BY <4>1, <5>3 DEF IsWish
      <4>4. CASE row[r].action # "Submit"
        <5>1. latest'["submitted"] = latest["submitted"]
          BY <1>b, <3>2, <4>4 DEF Types, EventsOf
        <5>2. a = "Submit" => n <= version /\ n < latest["submitted"]
          BY <2>1, <4>2, <4>4 DEF IsWish, From
        <5>3. a = "Submit" => n <= version' /\ n < latest'["submitted"]
          BY <1>b, <1>e, <3>2, <5>1, <5>2
        <5>. QED
          BY <4>1, <5>3 DEF IsWish
      <4>. QED
        BY <4>3, <4>4
    <3>. QED
      BY <3>1, <3>2
  <2>2. /\ \A s \in Session : want[s].action \in Actions /\ want[s].version \in Nat
        /\ \A q \in DOMAIN row : row[q].action \in Actions /\ row[q].version \in Nat
    BY <1>0, RowsAreRows DEF TypeOK, Wish
  <2>. QED
    BY <1>0, <1>a, <1>d, <2>1, <2>2 DEF WishesAreOld, requests
<1>5. OneWriter'
  BY <1>0 DEF OneWriter, FitsAction, WishesAreOld, IsWish, StampsGrow, From,
     TypeOK, Row, Actions, Conclude, Leave, Outcome, document, requests,
     workers, history
<1>6. FinishedFits'
  <2>1. ASSUME NEW a \in Actions
        PROVE  /\ \A p, q \in Finished(a)' : p = q
               /\ Finished(a)' # {} => docstatus' > From(a)
    <3>1. CASE phase[w] # "acted"
      <4>1. Finished(a)' = Finished(a)
        BY <1>c, <1>d, <3>1 DEF Finished, Outcome
      <4>. QED
        BY <1>0, <1>b, <3>1, <4>1 DEF FinishedFits, document
    <3>2. CASE phase[w] = "acted"
      <4>1. docstatus = From(row[r].action) /\ docstatus' = From(row[r].action) + 1
        BY <1>0, <1>b, <3>2 DEF OneWriter, FitsAction
      <4>2. /\ a = row[r].action => Finished(a)' = Finished(a) \cup {r}
            /\ a # row[r].action => Finished(a)' = Finished(a)
        BY <1>c, <1>d, <3>2 DEF Finished, Outcome
      <4>3. a = row[r].action => Finished(a) = {}
        BY <1>0, <4>1 DEF FinishedFits, From
      <4>4. Finished(a) # {} => docstatus > From(a)
        BY <1>0 DEF FinishedFits
      <4>. QED
        BY <1>0, <4>1, <4>2, <4>3, <4>4 DEF FinishedFits, From
    <3>. QED
      BY <3>1, <3>2
  <2>. QED
    BY <2>1 DEF FinishedFits
<1>7. LockedAlone'
  BY <1>0 DEF LockedAlone, Locking, TypeOK, Conclude, Leave, Outcome, document,
     requests, workers, history
<1>8. EventsFit'
  <2>. SUFFICES ASSUME causes' \cap {"lost", "undone"} = {}, NEW t \in Types
                PROVE  /\ \A v \in Worker : Told(t, v)' => event'[t] = wrote'[v]
                       /\ (\A v \in Worker : ~Told(t, v)') => event'[t] = latest'[t]
    BY DEF EventsFit
  <2>1. /\ \A v \in Worker : Told(t, v) => event[t] = wrote[v]
        /\ (\A v \in Worker : ~Told(t, v)) => event[t] = latest[t]
    BY <1>0, <1>a DEF EventsFit, history
  <2>2. CASE phase[w] # "acted"
    <3>1. \A v \in Worker : Told(t, v)' <=> Told(t, v)
      BY <1>0, <1>a, <1>d, <2>2 DEF Told, TypeOK
    <3>2. \A v \in Worker : Told(t, v) => wrote'[v] = wrote[v]
      BY <1>0, <1>a, <2>2 DEF Told, TypeOK
    <3>. QED
      BY <1>a, <1>b, <2>1, <2>2, <3>1, <3>2 DEF document
  <2>3. CASE phase[w] = "acted"
    <3>1. \A v \in Worker : ~Told(t, v)'
      BY <1>f, <2>3 DEF Told
    <3>2. \A v \in Worker : phase[v] = "acted" => v = w
      BY <1>0, <2>3 DEF OneWriter
    <3>3. t \in EventsOf(row[r].action) => event[t] = wrote[w]
      BY <2>1, <2>3 DEF Told
    <3>4. t \notin EventsOf(row[r].action) => event[t] = latest[t]
      BY <2>1, <2>3, <3>2 DEF Told
    <3>. QED
      BY <1>a, <1>b, <2>3, <3>1, <3>3, <3>4
  <2>. QED
    BY <2>2, <2>3
<1>. QED
  BY <1>1, <1>2, <1>3, <1>4, <1>5, <1>6, <1>7, <1>8 DEF IInv

(* What is undone leaves the row as it was ...                             *)
LEMMA NotifyFailsInv ==
  ASSUME IInv, NEW w \in Worker, NotifyFails(w) PROVE IInv'
<1>0. /\ TypeOK /\ RowsAreTaken /\ StampsGrow /\ WishesAreOld
      /\ OneWriter /\ FinishedFits /\ LockedAlone /\ EventsFit
  BY DEF IInv
<1>1. TypeOK'
  BY <1>0 DEF TypeOK, Row, Wish, Statuses, Actions, Types, Causes, NotifyFails, Undo,
     Leave, document, requests, workers, history
<1>2. RowsAreTaken'
  BY <1>0 DEF RowsAreTaken, TypeOK, NotifyFails, Undo, Leave, document,
     requests, workers, history
<1>3. StampsGrow'
  BY <1>0 DEF StampsGrow, OneWriter, TypeOK, NotifyFails, Undo, Leave,
     document, requests, workers, history
<1>4. WishesAreOld'
  BY <1>0 DEF WishesAreOld, FinishedFits, StampsGrow, IsWish, TypeOK, Row,
     Actions, NotifyFails, Undo, Leave, document, requests, workers, history
<1>5. OneWriter'
  BY <1>0 DEF OneWriter, FitsAction, WishesAreOld, IsWish, StampsGrow, From,
     TypeOK, Row, Actions, NotifyFails, Undo, Leave, document, requests,
     workers, history
<1>6. FinishedFits'
  BY <1>0 DEF FinishedFits, OneWriter, RowsAreTaken, Finished, From, TypeOK,
     Row, Actions, Statuses, NotifyFails, Undo, Leave, document, requests,
     workers, history
<1>7. LockedAlone'
  BY <1>0 DEF LockedAlone, Locking, TypeOK, NotifyFails, Undo, Leave, document,
     requests, workers, history
<1>8. EventsFit'
  <2>. SUFFICES ASSUME causes' \cap {"lost", "undone"} = {}, NEW t \in Types
                PROVE  /\ \A v \in Worker : Told(t, v)' => event'[t] = wrote'[v]
                       /\ (\A v \in Worker : ~Told(t, v)') => event'[t] = latest'[t]
    BY DEF EventsFit
  <2>1. phase[w] # "acted" /\ causes \cap {"lost", "undone"} = {}
    BY DEF NotifyFails, Undo
  <2>2. \A v \in Worker : /\ Told(t, v)' <=> Told(t, v)
                          /\ Told(t, v) => wrote'[v] = wrote[v]
    BY <1>0, <2>1 DEF NotifyFails, Undo, Leave, Told, TypeOK
  <2>3. event' = event /\ latest' = latest
    BY DEF NotifyFails, Undo, document
  <2>. QED
    BY <1>0, <2>1, <2>2, <2>3 DEF EventsFit
<1>. QED
  BY <1>1, <1>2, <1>3, <1>4, <1>5, <1>6, <1>7, <1>8 DEF IInv

(* ... and so does a crash.                                                *)
LEMMA CrashInv == ASSUME IInv, NEW w \in Worker, Crash(w) PROVE IInv'
<1>0. /\ TypeOK /\ RowsAreTaken /\ StampsGrow /\ WishesAreOld
      /\ OneWriter /\ FinishedFits /\ LockedAlone /\ EventsFit
  BY DEF IInv
<1>1. TypeOK'
  BY <1>0 DEF TypeOK, Row, Wish, Statuses, Actions, Types, Causes, Crash, Undo,
     Leave, document, requests, workers, history
<1>2. RowsAreTaken'
  BY <1>0 DEF RowsAreTaken, TypeOK, Crash, Undo, Leave, document, requests,
     workers, history
<1>3. StampsGrow'
  BY <1>0 DEF StampsGrow, OneWriter, TypeOK, Crash, Undo, Leave, document,
     requests, workers, history
<1>4. WishesAreOld'
  BY <1>0 DEF WishesAreOld, FinishedFits, StampsGrow, IsWish, TypeOK, Row,
     Actions, Crash, Undo, Leave, document, requests, workers, history
<1>5. OneWriter'
  BY <1>0 DEF OneWriter, FitsAction, WishesAreOld, IsWish, StampsGrow, From,
     TypeOK, Row, Actions, Crash, Undo, Leave, document, requests, workers,
     history
<1>6. FinishedFits'
  BY <1>0 DEF FinishedFits, OneWriter, RowsAreTaken, Finished, From, TypeOK,
     Row, Actions, Statuses, Crash, Undo, Leave, document, requests, workers,
     history
<1>7. LockedAlone'
  BY <1>0 DEF LockedAlone, Locking, TypeOK, Crash, Undo, Leave, document, requests,
     workers, history
<1>8. EventsFit'
  <2>. SUFFICES ASSUME causes' \cap {"lost", "undone"} = {}, NEW t \in Types
                PROVE  /\ \A v \in Worker : Told(t, v)' => event'[t] = wrote'[v]
                       /\ (\A v \in Worker : ~Told(t, v)') => event'[t] = latest'[t]
    BY DEF EventsFit
  <2>1. phase[w] # "acted" /\ causes \cap {"lost", "undone"} = {}
    BY DEF Crash, Undo
  <2>2. \A v \in Worker : /\ Told(t, v)' <=> Told(t, v)
                          /\ Told(t, v) => wrote'[v] = wrote[v]
    BY <1>0, <2>1 DEF Crash, Undo, Leave, Told, TypeOK
  <2>3. event' = event /\ latest' = latest
    BY DEF Crash, Undo, document
  <2>. QED
    BY <1>0, <2>1, <2>2, <2>3 DEF EventsFit
<1>. QED
  BY <1>1, <1>2, <1>3, <1>4, <1>5, <1>6, <1>7, <1>8 DEF IInv

-----------------------------------------------------------------------------
(* The inductive invariant holds in every reachable state.                 *)
THEOREM InvariantHolds == Spec => []IInv
<1>1. ASSUME IInv, UNCHANGED vars PROVE IInv'
  <2>. USE <1>1 DEF vars, document, requests, workers, history
  <2>1. TypeOK' /\ RowsAreTaken' /\ StampsGrow'
    BY DEF IInv, TypeOK, RowsAreTaken, StampsGrow
  <2>2. WishesAreOld' /\ OneWriter'
    BY DEF IInv, WishesAreOld, IsWish, OneWriter, FitsAction
  <2>3. FinishedFits' /\ LockedAlone' /\ EventsFit'
    BY DEF IInv, FinishedFits, Finished, LockedAlone, Locking, EventsFit, Told
  <2>. QED
    BY <2>1, <2>2, <2>3 DEF IInv
<1>2. ASSUME IInv, [Next]_vars PROVE IInv'
  BY <1>1, <1>2, SaveInv, SaveFailsInv, AskForInv, TestLockInv, DeleteLockInv,
     CreateLockInv, RefuseInv, CommitInv, CommitOnlyInv, AbortInv, ExpireInv,
     ForceUnlockInv, ClearOldLogsInv, StartInv, ActInv,
     ActFailsInv, ConcludeInv, NotifyFailsInv, CrashInv
     DEF Next, Requests, Works
<1>. QED
  BY InitInv, <1>2, PTL DEF Spec

(* Every variable keeps its type; a worker's row stays Queued.             *)
THEOREM TypeCorrect == Spec => []TypeOK
<1>1. IInv => TypeOK
  BY DEF IInv
<1>. QED
  BY <1>1, InvariantHolds, PTL

(* Unless a request makes its lock file between another one's look for it  *)
(* and its creation, or a lock expires or is removed by hand, one job      *)
(* waits at most, and nobody else is on the way to queue one.              *)
THEOREM OneWaits == Spec => []WaitsAlone
<1>1. ASSUME IInv PROVE WaitsAlone
  <2>. SUFFICES ASSUME causes \cap {"raced", "expired", "forced"} = {}
                PROVE  /\ Cardinality(jobs) <= 1
                       /\ jobs # {} => lock = "held" /\ \A s \in Session : at[s] # "locked"
    BY DEF WaitsAlone
  <2>1. /\ \A q, r \in jobs : q = r
        /\ jobs # {} => lock = "held" /\ \A s \in Session : at[s] # "locked"
    BY <1>1 DEF IInv, LockedAlone
  <2>2. Cardinality(jobs) <= 1
    <3>1. CASE jobs = {}
      BY <3>1, FS_EmptySet
    <3>2. ASSUME NEW r \in jobs PROVE Cardinality(jobs) <= 1
      <4>1. jobs = {r}
        BY <2>1, <3>2
      <4>. QED
        BY <4>1, FS_Singleton
    <3>. QED
      BY <3>1, <3>2
  <2>. QED
    BY <2>1, <2>2
<1>. QED
  BY <1>1, InvariantHolds, PTL

(* However many rows asked for it, one is Finished for each change, and    *)
(* the document has that change.                                           *)
THEOREM OneFinished == Spec => []FinishedOnce
<1>1. ASSUME IInv PROVE FinishedOnce
  <2>. SUFFICES ASSUME NEW a \in Actions
                PROVE  Cardinality(Finished(a)) <= 1
    BY <1>1 DEF IInv, FinishedFits, FinishedOnce
  <2>1. CASE Finished(a) = {}
    BY <2>1, FS_EmptySet
  <2>2. ASSUME NEW r \in Finished(a) PROVE Cardinality(Finished(a)) <= 1
    <3>1. Finished(a) = {r}
      BY <1>1, <2>2 DEF IInv, FinishedFits
    <3>. QED
      BY <3>1, FS_Singleton
  <2>. QED
    BY <2>1, <2>2
<1>. QED
  BY <1>1, InvariantHolds, PTL

(* The bridge tells of the last change, unless an event was lost or what   *)
(* it told of was undone.                                                  *)
THEOREM ExactEvents == Spec => []EventsAreExact
<1>1. IInv => EventsAreExact
  BY DEF IInv, EventsFit, EventsAreExact, Told
<1>. QED
  BY <1>1, InvariantHolds, PTL
=============================================================================
