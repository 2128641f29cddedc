--------------------------- MODULE DocumentProofs ---------------------------
(***************************************************************************)
(* Proofs about Document.tla, for every set of sessions and workers and    *)
(* every bound.                                                            *)
(***************************************************************************)
EXTENDS Document, TLAPS

USE DocumentAssumption

(* The first version is a row.                                             *)
LEMMA NewRowType == NewRow \in Row
  BY DEF NewRow, Row, Stamp, DocStatus, Draft, Submitted, Cancelled

(* The initial values have their types.                                    *)
LEMMA InitType == Init => TypeOK
<1> SUFFICES ASSUME Init PROVE TypeOK
  OBVIOUS
<1>1. orphaned \in BOOLEAN
  BY Zenon DEF Init
<1>2. QED
  BY <1>1, NewRowType DEF Init, TypeOK, Phases, Proc, Stamp

(* Every variable keeps its type: in particular a worker never takes a job *)
(* that is not there, and docstatus stays one of the three values of       *)
(* frappe/model/docstatus.py.                                              *)
THEOREM TypeCorrect == Spec => []TypeOK
<1>1. Init => TypeOK
  BY InitType
<1>2. TypeOK /\ [Next]_vars => TypeOK'
  <2> SUFFICES ASSUME TypeOK, [Next]_vars PROVE TypeOK'
    OBVIOUS
  <2> USE NewRowType DEF TypeOK, Phases
  <2>0. ASSUME NEW p \in Proc, NEW a \in {"save", "discard", "db_set"}, NEW c \in Row,
               NEW k \in DocStatus, Stamped(p, a, c, k)
        PROVE  /\ clock' \in Stamp /\ phase' \in [Proc -> Phases]
               /\ act' \in [Proc -> {"save", "discard", "db_set"}]
               /\ orig' \in [Proc -> Stamp] /\ doc' \in [Proc -> Row]
    BY <2>0 DEF Stamped, Row, Stamp
  <2>1. ASSUME NEW s \in Session, SessionStep(s) PROVE TypeOK'
    <3>0. s \in Proc
      BY DEF Proc
    <3>1. CASE Open(s)
      BY <3>1 DEF Open
    <3>2. ASSUME NEW a \in {"save", "discard", "db_set"}, NEW c \in Row,
                 NEW k \in DocStatus, BeginOn(s, a, c, k)
          PROVE  TypeOK'
      BY <3>0, <3>2, <2>0 DEF BeginOn
    <3>3. CASE \E k \in DocStatus : SaveDocs(s, k)
      BY <3>2, <3>3 DEF SaveDocs
    <3>4. CASE CancelDoc(s)
      BY <3>2, <3>4 DEF CancelDoc, DocStatus
    <3>5. CASE DiscardDoc(s)
      BY <3>2, <3>5 DEF DiscardDoc, Row
    <3>6. CASE BeginDbSet(s)
      BY <3>2, <3>6 DEF BeginDbSet, Row
    <3>7. CASE \E k \in {Submitted, Cancelled} : QueueAction(s, k)
      BY <3>0, <3>7 DEF QueueAction, Row, DocStatus
    <3>8. CASE CreateLock(s)
      BY <3>8, <3>0 DEF CreateLock
    <3>9. CASE CommitQueued(s)
      <4>1. jobs' \in [{Submitted, Cancelled} -> Nat]
        <5>1. \A k \in {Submitted, Cancelled} : jobs[k] + 1 \in Nat
          OBVIOUS
        <5>2. QED
          BY <3>9, <5>1 DEF CommitQueued
      <4>2. QED
        BY <3>9, <3>0, <4>1 DEF CommitQueued, Finish, Stamp
    <3>10. QED
      BY <2>1, <3>1, <3>3, <3>4, <3>5, <3>6, <3>7, <3>8, <3>9 DEF SessionStep
  <2>2. ASSUME NEW w \in Worker, WorkerStep(w) PROVE TypeOK'
    <3>0. w \in Proc
      BY DEF Proc
    <3>1. ASSUME NEW k \in {Submitted, Cancelled}, LoadJob(w, k) PROVE TypeOK'
      BY <3>0, <3>1 DEF LoadJob, Pending, Row, DocStatus
    <3>2. CASE UnlockJob(w)
      BY <3>0, <3>2 DEF UnlockJob
    <3>3. CASE RunJob(w)
      BY <3>0, <3>3, <2>0 DEF RunJob, Row
    <3>4. QED
      BY <2>2, <3>1, <3>2, <3>3 DEF WorkerStep
  <2>3. ASSUME NEW p \in Proc, ProcStep(p) PROVE TypeOK'
    <3>1. CASE WriteRow(p)
      <4>1. NewVersion(p) \in Row
        BY <3>1 DEF WriteRow, NewVersion, DbSet, Row, DocStatus
      <4>2. QED
        BY <3>1, <4>1 DEF WriteRow
    <3>2. CASE Commit(p)
      BY <3>2 DEF Commit, Finish, Stamp
    <3>3. ASSUME Release(p), orphaned' \in BOOLEAN PROVE TypeOK'
      BY <3>3 DEF Release, Finish, Stamp
    <3>4. CASE Refuse(p)
      BY <3>3, <3>4 DEF Refuse
    <3>5. CASE Abort(p)
      <4>1. orphaned' \in BOOLEAN
        BY <3>5 DEF Abort
      <4>2. QED
        BY <3>3, <3>5, <4>1 DEF Abort
    <3>6. QED
      BY <2>3, <3>1, <3>2, <3>4, <3>5 DEF ProcStep
  <2>4. CASE UnlockDocument
    BY <2>4 DEF UnlockDocument
  <2>5. CASE LockExpires
    BY <2>5 DEF LockExpires
  <2>6. CASE UNCHANGED vars
    BY <2>6 DEF vars
  <2>7. QED
    BY <2>1, <2>2, <2>3, <2>4, <2>5, <2>6 DEF Next
<1>3. QED
  BY <1>1, <1>2, PTL DEF Spec

-----------------------------------------------------------------------------
(* The inductive invariant, one lemma for each way a step touches it.      *)

(* A process that ends its request or its job without committing, and      *)
(* gives up the row lock if it had it, keeps the invariant.                *)
LEMMA FinishKeepsInv ==
  ASSUME RowInv, TypeOK', NEW p \in Proc, Finish(p),
         rowLock' = IF rowLock = p THEN NoProc ELSE rowLock,
         UNCHANGED <<db, clock, form>>
  PROVE  RowInv'
<1> USE DEF RowInv, TypeOK, Finish
<1>0. /\ phase'[p] = "idle" /\ snap'[p] = NewRow /\ orig'[p] = 0
      /\ \A q \in Proc \ {p} : /\ phase'[q] = phase[q] /\ snap'[q] = snap[q]
                               /\ orig'[q] = orig[q] /\ doc'[q] = doc[q]
                               /\ act'[q] = act[q]
  OBVIOUS
<1>1. Saving' = Saving \ {p} /\ Writing' = Writing \ {p}
  BY <1>0 DEF Saving, Writing
<1>2. StampsAreFresh'
  BY <1>0, <1>1 DEF StampsAreFresh, Saving
<1>3. CopiesAreCommitted'
  BY <1>0 DEF CopiesAreCommitted, NewRow, FirstVersion
<1>4. ModifiedIdentifiesVersion'
  BY <1>0 DEF ModifiedIdentifiesVersion, FirstVersion, NewRow
<1>5. ObjectsExtendTheirBase'
  BY <1>0 DEF ObjectsExtendTheirBase
<1>6. WriterHoldsRow'
  BY <1>0, <1>1 DEF WriterHoldsRow, Writing
<1>7. QED
  BY <1>2, <1>3, <1>4, <1>5, <1>6 DEF FirstVersion

(* Starting a save of a committed copy c keeps the invariant: the new      *)
(* stamp is later than every stamp in the row and in other saves.          *)
LEMMA StampedKeepsInv ==
  ASSUME RowInv, TypeOK', NEW p \in Proc, NEW a, NEW c \in Row, NEW k \in DocStatus,
         phase[p] \in {"idle", "unlocked"}, Stamped(p, a, c, k),
         c.modified \in db.edits,
         c.modified = db.modified =>
           c.edits = db.edits /\ (a = "discard" => k = db.docstatus),
         snap' = snap \/ snap' = [snap EXCEPT ![p] = db],
         UNCHANGED <<db, rowLock, form>>
  PROVE  RowInv'
<1> USE DEF RowInv, TypeOK
<1>0. /\ phase'[p] = "saving" /\ orig'[p] = c.modified /\ act'[p] = a
      /\ doc'[p] = [modified |-> clock + 1, docstatus |-> k, edits |-> c.edits \cup {clock + 1}]
      /\ snap'[p] \in {snap[p], db}
      /\ \A q \in Proc \ {p} : /\ phase'[q] = phase[q] /\ snap'[q] = snap[q]
                               /\ orig'[q] = orig[q] /\ doc'[q] = doc[q]
                               /\ act'[q] = act[q]
  BY DEF Stamped
<1>1. Saving' = Saving \cup {p} /\ Writing' = Writing
  BY <1>0 DEF Saving, Writing
<1>2. StampsAreFresh'
  <2>1. clock' = clock + 1 /\ clock \in Nat
    BY DEF Stamped, Stamp
  <2>2. \A e \in db.edits : e \in Nat /\ e <= clock
    BY DEF StampsAreFresh, Row, Stamp
  <2>3. \A q \in Saving : doc[q].modified \in Nat /\ doc[q].modified <= clock
    BY DEF StampsAreFresh, Saving, Row, Stamp
  <2>4. p \notin Saving
    BY DEF Saving
  <2>5. \A q \in Saving : doc'[q] = doc[q]
    BY <1>0, <2>4 DEF Saving
  <2>6. doc'[p].modified = clock + 1 /\ p \in Proc
    BY <1>0
  <2>7. \A q \in Saving' : doc'[q].modified <= clock' /\ doc'[q].modified \notin db.edits
    BY <1>1, <2>1, <2>2, <2>3, <2>5, <2>6 DEF StampsAreFresh
  <2>8. \A q, r \in Saving' : q # r => doc'[q].modified # doc'[r].modified
    BY <1>1, <2>1, <2>3, <2>5, <2>6 DEF StampsAreFresh
  <2>9. \A e \in db.edits : e <= clock'
    BY <2>1, <2>2
  <2>10. QED
    BY <2>7, <2>8, <2>9 DEF StampsAreFresh
<1>3. CopiesAreCommitted'
  BY <1>0 DEF CopiesAreCommitted, StampsAreFresh
<1>4. ModifiedIdentifiesVersion'
  BY <1>0 DEF ModifiedIdentifiesVersion
<1>5. ObjectsExtendTheirBase'
  BY <1>0 DEF ObjectsExtendTheirBase
<1>6. WriterHoldsRow'
  <2>1. \A q \in Proc : phase'[q] = "written" <=> phase[q] = "written"
    BY <1>0
  <2>2. \A q \in Writing : doc'[q] = doc[q]
    BY <1>0 DEF Writing
  <2>3. QED
    BY <1>1, <2>1, <2>2 DEF WriterHoldsRow
<1>7. QED
  BY <1>2, <1>3, <1>4, <1>5, <1>6 DEF FirstVersion

(* Taking the row lock and writing: the checks of check_if_latest make the *)
(* written row one legal change of the committed one.                      *)
LEMMA WriteRowKeepsInv ==
  ASSUME RowInv, TypeOK', NEW p \in Proc, WriteRow(p)
  PROVE  RowInv'
<1> USE DEF RowInv, TypeOK
<1>0. /\ phase[p] = "saving" /\ phase'[p] = "written" /\ doc'[p] = NewVersion(p)
      /\ rowLock = NoProc /\ rowLock' = p /\ Accepts(p)
      /\ \A q \in Proc \ {p} : phase'[q] = phase[q] /\ doc'[q] = doc[q]
      /\ UNCHANGED <<db, clock, act, snap, orig, form>>
  BY DEF WriteRow, ForUpdate
<1>1. Saving' = Saving /\ Writing' = {p} /\ p \in Saving
  <2>1. \A q \in Proc : phase[q] # "written"
    BY <1>0 DEF WriterHoldsRow
  <2>2. QED
    BY <1>0, <2>1 DEF Saving, Writing
<1>2. doc'[p].modified = doc[p].modified
  BY <1>0 DEF NewVersion, DbSet, Row
<1>3. StampsAreFresh'
  <2>1. \A q \in Saving : doc'[q].modified = doc[q].modified
    BY <1>0, <1>2 DEF Saving
  <2>2. QED
    BY <1>0, <1>1, <2>1 DEF StampsAreFresh
<1>4. CopiesAreCommitted'
  BY <1>0 DEF CopiesAreCommitted
<1>5. ModifiedIdentifiesVersion'
  BY <1>0 DEF ModifiedIdentifiesVersion
<1>6. ObjectsExtendTheirBase'
  BY <1>0 DEF ObjectsExtendTheirBase
<1>7. WriterHoldsRow'
  <2>1. doc'[p].edits = db.edits \cup {doc'[p].modified}
    <3>1. CASE act[p] = "save"
      <4>1. doc[p].edits = db.edits \cup {doc[p].modified}
        BY <1>0, <3>1 DEF Accepts, CheckIfLatest, ObjectsExtendTheirBase
      <4>2. QED
        BY <1>0, <3>1, <4>1 DEF NewVersion
    <3>2. CASE act[p] \in {"discard", "db_set"}
      BY <1>0, <3>2 DEF NewVersion, DbSet
    <3>3. QED
      BY <3>1, <3>2
  <2>2. LegalStep(db.docstatus, doc'[p].docstatus)
    <3>1. CASE act[p] = "save"
      BY <1>0, <3>1 DEF NewVersion, Accepts, ValidTransition, LegalStep
    <3>2. CASE act[p] = "discard"
      BY <1>0, <3>2 DEF NewVersion, DbSet, Accepts, CheckIfLatest, LegalStep,
                        ObjectsExtendTheirBase
    <3>3. CASE act[p] = "db_set"
      BY <1>0, <3>3 DEF NewVersion, DbSet, LegalStep
    <3>4. QED
      BY <3>1, <3>2, <3>3
  <2>3. \A q \in Proc : phase'[q] = "written" <=> rowLock' = q
    BY <1>0, <1>1 DEF Writing
  <2>4. QED
    BY <1>0, <1>1, <2>1, <2>2, <2>3 DEF WriterHoldsRow, LegalStep
<1>8. QED
  BY <1>0, <1>3, <1>4, <1>5, <1>6, <1>7 DEF FirstVersion

(* Commit: the new version's stamp is in no copy, so every older copy is   *)
(* recognised as stale from now on.                                        *)
LEMMA CommitKeepsInv ==
  ASSUME RowInv, TypeOK', NEW p \in Proc, Commit(p)
  PROVE  RowInv'
<1> USE DEF RowInv, TypeOK
<1> DEFINE new == doc[p]
<1>0. /\ phase[p] = "written" /\ phase'[p] = "idle" /\ snap'[p] = NewRow /\ orig'[p] = 0
      /\ \A q \in Proc \ {p} : /\ phase'[q] = phase[q] /\ snap'[q] = snap[q]
                               /\ orig'[q] = orig[q] /\ doc'[q] = doc[q]
                               /\ act'[q] = act[q]
      /\ db' = new /\ rowLock' = NoProc /\ clock' = clock
      /\ \A s \in Session : form'[s] \in {form[s], new}
  BY DEF Commit, Finish
<1>1. /\ new.edits = db.edits \cup {new.modified} /\ new.modified \notin db.edits
      /\ new.modified <= clock
  BY <1>0 DEF WriterHoldsRow, StampsAreFresh, Writing, Saving
<1>2. Saving' = Saving \ {p} /\ Writing' = {}
  <2>1. \A q \in Proc : phase[q] = "written" => q = p
    BY <1>0 DEF WriterHoldsRow
  <2>2. QED
    BY <1>0, <2>1 DEF Saving, Writing
<1>3. p \in Saving
  BY <1>0 DEF Saving
<1>4. StampsAreFresh'
  BY <1>0, <1>1, <1>2, <1>3 DEF StampsAreFresh, Saving
<1>5. FirstVersion'
  BY <1>0, <1>1 DEF FirstVersion
<1>6. CopiesAreCommitted'
  <2>1. new.modified \in db'.edits /\ NewRow.modified \in db'.edits /\ 0 \in db'.edits
        /\ \A e \in db.edits : e \in db'.edits
    BY <1>0, <1>1 DEF FirstVersion, NewRow
  <2>2. \A s \in Session : form'[s].modified \in db'.edits
    BY <1>0, <2>1 DEF CopiesAreCommitted
  <2>3. \A q \in Proc : snap'[q].modified \in db'.edits /\ orig'[q] \in db'.edits
    BY <1>0, <2>1 DEF CopiesAreCommitted
  <2>4. \A q \in Proc : phase'[q] \in {"loaded", "unlocked"} => doc'[q].modified \in db'.edits
    <3>1. ASSUME NEW q \in Proc, q # p, phase[q] \in {"loaded", "unlocked"}
          PROVE  doc'[q].modified \in db'.edits
      BY <1>0, <2>1, <3>1 DEF CopiesAreCommitted
    <3>2. QED
      BY <1>0, <3>1
  <2>5. QED
    BY <2>2, <2>3, <2>4 DEF CopiesAreCommitted
<1>7. ModifiedIdentifiesVersion'
  <2>1. \A s \in Session : form[s].modified # new.modified
    BY <1>1 DEF CopiesAreCommitted
  <2>2. \A q \in Proc : snap[q].modified # new.modified
    BY <1>1 DEF CopiesAreCommitted
  <2>3. NewRow.modified # new.modified
    BY <1>1 DEF FirstVersion, NewRow
  <2>4. \A q \in Proc : snap'[q] \in {snap[q], NewRow}
    BY <1>0
  <2>5. QED
    BY <1>0, <2>1, <2>2, <2>3, <2>4 DEF ModifiedIdentifiesVersion
<1>8. ObjectsExtendTheirBase'
  BY <1>0, <1>1 DEF ObjectsExtendTheirBase, CopiesAreCommitted
<1>9. WriterHoldsRow'
  BY <1>0, <1>2 DEF WriterHoldsRow, Writing
<1>10. QED
  BY <1>4, <1>5, <1>6, <1>7, <1>8, <1>9

-----------------------------------------------------------------------------
(* The invariant holds in every reachable state: two versions of the       *)
(* document never share a `modified`, every pending stamp is fresh, and    *)
(* only the holder of the row lock has written.                            *)
THEOREM RowInvariant == Spec => []RowInv
<1>1. Init => RowInv
  <2> SUFFICES ASSUME Init PROVE RowInv
    OBVIOUS
  <2>1. TypeOK
    BY InitType
  <2>2. StampsAreFresh /\ FirstVersion /\ CopiesAreCommitted /\ ModifiedIdentifiesVersion
    BY DEF Init, StampsAreFresh, FirstVersion, CopiesAreCommitted,
           ModifiedIdentifiesVersion, NewRow, Saving
  <2>3. ObjectsExtendTheirBase /\ WriterHoldsRow
    BY DEF Init, ObjectsExtendTheirBase, WriterHoldsRow, Writing
  <2>4. QED
    BY <2>1, <2>2, <2>3 DEF RowInv
<1>2. RowInv /\ TypeOK' /\ [Next]_vars => RowInv'
  <2> SUFFICES ASSUME RowInv, TypeOK', [Next]_vars PROVE RowInv'
    OBVIOUS
  <2>0. Session \subseteq Proc /\ Worker \subseteq Proc
    BY DEF Proc
  <2>1. ASSUME NEW s \in Session, SessionStep(s) PROVE RowInv'
    <3>1. CASE Open(s)
      BY <3>1 DEF Open, RowInv, StampsAreFresh, FirstVersion, CopiesAreCommitted,
                  ModifiedIdentifiesVersion, ObjectsExtendTheirBase, WriterHoldsRow,
                  Saving, Writing, TypeOK
    <3>2. form[s] \in Row /\ db \in Row /\ form[s].modified \in db.edits
          /\ db.modified \in db.edits /\ (form[s].modified = db.modified => form[s] = db)
      BY DEF RowInv, TypeOK, CopiesAreCommitted, StampsAreFresh, ModifiedIdentifiesVersion
    <3>3. ASSUME NEW k \in DocStatus, SaveDocs(s, k) PROVE RowInv'
      BY <3>2, <3>3, <2>0, StampedKeepsInv DEF SaveDocs, BeginOn
    <3>4. CASE CancelDoc(s)
      BY <3>2, <3>4, <2>0, StampedKeepsInv DEF CancelDoc, BeginOn, DocStatus
    <3>5. CASE DiscardDoc(s)
      <4>1. db.docstatus \in DocStatus
        BY <3>2 DEF Row
      <4>2. QED
        BY <3>2, <3>5, <4>1, <2>0, StampedKeepsInv DEF DiscardDoc, BeginOn
    <3>6. CASE BeginDbSet(s)
      <4>1. form[s].docstatus \in DocStatus
        BY <3>2 DEF Row
      <4>2. QED
        BY <3>2, <3>6, <4>1, <2>0, StampedKeepsInv DEF BeginDbSet, BeginOn
    <3>7. ASSUME phase[s] \in {"idle", "locking"}, phase'[s] \in {"locking", "queued"},
                 \A q \in Proc \ {s} : phase'[q] = phase[q] /\ doc'[q] = doc[q],
                 UNCHANGED <<db, rowLock, clock, act, snap, orig, form>>
          PROVE  RowInv'
      <4> USE DEF RowInv
      <4>1. Saving' = Saving /\ Writing' = Writing /\ s \notin Saving
        BY <3>7 DEF Saving, Writing
      <4>2. StampsAreFresh'
        BY <3>7, <4>1 DEF StampsAreFresh, Saving
      <4>3. CopiesAreCommitted' /\ ModifiedIdentifiesVersion' /\ FirstVersion'
        BY <3>7 DEF CopiesAreCommitted, ModifiedIdentifiesVersion, FirstVersion
      <4>4. ObjectsExtendTheirBase'
        BY <3>7 DEF ObjectsExtendTheirBase
      <4>5. WriterHoldsRow'
        BY <3>7, <4>1 DEF WriterHoldsRow, Writing, LegalStep
      <4>6. QED
        BY <4>2, <4>3, <4>4, <4>5
    <3>8. ASSUME NEW k \in {Submitted, Cancelled}, QueueAction(s, k) PROVE RowInv'
      BY <3>7, <3>8, <2>0 DEF QueueAction, RowInv, TypeOK
    <3>9. CASE CreateLock(s)
      BY <3>7, <3>9, <2>0 DEF CreateLock, RowInv, TypeOK
    <3>10. CASE CommitQueued(s)
      <4>1. rowLock # s
        BY <3>10, <2>0 DEF CommitQueued, RowInv, WriterHoldsRow
      <4>2. QED
        BY <3>10, <4>1, <2>0, FinishKeepsInv DEF CommitQueued
    <3>11. QED
      BY <2>1, <3>1, <3>3, <3>4, <3>5, <3>6, <3>8, <3>9, <3>10 DEF SessionStep
  <2>2. ASSUME NEW w \in Worker, WorkerStep(w) PROVE RowInv'
    <3>1. ASSUME NEW k \in {Submitted, Cancelled}, LoadJob(w, k) PROVE RowInv'
      <4> USE DEF RowInv
      <4>0. /\ w \in Proc /\ phase[w] = "idle" /\ phase'[w] = "loaded"
            /\ doc'[w] = [db EXCEPT !.docstatus = k] /\ snap'[w] = db
            /\ \A q \in Proc \ {w} : phase'[q] = phase[q] /\ doc'[q] = doc[q] /\ snap'[q] = snap[q]
            /\ UNCHANGED <<db, rowLock, clock, act, orig, form>>
        BY <3>1, <2>0 DEF LoadJob, TypeOK
      <4>1. Saving' = Saving /\ Writing' = Writing /\ w \notin Saving
        BY <4>0 DEF Saving, Writing
      <4>2. doc'[w].modified = db.modified /\ doc'[w].edits = db.edits
        BY <4>0 DEF TypeOK, Row
      <4>3. StampsAreFresh'
        BY <4>0, <4>1 DEF StampsAreFresh, Saving
      <4>4. CopiesAreCommitted'
        BY <4>0, <4>2 DEF CopiesAreCommitted, StampsAreFresh
      <4>5. ModifiedIdentifiesVersion' /\ FirstVersion'
        BY <4>0 DEF ModifiedIdentifiesVersion, FirstVersion
      <4>6. ObjectsExtendTheirBase'
        BY <4>0, <4>2 DEF ObjectsExtendTheirBase
      <4>7. WriterHoldsRow'
        BY <4>0, <4>1 DEF WriterHoldsRow, Writing, LegalStep
      <4>8. QED
        BY <4>3, <4>4, <4>5, <4>6, <4>7
    <3>2. CASE UnlockJob(w)
      <4> USE DEF RowInv
      <4>0. /\ w \in Proc /\ phase[w] = "loaded" /\ phase'[w] = "unlocked"
            /\ \A q \in Proc \ {w} : phase'[q] = phase[q]
            /\ UNCHANGED <<db, rowLock, clock, act, snap, doc, orig, form>>
        BY <3>2, <2>0 DEF UnlockJob, TypeOK
      <4>1. Saving' = Saving /\ Writing' = Writing
        BY <4>0 DEF Saving, Writing
      <4>2. StampsAreFresh' /\ CopiesAreCommitted' /\ ModifiedIdentifiesVersion' /\ FirstVersion'
        BY <4>0, <4>1 DEF StampsAreFresh, CopiesAreCommitted, ModifiedIdentifiesVersion,
                          FirstVersion
      <4>3. ObjectsExtendTheirBase' /\ WriterHoldsRow'
        BY <4>0, <4>1 DEF ObjectsExtendTheirBase, WriterHoldsRow, LegalStep
      <4>4. QED
        BY <4>2, <4>3
    <3>3. CASE RunJob(w)
      <4>1. doc[w] \in Row /\ doc[w].docstatus \in DocStatus /\ doc[w].modified \in db.edits
            /\ (doc[w].modified = db.modified => doc[w].edits = db.edits)
        BY <3>3, <2>0 DEF RunJob, RowInv, TypeOK, Row, CopiesAreCommitted, ObjectsExtendTheirBase
      <4>2. QED
        BY <3>3, <4>1, <2>0, StampedKeepsInv DEF RunJob
    <3>4. QED
      BY <2>2, <3>1, <3>2, <3>3 DEF WorkerStep
  <2>3. ASSUME NEW p \in Proc, ProcStep(p) PROVE RowInv'
    BY <2>3, WriteRowKeepsInv, CommitKeepsInv, FinishKeepsInv
       DEF ProcStep, Refuse, Abort, Release
  <2>4. CASE UnlockDocument \/ LockExpires \/ UNCHANGED vars
    BY <2>4 DEF UnlockDocument, LockExpires, vars, RowInv, StampsAreFresh, FirstVersion,
                CopiesAreCommitted, ModifiedIdentifiesVersion, ObjectsExtendTheirBase,
                WriterHoldsRow, Saving, Writing, LegalStep
  <2>5. QED
    BY <2>1, <2>2, <2>3, <2>4 DEF Next
<1>3. QED
  BY <1>1, <1>2, TypeCorrect, PTL DEF Spec

(* What a request queues is a submission or a cancellation.                *)
LEMMA QueuedActions == Spec => []ActionsFit
<1>1. Init => ActionsFit
  BY DEF Init, ActionsFit, Proc
<1>2. TypeOK /\ ActionsFit /\ [Next]_vars => ActionsFit'
  <2> SUFFICES ASSUME TypeOK, ActionsFit, [Next]_vars,
                      NEW s \in Session, phase'[s] \in {"locking", "queued"}
               PROVE  doc'[s].docstatus \in {Submitted, Cancelled}
    BY DEF ActionsFit
  <2>0. s \in Proc /\ s \notin Worker /\ Session \subseteq Proc /\ Worker \subseteq Proc
    BY DEF Proc
  <2>1. CASE phase[s] \in {"locking", "queued"} /\ doc'[s] = doc[s]
    BY <2>1 DEF ActionsFit
  <2>2. ASSUME NEW k \in {Submitted, Cancelled}, QueueAction(s, k)
        PROVE  doc'[s].docstatus \in {Submitted, Cancelled}
    BY <2>0, <2>2 DEF QueueAction, TypeOK, Row
  <2>3. ASSUME NEW p \in Proc, p # s,
               \A q \in Proc \ {p} : phase'[q] = phase[q] /\ doc'[q] = doc[q]
        PROVE  doc'[s].docstatus \in {Submitted, Cancelled}
    BY <2>0, <2>1, <2>3
  <2>4. ASSUME NEW p \in Proc, phase' = [phase EXCEPT ![p] = "idle"],
               \A q \in Proc \ {p} : doc'[q] = doc[q]
        PROVE  doc'[s].docstatus \in {Submitted, Cancelled}
    BY <2>0, <2>3, <2>4 DEF TypeOK
  <2>5. ASSUME NEW p \in Proc, NEW a, NEW c, NEW k, Stamped(p, a, c, k)
        PROVE  doc'[s].docstatus \in {Submitted, Cancelled}
    BY <2>0, <2>3, <2>5 DEF Stamped, TypeOK
  <2>6. ASSUME NEW t \in Session, SessionStep(t)
        PROVE  doc'[s].docstatus \in {Submitted, Cancelled}
    <3>1. CASE Open(t)
      BY <2>1, <3>1 DEF Open
    <3>2. CASE (\E k \in DocStatus : SaveDocs(t, k)) \/ CancelDoc(t) \/ DiscardDoc(t)
               \/ BeginDbSet(t)
      BY <2>0, <2>5, <3>2 DEF SaveDocs, CancelDoc, DiscardDoc, BeginDbSet, BeginOn
    <3>3. ASSUME NEW k \in {Submitted, Cancelled}, QueueAction(t, k)
          PROVE  doc'[s].docstatus \in {Submitted, Cancelled}
      <4>1. CASE t = s
        BY <2>2, <3>3, <4>1
      <4>2. CASE t # s
        BY <2>0, <2>3, <3>3, <4>2 DEF QueueAction, TypeOK
      <4>3. QED
        BY <4>1, <4>2
    <3>4. CASE CreateLock(t)
      BY <2>0, <2>1, <3>4 DEF CreateLock, TypeOK
    <3>5. CASE CommitQueued(t)
      BY <2>0, <2>4, <3>5 DEF CommitQueued, Finish, TypeOK
    <3>6. QED
      BY <2>6, <3>1, <3>2, <3>3, <3>4, <3>5 DEF SessionStep
  <2>7. ASSUME NEW w \in Worker, WorkerStep(w)
        PROVE  doc'[s].docstatus \in {Submitted, Cancelled}
    <3>1. w # s
      BY <2>0
    <3>2. CASE (\E k \in {Submitted, Cancelled} : LoadJob(w, k)) \/ UnlockJob(w)
      BY <2>0, <2>3, <3>1, <3>2 DEF LoadJob, UnlockJob, TypeOK
    <3>3. CASE RunJob(w)
      BY <2>0, <2>5, <3>3 DEF RunJob
    <3>4. QED
      BY <2>7, <3>2, <3>3 DEF WorkerStep
  <2>8. ASSUME NEW p \in Proc, ProcStep(p)
        PROVE  doc'[s].docstatus \in {Submitted, Cancelled}
    <3>1. CASE WriteRow(p)
      <4>1. CASE p = s
        BY <2>0, <3>1, <4>1 DEF WriteRow, TypeOK
      <4>2. CASE p # s
        BY <2>0, <2>3, <3>1, <4>2 DEF WriteRow, TypeOK
      <4>3. QED
        BY <4>1, <4>2
    <3>2. CASE Commit(p) \/ Refuse(p) \/ Abort(p)
      BY <2>0, <2>4, <3>2 DEF Commit, Refuse, Abort, Release, Finish, TypeOK
    <3>3. QED
      BY <2>8, <3>1, <3>2 DEF ProcStep
  <2>9. CASE UnlockDocument \/ LockExpires \/ UNCHANGED vars
    BY <2>1, <2>9 DEF UnlockDocument, LockExpires, vars
  <2>10. QED
    BY <2>6, <2>7, <2>8, <2>9 DEF Next
<1>3. QED
  BY <1>1, <1>2, TypeCorrect, PTL DEF Spec

(* Somebody will remove a lock file that counts, however many requests     *)
(* made it: the one that made it last has still to queue its job, or a     *)
(* queued job has still to unlock.  Only a rollback or a dead process      *)
(* leaves it to nobody.                                                    *)
THEOREM LockHasAnOwner == Spec => []LockIsOwed
<1>1. Init => LockIsOwed
  BY DEF Init, LockIsOwed
<1>2. TypeOK /\ ActionsFit /\ LockIsOwed /\ [Next]_vars => LockIsOwed'
  <2> SUFFICES ASSUME TypeOK, ActionsFit, LockIsOwed, [Next]_vars PROVE LockIsOwed'
    OBVIOUS
  <2> USE DEF LockIsOwed
  <2>0. Session \subseteq Proc /\ Worker \subseteq Proc /\ Session \cap Worker = {}
    BY DEF Proc
  <2>1. ASSUME jobs' = jobs, UNCHANGED <<lock, orphaned>>,
               \A p \in Proc : phase[p] \in {"queued", "loaded"} => phase'[p] = phase[p]
        PROVE  LockIsOwed'
    BY <2>0, <2>1 DEF Owed, Pending
  <2>2. ASSUME NEW s \in Session, SessionStep(s) PROVE LockIsOwed'
    <3>1. CASE Open(s) \/ (\E k \in DocStatus : SaveDocs(s, k)) \/ CancelDoc(s)
               \/ DiscardDoc(s) \/ BeginDbSet(s)
      BY <2>0, <2>1, <3>1 DEF Open, SaveDocs, CancelDoc, DiscardDoc, BeginDbSet, BeginOn,
                              Stamped, TypeOK
    <3>2. CASE \E k \in {Submitted, Cancelled} : QueueAction(s, k)
      BY <3>2 DEF QueueAction
    <3>3. CASE CreateLock(s)
      <4>1. phase'[s] = "queued"
        BY <2>0, <3>3 DEF CreateLock, TypeOK
      <4>2. QED
        BY <4>1 DEF Owed
    <3>4. CASE CommitQueued(s)
      <4>1. PICK k \in {Submitted, Cancelled} : jobs'[k] > 0
        <5>1. /\ jobs' = [jobs EXCEPT ![doc[s].docstatus] = @ + 1]
              /\ jobs \in [{Submitted, Cancelled} -> Nat]
          BY <3>4 DEF CommitQueued, TypeOK
        <5>2. doc[s].docstatus \in {Submitted, Cancelled}
          BY <3>4 DEF CommitQueued, ActionsFit
        <5>3. QED
          BY <5>1, <5>2
      <4>2. QED
        BY <4>1 DEF Owed, Pending
    <3>5. QED
      BY <2>2, <3>1, <3>2, <3>3, <3>4 DEF SessionStep
  <2>3. ASSUME NEW w \in Worker, WorkerStep(w) PROVE LockIsOwed'
    <3>1. ASSUME NEW k \in {Submitted, Cancelled}, LoadJob(w, k) PROVE LockIsOwed'
      <4>1. phase'[w] = "loaded"
        BY <2>0, <3>1 DEF LoadJob, TypeOK
      <4>2. QED
        BY <4>1 DEF Owed
    <3>2. CASE UnlockJob(w)
      BY <3>2 DEF UnlockJob
    <3>3. CASE RunJob(w)
      BY <2>0, <2>1, <3>3 DEF RunJob, Stamped, TypeOK
    <3>4. QED
      BY <2>3, <3>1, <3>2, <3>3 DEF WorkerStep
  <2>4. ASSUME NEW p \in Proc, ProcStep(p) PROVE LockIsOwed'
    <3>1. CASE WriteRow(p) \/ Commit(p) \/ Refuse(p)
      BY <2>1, <3>1 DEF WriteRow, Commit, Refuse, MustFail, Release, Finish, TypeOK
    <3>2. CASE Abort(p)
      <4>1. lock' = lock /\ orphaned' = (orphaned \/ (Owed /\ ~Owed'))
        BY <3>2 DEF Abort, Release
      <4>2. QED
        BY <4>1
    <3>3. QED
      BY <2>4, <3>1, <3>2 DEF ProcStep
  <2>5. CASE UnlockDocument \/ LockExpires
    BY <2>5 DEF UnlockDocument, LockExpires
  <2>6. CASE UNCHANGED vars
    BY <2>1, <2>6 DEF vars
  <2>7. QED
    BY <2>2, <2>3, <2>4, <2>5, <2>6 DEF Next
<1>3. QED
  BY <1>1, <1>2, TypeCorrect, QueuedActions, PTL DEF Spec

(* All of it together is what the run checks.                              *)
THEOREM InvariantHolds == Spec => []IInv
<1>1. RowInv /\ LockIsOwed /\ ActionsFit => IInv
  BY DEF IInv
<1>2. QED
  BY <1>1, RowInvariant, LockHasAnOwner, QueuedActions, PTL

(* Equal `modified` means equal row, for every client and transaction:     *)
(* comparing the one column, as check_if_latest does, is enough.           *)
COROLLARY ModifiedIdentifies == Spec => []ModifiedIdentifiesVersion
<1>1. RowInv => ModifiedIdentifiesVersion
  BY DEF RowInv
<1>2. QED
  BY <1>1, RowInvariant, PTL

(* Every step of every request and job is one atomic, legal change of the  *)
(* document, or changes nothing of it: no lost update, no docstatus that   *)
(* goes back, whatever the number of concurrent requests and workers.      *)
THEOREM DocumentImplementsAtomic == Spec => DocumentIsAtomic
<1>1. Init => Atomic!Init
  <2>1. 0 \in Stamp
    BY DEF Stamp
  <2>2. Init => db = [modified |-> 0, docstatus |-> Atomic!Draft, edits |-> {0}]
    BY DEF Init, NewRow, Atomic!Draft, Draft
  <2>3. QED
    BY <2>1, <2>2 DEF Atomic!Init
<1>2. RowInv /\ [Next]_vars => [Atomic!Next]_db
  <2> SUFFICES ASSUME RowInv, [Next]_vars, db' # db PROVE Atomic!Next
    BY DEF Atomic!Next
  <2>1. PICK p \in Proc : Commit(p)
    BY DEF Next, vars, SessionStep, Open, SaveDocs, CancelDoc, DiscardDoc, BeginDbSet, BeginOn,
           QueueAction, CreateLock, CommitQueued, WorkerStep, LoadJob, UnlockJob, RunJob,
           ProcStep, WriteRow, Refuse, Abort, Release, UnlockDocument, LockExpires
  <2>2. /\ db' = doc[p] /\ doc[p] \in Row /\ doc[p].modified \notin db.edits
        /\ doc[p].edits = db.edits \cup {doc[p].modified}
        /\ LegalStep(db.docstatus, doc[p].docstatus)
    BY <2>1 DEF Commit, RowInv, TypeOK, WriterHoldsRow, StampsAreFresh, Writing, Saving
  <2>3. Atomic!Change(doc[p].docstatus)
    BY <2>2 DEF Atomic!Change, Row
  <2>4. QED
    BY <2>2, <2>3 DEF LegalStep, Atomic!Next, Atomic!Edit, Atomic!Submit, Atomic!Cancel,
                      Atomic!Discard, Atomic!Draft, Atomic!Submitted, Atomic!Cancelled,
                      Draft, Submitted, Cancelled
<1>3. QED
  BY <1>1, <1>2, RowInvariant, PTL DEF Spec, DocumentIsAtomic, Atomic!Spec
=============================================================================
