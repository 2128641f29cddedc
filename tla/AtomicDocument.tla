--------------------------- MODULE AtomicDocument ---------------------------
(***************************************************************************)
(* What the framework promises about one document row, whatever runs       *)
(* concurrently: every change is an atomic read-modify-write of the        *)
(* current version.  A change keeps every edit made before it, stamps the  *)
(* row with a `modified` value never used before, and moves docstatus only *)
(* along Draft -> Submitted -> Cancelled (or Draft -> Cancelled, a         *)
(* discard).  Document.tla is shown to implement this module.              *)
(***************************************************************************)
EXTENDS Naturals

CONSTANTS Stamp,          \* values of the `modified` column
          Unsubmittable   \* the doctype is not submittable

VARIABLE row

Draft     == 0
Submitted == 1
Cancelled == 2
DocStatus == {Draft, Submitted, Cancelled}

Row == [modified : Stamp, docstatus : DocStatus, edits : SUBSET Stamp]

Init == \E e \in Stamp :
          row = [modified |-> e, docstatus |-> Draft, edits |-> {e}]

(* One atomic change: a fresh stamp on top of all the edits made so far.   *)
Change(to) ==
  \E e \in Stamp \ row.edits :
    row' = [modified |-> e, docstatus |-> to, edits |-> row.edits \cup {e}]

Edit    == Change(row.docstatus)
Submit  == row.docstatus = Draft /\ ~Unsubmittable /\ Change(Submitted)
Cancel  == row.docstatus = Submitted /\ Change(Cancelled)
Discard == row.docstatus = Draft /\ Change(Cancelled)

Next == Edit \/ Submit \/ Cancel \/ Discard

Spec == Init /\ [][Next]_row
=============================================================================
