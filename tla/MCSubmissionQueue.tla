------------------------- MODULE MCSubmissionQueue --------------------------
(* SubmissionQueue on a small instance: two requests that overlap, two     *)
(* workers, two rows, two changes of the document and one fault.           *)
EXTENDS SubmissionQueue
=============================================================================
