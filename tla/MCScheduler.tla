---------------------------- MODULE MCScheduler -----------------------------
(* Scheduler on a small instance: three records in lists of at most two, a *)
(* commit every two records, a run that stops after two, two workers, and  *)
(* one fault or intervention of a user.                                    *)
EXTENDS Scheduler
=============================================================================
