--------------------------- MODULE MCBackgroundJob ---------------------------
(* BackgroundJob on a small instance.  Callers and workers are              *)
(* interchangeable.                                                         *)
EXTENDS BackgroundJob, TLC

Symmetry == Permutations(Caller) \cup Permutations(Worker)
=============================================================================
