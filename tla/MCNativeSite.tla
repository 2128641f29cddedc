---------------------------- MODULE MCNativeSite ----------------------------
(* NativeSite on a small instance: three containers, so that an action is  *)
(* allocated, set up and observed, or allocated twice, and one action; the *)
(* proofs are about any number.  No symmetry: the run checks liveness too. *)
EXTENDS NativeSite
=============================================================================
