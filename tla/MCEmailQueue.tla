---------------------------- MODULE MCEmailQueue ----------------------------
(* EmailQueue on a small instance: a flush and a request that can overlap, *)
(* and two recipients, so that a mail can be partially sent.  No symmetry: *)
(* the run checks liveness too.                                            *)
EXTENDS EmailQueue
=============================================================================
