----------------------------- MODULE MCDocument -----------------------------
(* Document on a small instance: two sessions and a worker, three versions *)
(* and two queued actions.  No symmetry: the run checks liveness too.      *)
EXTENDS Document
=============================================================================
