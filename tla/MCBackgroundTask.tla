--------------------------- MODULE MCBackgroundTask --------------------------
(* BackgroundTask on a small instance: two workers, so that one can still   *)
(* be running when a retry is queued, and two requests, so that stop_task   *)
(* and retry_task can overlap.  No symmetry: the run checks liveness too.   *)
EXTENDS BackgroundTask
=============================================================================
