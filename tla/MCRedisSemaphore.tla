--------------------------- MODULE MCRedisSemaphore --------------------------
(* RedisSemaphore on a small instance.  Requests are interchangeable.       *)
EXTENDS RedisSemaphore, TLC

Symmetry == Permutations(Proc)
=============================================================================
