---------------------------- MODULE MCStockLedger ----------------------------
(* StockLedger on a small instance: a receipt, and later an issue and      *)
(* another receipt at one time, in whatever order they are posted; a       *)
(* commit after every entry of a repost.                                   *)
EXTENDS StockLedger, TLC

CONSTANTS v1, v2, v3

TimeOf == (v1 :> 1) @@ (v2 :> 2) @@ (v3 :> 2)

QtyOf == (v1 :> 2) @@ (v2 :> 1) @@ (v3 :> -2)
=============================================================================
