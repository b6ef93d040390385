---------------------------- MODULE MCPriceTime ----------------------------
(***************************************************************************)
(* The matching engine against PriceTimePriority, from a book of a level   *)
(* of two orders, one behind it and a bid.                                 *)
(***************************************************************************)
EXTENDS MCMatchingEngine, PriceTime
============================================================================
