--------------------------- MODULE MCSubscriptions ---------------------------
(***************************************************************************)
(* TLC instance of Subscriptions: three types, so that SubscribeAll can be *)
(* overtaken or fail after the first of its statements and before the      *)
(* last, and two goroutines.                                               *)
(***************************************************************************)
EXTENDS Subscriptions

CONSTANTS h1, h2, t1, t2, t3
=============================================================================
