------------------------------ MODULE MCProcess ------------------------------
(***************************************************************************)
(* A TLC instance of Process: ipB is an address PostgreSQL refuses.        *)
(***************************************************************************)
EXTENDS Process

CONSTANTS r1, r2, e1, e2, ipA, ipB, ipC
=============================================================================
