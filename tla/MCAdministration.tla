--------------------------- MODULE MCAdministration ---------------------------
(* Two events of two types, one of a type that is not supported, an admin  *)
(* and a user who may not ask, and a clock that reaches the third day.     *)
EXTENDS Administration

CONSTANTS e1, e2, e3

MCTypeOf ==
    [i \in {e1, e2, e3} |-> CASE i = e1 -> "auth.failed"
                              [] i = e2 -> "security.ip-blocked"
                              [] i = e3 -> "store.ingest"]
=============================================================================
