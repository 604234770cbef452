------------------------- MODULE SuppressionWindow -------------------------
(***************************************************************************)
(* What internal/notifications/dedup.go promises its caller, without the   *)
(* clock and without the map: at any moment some keys are "hot".  A hot    *)
(* key is refused, a cold key is let through and becomes hot in the same   *)
(* step, and hot keys cool down in their own time.  A disabled             *)
(* deduplicator lets everything through and heats nothing.                 *)
(*                                                                         *)
(* Deduplicator is shown to implement this module, and NotificationService *)
(* is built on it.                                                         *)
(***************************************************************************)
CONSTANTS Keys, NoVerdict

VARIABLES
    enabled,  \* the deduplicator is switched on (DEDUP_ENABLED)
    hot,      \* the keys that would be refused now
    verdict   \* the last answer given, [key, ok]

vars == <<enabled, hot, verdict>>

Init ==
    /\ enabled \in BOOLEAN
    /\ hot = {}
    /\ verdict = NoVerdict

(* The answer to "should this event be notified?" and its effect, as one   *)
(* step: two callers can never both be let through on one cold key.        *)
Ask(k) ==
    /\ verdict' = [key |-> k, ok |-> enabled => k \notin hot]
    /\ hot' = IF enabled THEN hot \cup {k} ELSE hot
    /\ UNCHANGED enabled

CoolDown ==
    /\ hot' \in SUBSET hot
    /\ UNCHANGED <<enabled, verdict>>

Next == CoolDown \/ \E k \in Keys : Ask(k)

Spec == Init /\ [][Next]_vars
=============================================================================
