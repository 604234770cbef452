--------------------------- MODULE DeliveryLedger ---------------------------
(***************************************************************************)
(* What the notification pipeline promises about one pair <<event, user>>, *)
(* without requests, buffers or timers.  A pair becomes due once, is       *)
(* settled once (as sent or as failed: nothing is retried) or is lost with *)
(* the process, and nothing ever changes after that.                       *)
(*                                                                         *)
(* One message settles pairs of one user, all with the same result; the    *)
(* end of the process loses everything that is due and nothing else.       *)
(***************************************************************************)
CONSTANTS Occs, Users

VARIABLE fate

Pairs == Occs \X Users

Init == fate = [p \in Pairs |-> "none"]

Changed == {p \in Pairs : fate'[p] # fate[p]}

(* GetSubscribers found users for an event, or a grouped message gained an *)
(* event or a user.                                                        *)
Owe == \A p \in Changed : fate[p] = "none" /\ fate'[p] = "due"

(* One message to one user was handed to Telegram, or could not be.        *)
Settle ==
    \E u \in Users, result \in {"sent", "failed"} :
        \A p \in Changed : p[2] = u /\ fate[p] = "due" /\ fate'[p] = result

(* The process ended with notifications still to be sent.                  *)
Lose ==
    /\ \A p \in Changed : fate[p] = "due" /\ fate'[p] = "lost"
    /\ \A p \in Pairs : fate'[p] # "due"

Next == /\ fate' \in [Pairs -> {"none", "due", "sent", "failed", "lost"}]
        /\ Owe \/ Settle \/ Lose

Spec == Init /\ [][Next]_fate

(* A pair that is due does not stay due for ever.                          *)
DueIsSettled == \A p \in Pairs : fate[p] = "due" ~> fate[p] # "due"
=============================================================================
