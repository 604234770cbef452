------------------------- MODULE SubscriptionPromise -------------------------
(***************************************************************************)
(* What the bot promises a user about his subscriptions, without           *)
(* goroutines, loops and answers under way.                                *)
(*                                                                         *)
(* The user asks for changes to some types.  Until the bot is through with *)
(* them it may change their rows and no others; a user who hears nothing,  *)
(* or whose commands overtook each other, knows nothing of them.  What he  *)
(* is told of a type is true, and is told when nobody is changing its row  *)
(* any more: it stays true until he asks again.                            *)
(***************************************************************************)
CONSTANT Types

VARIABLES
    rows,   \* the types he is subscribed to
    asked,  \* the types that he has asked to change and that may still change
    belief  \* what he has been told of each type, "unknown" when nothing counts

promised == <<rows, asked, belief>>

Init ==
    /\ rows \subseteq Types
    /\ asked = {}
    /\ belief = [t \in Types |-> "unknown"]

Ask ==
    \E T \in SUBSET Types :
        /\ asked' = asked \cup T
        /\ belief' = [t \in Types |-> IF t \in T THEN "unknown" ELSE belief[t]]
        /\ UNCHANGED rows

Change ==
    /\ rows' \subseteq Types
    /\ \A t \in Types \ asked : t \in rows' <=> t \in rows
    /\ UNCHANGED <<asked, belief>>

(* The bot is through with some types, and may tell the user about those   *)
(* that nobody is changing.                                                *)
Conclude ==
    /\ asked' \subseteq asked
    /\ \E T \in SUBSET (Types \ asked') :
          belief' = [t \in Types |-> IF t \notin T THEN belief[t]
                                     ELSE IF t \in rows THEN "in" ELSE "out"]
    /\ UNCHANGED rows

Next == Ask \/ Change \/ Conclude

Spec == Init /\ [][Next]_promised
==============================================================================
