----------------------- MODULE MCNotificationService -----------------------
(***************************************************************************)
(* TLC instances of NotificationService.  o1 and o3 are one event of type  *)
(* security.ip-blocked and its retry in another request: same ID, same IP, *)
(* same key.  o2 is of another type and carries an IP that PostgreSQL      *)
(* refuses.  o4 has an ignored IP, o5 a type nobody knows, and o6 too low  *)
(* a severity.                                                             *)
(***************************************************************************)
EXTENDS NotificationService, TLC

CONSTANTS
    o1, o2, o3, o4, o5, o6, u1, u2, r1, r2, ipA, ipB, ipC, id1, id2, id4, id5, id6

MCTypeOf == (o1 :> "security.ip-blocked" @@ o2 :> "auth.failed" @@
             o3 :> "security.ip-blocked" @@ o4 :> "auth.failed" @@
             o5 :> "calendar.alarm" @@ o6 :> "auth.success")
MCIPOf == (o1 :> ipA @@ o2 :> ipB @@ o3 :> ipA @@ o4 :> ipC @@
           o5 :> NoIP @@ o6 :> NoIP)
MCIdOf == (o1 :> id1 @@ o2 :> id2 @@ o3 :> id1 @@ o4 :> id4 @@
           o5 :> id5 @@ o6 :> id6)

Within(f, S) == [x \in S |-> f[x]]

(* An event and its retry, whose requests may overlap.                     *)
RetryOccs == {o1, o3}
RetryTypeOf == Within(MCTypeOf, RetryOccs)
RetryIPOf == Within(MCIPOf, RetryOccs)
RetryIdOf == Within(MCIdOf, RetryOccs)
RetryPayload == (r1 :> {o1} @@ r2 :> {o3})

(* Both in one payload.                                                    *)
SinglePayload == (r1 :> {o1, o3})

(* The filters: ignored IPs, unknown types and a minimum severity.         *)
FilterOccs == {o1, o2, o3, o4, o5, o6}
FilterTypeOf == Within(MCTypeOf, FilterOccs)
FilterIPOf == Within(MCIPOf, FilterOccs)
FilterIdOf == Within(MCIdOf, FilterOccs)
FilterPayload == (r1 :> {o1, o2, o4} @@ r2 :> {o3, o5, o6})

MCIgnoredIPs == {<<"auth.failed", ipC>>}

(* Users play the same part, and so do an event and its retry, each with   *)
(* its request.  No liveness property is checked with it.                  *)
MCSymmetry ==
    Permutations(Users) \cup {r1 :> r2 @@ r2 :> r1 @@ o1 :> o3 @@ o3 :> o1}
=============================================================================
