------------------------ MODULE NotificationService ------------------------
(***************************************************************************)
(* The path of an event from a webhook request to a Telegram message:      *)
(* the loop of handleWebhook (internal/httpserver/server.go), ProcessEvent *)
(* and everything it calls (internal/notifications/service.go), the tables *)
(* it reads and writes (internal/storage/postgres.go), and the end of the  *)
(* process, which loses what only memory held.                             *)
(*                                                                         *)
(* Every request runs in a goroutine of net/http, every group timer in one *)
(* of time.AfterFunc, every bot command in one of the Telegram library; a  *)
(* step here is what one of them does between two points where another can *)
(* be seen to intervene: a critical section, an SQL statement, a message.  *)
(***************************************************************************)
EXTENDS EventRegistry, FiniteSets

CONSTANTS
    Occs,         \* the events of all payloads: a retried event is another one
    Users,        \* Telegram users
    Requests,     \* the webhook requests that pass authentication and parse
    Payload,      \* Payload[r]: the events of request r
    TypeOf,       \* TypeOf[o]: the event's type, a string of the registry or not
    IPOf,         \* IPOf[o]: webhook.SourceIP(o)
    IdOf,         \* IdOf[o]: the event's ID
    NoIP,         \* SourceIP returned ""
    NoOcc,        \* a request that is not in ProcessEvent
    BadIPs,       \* source IPs that PostgreSQL refuses as an inet
    IgnoredIPs,   \* pairs <<type, IP>> of the <TYPE>_IGNORED_IPS settings
    MinSeverity,  \* SUBSCRIPTION_MIN_SEVERITY
    QuietHours,   \* quiet hours are configured: the clock enters and leaves them
    Dedup,        \* DEDUP_ENABLED
    Groupings,    \* bound: the cases of grouping (below) that are explored
    Faults,       \* SQL statements and Telegram calls may fail, clients hang up
    MaxRestarts   \* bound on the number of times the process ends

ASSUME PayloadAssumption ==
    /\ Payload \in [Requests -> SUBSET Occs]
    /\ \A r \in Requests : IsFiniteSet(Payload[r])
    /\ \A r, s \in Requests : r # s => Payload[r] \cap Payload[s] = {}

ASSUME EventAssumption ==
    /\ NoOcc \notin Occs
    /\ DOMAIN TypeOf = Occs /\ DOMAIN IPOf = Occs /\ DOMAIN IdOf = Occs

ASSUME SettingsAssumption ==
    /\ {QuietHours, Dedup, Faults} \cup Groupings \subseteq BOOLEAN
    /\ MaxRestarts \in Nat

Pairs == Occs \X Users

(* The supported types that some event has; subscriptions and buffers of   *)
(* other types play no part.                                               *)
Types == {TypeOf[o] : o \in Occs} \cap SupportedTypes

(* The key of Deduplicator.ShouldNotify.                                   *)
KeyOf(o) == <<TypeOf[o], IPOf[o]>>

VARIABLES
    \* one webhook request, in its goroutine
    pc,         \* where the request is
    todo,       \* the events of its payload still to be looked at
    cur,        \* the event ProcessEvent is working on
    rcpt,       \* the users still to be served with it
    gone,       \* the client hung up: the running request's context is cancelled
    \* memory of the process
    hot,        \* keys the deduplicator refuses (SuppressionWindow)
    buffers,    \* Service.buffers: for every type the buffered events and users
    timers,     \* types whose group timer is running
    flushing,   \* buffers taken out by flushGrouped, users still to be served
    metrics,    \* Metrics.counters
    \* the clock
    quiet,      \* IsInQuietHours of the present time of day
    \* a setting, explored in one run with either value; no step changes it
    grouping,   \* NOTIFICATION_GROUP_WINDOW_SECONDS > 0
    \* the database
    subs,       \* table subscriptions: pairs <<user, type>>
    events,     \* table events: the events that have a row
    blocked,    \* table blocked_ips: pairs <<ip, event id>>
    \* bounds and history
    restarts,   \* how often the process ended
    outcome,    \* what became of each event
    audience,   \* the users subscribed when GetSubscribers ran for each event
    reported,   \* the counter a pair was counted in: "sent" or "failed"
    copies,     \* how many messages with the event reached the user
    lost,       \* pairs that were due when the process ended
    since       \* events received since the process started

reqVars == <<pc, todo, cur, rcpt, gone>>
bufVars == <<buffers, timers, flushing>>
envVars == <<hot, quiet, grouping>>
dbVars == <<subs, events, blocked>>
ledgerVars == <<reported, copies, lost>>
vars == <<reqVars, envVars, bufVars, metrics, dbVars, restarts, outcome, audience,
          ledgerVars, since>>

Stages == {"idle", "loop", "store", "block", "lookup", "send", "enqueue",
           "done", "dead"}
Busy == {"store", "block", "lookup", "send", "enqueue"}
Accepted == {"accepted", "unresolved", "nobody", "notified"}
Outcomes == {"none", "unknown", "filtered", "duplicate"} \cup Accepted
Counters == {"webhook_requests_total", "webhook_events_received",
             "notifications_sent", "notifications_failed", "events_skipped"}
Buffers == [events : SUBSET Occs, users : SUBSET Users]
NoBuffer == [events |-> {}, users |-> {}]
NoMetrics == [c \in Counters |-> 0]

TypeOK ==
    /\ pc \in [Requests -> Stages]
    /\ todo \in [Requests -> SUBSET Occs]
    /\ cur \in [Requests -> Occs \cup {NoOcc}]
    /\ \A r \in Requests : pc[r] \in Busy => cur[r] \in Occs /\ TypeOf[cur[r]] \in Types
    /\ rcpt \in [Requests -> SUBSET Users]
    /\ gone \in [Requests -> BOOLEAN]
    /\ hot \subseteq {KeyOf(o) : o \in Occs}
    /\ quiet \in BOOLEAN /\ (quiet => QuietHours)
    /\ grouping \in Groupings
    /\ buffers \in [Types -> Buffers]
    /\ timers \subseteq Types
    /\ flushing \subseteq Buffers
    /\ metrics \in [Counters -> Nat]
    /\ subs \subseteq Users \X Types
    /\ events \subseteq Occs
    /\ blocked \subseteq {<<IPOf[o], IdOf[o]>> : o \in Occs}
    /\ restarts \in 0..MaxRestarts
    /\ outcome \in [Occs -> Outcomes]
    /\ audience \in [Occs -> SUBSET Users]
    /\ reported \in [Pairs -> {"none", "sent", "failed"}]
    /\ copies \in [Pairs -> Nat]
    /\ lost \subseteq Pairs
    /\ since \subseteq Occs

(* The subscriptions and the other tables outlive the process; events and  *)
(* blocked_ips start empty because only their growth matters here.         *)
Init ==
    /\ pc = [r \in Requests |-> "idle"]
    /\ todo = [r \in Requests |-> {}]
    /\ cur = [r \in Requests |-> NoOcc]
    /\ rcpt = [r \in Requests |-> {}]
    /\ gone = [r \in Requests |-> FALSE]
    /\ hot = {}
    /\ quiet \in BOOLEAN /\ (quiet => QuietHours)
    /\ grouping \in Groupings
    /\ buffers = [t \in Types |-> NoBuffer]
    /\ timers = {}
    /\ flushing = {}
    /\ metrics = NoMetrics
    /\ subs \in SUBSET (Users \X Types)
    /\ events = {}
    /\ blocked = {}
    /\ restarts = 0
    /\ outcome = [o \in Occs |-> "none"]
    /\ audience = [o \in Occs |-> {}]
    /\ reported = [p \in Pairs |-> "none"]
    /\ copies = [p \in Pairs |-> 0]
    /\ lost = {}
    /\ since = {}

(* Mutants of Inc: the counter goes the wrong way; it is overwritten.      *)
Dec(name, delta) == metrics' = [metrics EXCEPT ![name] = @ - delta]
Put(name, delta) == metrics' = [metrics EXCEPT ![name] = delta]

(* Metrics.Inc                                                             *)
Inc(name, delta) == metrics' = [metrics EXCEPT ![name] = @ + delta]

-----------------------------------------------------------------------------
(* handleWebhook.  A request that is refused (401, 400) changes nothing    *)
(* and is not a member of Requests.                                        *)

Receive(r) ==
    /\ pc[r] = "idle"
    /\ pc' = [pc EXCEPT ![r] = "loop"]
    /\ todo' = [todo EXCEPT ![r] = Payload[r]]
    /\ metrics' = [metrics EXCEPT
                     !["webhook_requests_total"] = @ + 1,
                     !["webhook_events_received"] = @ + Cardinality(Payload[r])]
    /\ since' = since \cup Payload[r]
    /\ UNCHANGED <<cur, rcpt, gone, envVars, bufVars, dbVars, restarts, outcome,
                   audience, ledgerVars>>

(* The response is written, 200 and {"ok":true}, whatever happened to the  *)
(* events; the request's context ends with it.                             *)
Respond(r) ==
    /\ pc[r] = "loop" /\ todo[r] = {}
    /\ pc' = [pc EXCEPT ![r] = "done"]
    /\ gone' = [gone EXCEPT ![r] = FALSE]
    /\ UNCHANGED <<todo, cur, rcpt, envVars, bufVars, metrics, dbVars,
                   restarts, outcome, audience, ledgerVars, since>>

(* net/http cancels r.Context() when the client closes the connection.     *)
Disconnect(r) ==
    /\ Faults /\ pc[r] \in Busy \cup {"loop"} /\ ~gone[r]
    /\ gone' = [gone EXCEPT ![r] = TRUE]
    /\ UNCHANGED <<pc, todo, cur, rcpt, envVars, bufVars, metrics, dbVars,
                   restarts, outcome, audience, ledgerVars, since>>

-----------------------------------------------------------------------------
(* ProcessEvent up to the verdict of shouldNotify.  The payload's order is *)
(* abstracted: the loop takes any event it has not looked at yet.          *)

Ignored(o) == IPOf[o] # NoIP /\ <<TypeOf[o], IPOf[o]>> \in IgnoredIPs

(* The filters that come before the deduplicator.                          *)
Filtered(o) ==
    Ignored(o) \/ ~PassesSeverity(TypeOf[o], MinSeverity) \/ quiet

(* Mutant of Drop: an event that is dropped suppresses later ones.         *)
DropHeating(r, o, result) ==
    /\ pc[r] = "loop" /\ o \in todo[r]
    /\ todo' = [todo EXCEPT ![r] = @ \ {o}]
    /\ outcome' = [outcome EXCEPT ![o] = result]
    /\ hot' = hot \cup {KeyOf(o)}
    /\ UNCHANGED <<pc, cur, rcpt, gone, quiet, grouping, bufVars, dbVars, restarts, audience,
                   ledgerVars, since>>

(* Take o off the payload and be done with it.                             *)
Drop(r, o, result) ==
    /\ pc[r] = "loop" /\ o \in todo[r]
    /\ todo' = [todo EXCEPT ![r] = @ \ {o}]
    /\ outcome' = [outcome EXCEPT ![o] = result]
    /\ UNCHANGED <<pc, cur, rcpt, gone, envVars, bufVars, dbVars, restarts,
                   audience, ledgerVars, since>>

SkipUnknown(r, o) ==
    /\ ~IsSupported(TypeOf[o])
    /\ Drop(r, o, "unknown")
    /\ UNCHANGED metrics

SkipFiltered(r, o) ==
    /\ IsSupported(TypeOf[o])
    /\ Filtered(o)
    /\ Drop(r, o, "filtered")
    /\ Inc("events_skipped", 1)

SkipDuplicate(r, o) ==
    /\ IsSupported(TypeOf[o]) /\ ~Filtered(o)
    /\ Dedup /\ KeyOf(o) \in hot
    /\ Drop(r, o, "duplicate")
    /\ Inc("events_skipped", 1)

(* shouldNotify says yes, and with the same answer the key becomes hot.    *)
Admit(r, o) ==
    /\ pc[r] = "loop" /\ o \in todo[r]
    /\ IsSupported(TypeOf[o]) /\ ~Filtered(o)
    /\ Dedup => KeyOf(o) \notin hot
    /\ hot' = IF Dedup THEN hot \cup {KeyOf(o)} ELSE hot
    /\ pc' = [pc EXCEPT ![r] = "store"]
    /\ todo' = [todo EXCEPT ![r] = @ \ {o}]
    /\ cur' = [cur EXCEPT ![r] = o]
    /\ outcome' = [outcome EXCEPT ![o] = "accepted"]
    /\ UNCHANGED <<rcpt, gone, quiet, grouping, bufVars, metrics, dbVars, restarts,
                   audience, ledgerVars, since>>

-----------------------------------------------------------------------------
(* ProcessEvent after the verdict: one action per statement.               *)

(* A write to the database with the event's IP succeeds, or not.           *)
MayWrite(r) == ~gone[r] /\ IPOf[cur[r]] \notin BadIPs
MayFail(r) == Faults \/ gone[r] \/ IPOf[cur[r]] \in BadIPs

(* A failed StoreEvent is logged and the event goes on.  ON CONFLICT (id)  *)
(* DO NOTHING: a second event with a stored ID is not stored.              *)
StoreEvent(r) ==
    /\ pc[r] = "store"
    /\ \/ /\ MayWrite(r)
          /\ events' = IF \E e \in events : IdOf[e] = IdOf[cur[r]]
                       THEN events ELSE events \cup {cur[r]}
       \/ MayFail(r) /\ UNCHANGED events
    /\ pc' = [pc EXCEPT ![r] =
                IF TypeOf[cur[r]] = "security.ip-blocked" /\ IPOf[cur[r]] # NoIP
                THEN "block" ELSE "lookup"]
    /\ UNCHANGED <<todo, cur, rcpt, gone, envVars, bufVars, metrics, subs, blocked,
                   restarts, outcome, audience, ledgerVars, since>>

StoreBlockedIP(r) ==
    /\ pc[r] = "block"
    /\ \/ /\ MayWrite(r)
          /\ blocked' = blocked \cup {<<IPOf[cur[r]], IdOf[cur[r]]>>}
       \/ MayFail(r) /\ UNCHANGED blocked
    /\ pc' = [pc EXCEPT ![r] = "lookup"]
    /\ UNCHANGED <<todo, cur, rcpt, gone, envVars, bufVars, metrics, subs, events,
                   restarts, outcome, audience, ledgerVars, since>>

(* Mutant of Subscribers: the query has lost its WHERE.                    *)
Everybody(t) == Users

Subscribers(t) == {u \in Users : <<u, t>> \in subs}

(* Mutant of BackToLoop: the handler panics, and net/http closes the       *)
(* connection without an answer.                                           *)
Aborts(r) ==
    /\ pc' = [pc EXCEPT ![r] = "aborted"]
    /\ cur' = [cur EXCEPT ![r] = NoOcc]

(* ProcessEvent returns to the loop of handleWebhook.                      *)
BackToLoop(r) ==
    /\ pc' = [pc EXCEPT ![r] = "loop"]
    /\ cur' = [cur EXCEPT ![r] = NoOcc]

(* GetSubscribers failed: the error is logged, counted nowhere, and the    *)
(* event is over although its key stays hot.                               *)
LookupFails(r) ==
    /\ pc[r] = "lookup" /\ (Faults \/ gone[r])
    /\ outcome' = [outcome EXCEPT ![cur[r]] = "unresolved"]
    /\ BackToLoop(r)
    /\ UNCHANGED <<todo, rcpt, gone, envVars, bufVars, metrics, dbVars, restarts,
                   audience, ledgerVars, since>>

FindNobody(r) ==
    /\ pc[r] = "lookup" /\ ~gone[r]
    /\ Subscribers(TypeOf[cur[r]]) = {}
    /\ outcome' = [outcome EXCEPT ![cur[r]] = "nobody"]
    /\ Inc("events_skipped", 1)
    /\ BackToLoop(r)
    /\ UNCHANGED <<todo, rcpt, gone, envVars, bufVars, dbVars, restarts, audience,
                   ledgerVars, since>>

GetSubscribers(r) ==
    /\ pc[r] = "lookup" /\ ~gone[r]
    /\ Subscribers(TypeOf[cur[r]]) # {}
    /\ rcpt' = [rcpt EXCEPT ![r] = Subscribers(TypeOf[cur[r]])]
    /\ audience' = [audience EXCEPT
                      ![cur[r]] = {u \in Users : <<u, TypeOf[cur[r]]>> \in subs}]
    /\ outcome' = [outcome EXCEPT ![cur[r]] = "notified"]
    /\ pc' = [pc EXCEPT ![r] = IF grouping THEN "enqueue" ELSE "send"]
    /\ UNCHANGED <<todo, cur, gone, envVars, bufVars, metrics, dbVars, restarts,
                   ledgerVars, since>>

-----------------------------------------------------------------------------
(* Messages.  GetPrefs and SendMessage take the caller's context, so they  *)
(* fail once it is cancelled.  A send that fails may have reached the user *)
(* all the same (the answer of Telegram was lost or timed out).            *)

(* Mutant of Attempts: no call returns once its context is cancelled.      *)
Blocking(cancelled) ==
    {a \in [ok : BOOLEAN, landed : BOOLEAN] : a.ok = a.landed /\ ~cancelled}

Attempts(cancelled) ==
    {a \in [ok : BOOLEAN, landed : BOOLEAN] :
        /\ a.ok => a.landed /\ ~cancelled
        /\ ~a.ok => Faults \/ cancelled
        /\ cancelled => ~a.landed}

(* Mutant of Deliver: only what succeeds is counted.                       *)
DeliverSentOnly(evs, u, a) ==
    /\ copies' = [p \in Pairs |->
                    IF p[1] \in evs /\ p[2] = u /\ a.landed
                    THEN copies[p] + 1 ELSE copies[p]]
    /\ reported' = [p \in Pairs |->
                      IF p[1] \in evs /\ p[2] = u /\ a.ok
                      THEN "sent" ELSE reported[p]]
    /\ IF a.ok THEN Inc("notifications_sent", 1) ELSE UNCHANGED metrics
    /\ UNCHANGED lost

(* One message to user u about the events evs, sent and counted.  Nobody   *)
(* sees the time between the two but the end of the process: Restart has   *)
(* the messages that were sent and are not counted any more.               *)
Deliver(evs, u, a) ==
    /\ copies' = [p \in Pairs |->
                    IF p[1] \in evs /\ p[2] = u /\ a.landed
                    THEN copies[p] + 1 ELSE copies[p]]
    /\ reported' = [p \in Pairs |->
                      IF p[1] \in evs /\ p[2] = u
                      THEN IF a.ok THEN "sent" ELSE "failed"
                      ELSE reported[p]]
    /\ Inc(IF a.ok THEN "notifications_sent" ELSE "notifications_failed", 1)
    /\ UNCHANGED lost

(* Mutant of Remaining: a failed message is repeated.                      *)
UntilSent(users, u, ok) == IF ok THEN users \ {u} ELSE users

(* The users still to be served after the attempt for u: the loops do not  *)
(* stop when it fails, and do not come back to it.                         *)
Remaining(users, u, ok) == users \ {u}

(* The loop over userIDs.                                                  *)
SendEvent(r, u) ==
    /\ pc[r] = "send" /\ u \in rcpt[r]
    /\ \E a \in Attempts(gone[r]) :
        /\ Deliver({cur[r]}, u, a)
        /\ rcpt' = [rcpt EXCEPT ![r] = Remaining(@, u, a.ok)]
    /\ IF rcpt'[r] = {} THEN BackToLoop(r) ELSE UNCHANGED <<pc, cur>>
    /\ UNCHANGED <<todo, gone, envVars, bufVars, dbVars, restarts, outcome,
                   audience, since>>

(* Mutants: no timer is armed; the last event's users replace the others.  *)
ArmNothing(t) == timers
Replaced(b, o, users) == [events |-> b.events \cup {o}, users |-> users]

(* The first event of a type makes the buffer and arms its timer; users    *)
(* and events accumulate.                                                  *)
Arm(t) == IF buffers[t] = NoBuffer THEN timers \cup {t} ELSE timers

Extended(b, o, users) ==
    [events |-> b.events \cup {o}, users |-> b.users \cup users]

(* The critical section of s.mu.                                           *)
EnqueueGrouped(r) ==
    LET t == TypeOf[cur[r]] IN
    /\ pc[r] = "enqueue"
    /\ timers' = Arm(t)
    /\ buffers' = [buffers EXCEPT ![t] = Extended(@, cur[r], rcpt[r])]
    /\ rcpt' = [rcpt EXCEPT ![r] = {}]
    /\ BackToLoop(r)
    /\ UNCHANGED <<todo, gone, envVars, flushing, metrics, dbVars, restarts,
                   outcome, audience, ledgerVars, since>>

(* flushGrouped up to the unlock: the timer's goroutine takes the buffer.  *)
TimerFires(t) ==
    /\ t \in timers
    /\ timers' = timers \ {t}
    /\ buffers' = [buffers EXCEPT ![t] = NoBuffer]
    /\ flushing' = IF buffers[t].events = {}
                   THEN flushing ELSE flushing \cup {buffers[t]}
    /\ UNCHANGED <<reqVars, envVars, metrics, dbVars, restarts, outcome, audience,
                   ledgerVars, since>>

(* Its loop over buffer.users, with context.Background(): no request can   *)
(* cancel it.                                                              *)
SendGrouped(b, u) ==
    /\ u \in b.users
    /\ \E a \in Attempts(FALSE) :
        /\ Deliver(b.events, u, a)
        /\ flushing' = (flushing \ {b}) \cup
             {c \in {[b EXCEPT !.users = Remaining(@, u, a.ok)]} : c.users # {}}
    /\ UNCHANGED <<reqVars, envVars, buffers, timers, dbVars, restarts, outcome,
                   audience, since>>

-----------------------------------------------------------------------------
(* The rest of the program, as far as the pipeline can tell.               *)

(* Store.Subscribe and Store.Unsubscribe, called by the bot at any time.   *)
Subscribe(u, t) ==
    /\ <<u, t>> \notin subs
    /\ subs' = subs \cup {<<u, t>>}
    /\ UNCHANGED <<reqVars, envVars, bufVars, metrics, events, blocked, restarts,
                   outcome, audience, ledgerVars, since>>

Unsubscribe(u, t) ==
    /\ <<u, t>> \in subs
    /\ subs' = subs \ {<<u, t>>}
    /\ UNCHANGED <<reqVars, envVars, bufVars, metrics, events, blocked, restarts,
                   outcome, audience, ledgerVars, since>>

(* A key of the deduplicator grows older than its window.                  *)
CoolDown ==
    /\ \E k \in hot : hot' = hot \ {k}
    /\ UNCHANGED <<reqVars, quiet, grouping, bufVars, metrics, dbVars, restarts, outcome,
                   audience, ledgerVars, since>>

(* The time of day enters or leaves the quiet hours.                       *)
QuietEdge ==
    /\ QuietHours
    /\ quiet' = ~quiet
    /\ UNCHANGED <<reqVars, hot, grouping, bufVars, metrics, dbVars, restarts, outcome,
                   audience, ledgerVars, since>>

(* A pair is due while some goroutine or some timer still holds it.        *)
Due(o, u) ==
    \/ \E r \in Requests : cur[r] = o /\ u \in rcpt[r]
    \/ \E t \in Types : o \in buffers[t].events /\ u \in buffers[t].users
    \/ \E b \in flushing : o \in b.events /\ u \in b.users

(* The messages that may be under way: their events and their user.  A     *)
(* cancelled call sends none.                                              *)
Sending ==
    {m \in (SUBSET Occs) \X Users :
        \/ \E r \in Requests : /\ pc[r] = "send" /\ ~gone[r]
                              /\ m[1] = {cur[r]} /\ m[2] \in rcpt[r]
        \/ \E b \in flushing : m[1] = b.events /\ m[2] \in b.users}

(* One at most of every goroutine, since it sends one after another.       *)
OneEach(messages) == \A m, n \in messages : m[1] = n[1] => m = n

Arrive(messages) ==
    copies' = [p \in Pairs |->
                 IF \E m \in messages : p[1] \in m[1] /\ p[2] = m[2]
                 THEN copies[p] + 1 ELSE copies[p]]

(* The process ends (a crash, or run() returning while goroutines are at   *)
(* work: nothing drains the group buffers) and is started again.  Messages *)
(* that Telegram had accepted (service.go:138, 201) reach their users and  *)
(* are counted nowhere (98-100, 176-178).                                  *)
Restart ==
    /\ restarts < MaxRestarts
    /\ \E messages \in SUBSET Sending : OneEach(messages) /\ Arrive(messages)
    /\ restarts' = restarts + 1
    /\ pc' = [r \in Requests |-> IF pc[r] \in {"idle", "done"} THEN pc[r] ELSE "dead"]
    /\ todo' = [r \in Requests |-> {}]
    /\ cur' = [r \in Requests |-> NoOcc]
    /\ rcpt' = [r \in Requests |-> {}]
    /\ gone' = [r \in Requests |-> FALSE]
    /\ hot' = {}
    /\ buffers' = [t \in Types |-> NoBuffer]
    /\ timers' = {}
    /\ flushing' = {}
    /\ metrics' = NoMetrics
    /\ since' = {}
    /\ lost' = lost \cup {p \in Pairs : Due(p[1], p[2])}
    /\ UNCHANGED <<quiet, grouping, dbVars, outcome, audience, reported>>

-----------------------------------------------------------------------------

ProcessEvent(r) ==
    \/ \E o \in Occs : \/ SkipUnknown(r, o) \/ SkipFiltered(r, o)
                       \/ SkipDuplicate(r, o) \/ Admit(r, o)
    \/ StoreEvent(r) \/ StoreBlockedIP(r)
    \/ LookupFails(r) \/ FindNobody(r) \/ GetSubscribers(r)
    \/ EnqueueGrouped(r)
    \/ \E u \in Users : SendEvent(r, u)

Flush == \E b \in flushing, u \in Users : SendGrouped(b, u)

Next ==
    \/ \E r \in Requests : Receive(r) \/ ProcessEvent(r) \/ Respond(r) \/ Disconnect(r)
    \/ \E t \in Types : TimerFires(t)
    \/ Flush
    \/ \E u \in Users, t \in Types : Subscribe(u, t) \/ Unsubscribe(u, t)
    \/ CoolDown \/ QuietEdge
    \/ Restart

Spec == Init /\ [][Next]_vars

(* A goroutine that can run is run, a timer that is due fires, and calls   *)
(* return: net/http, time.AfterFunc and the 40 s limit of the Telegram     *)
(* client (main.go).  Nothing is assumed of clients, users or the clock of *)
(* the deduplicator.                                                       *)
Fairness ==
    /\ \A r \in Requests : WF_vars(ProcessEvent(r) \/ Respond(r))
    /\ \A t \in Types : WF_vars(TimerFires(t))
    /\ WF_vars(Flush)

FairSpec == Spec /\ Fairness

-----------------------------------------------------------------------------
(* Properties.                                                             *)

(* No user gets two messages about one event, whatever the interleaving of *)
(* requests, flushes of the same type, failed sends and restarts.          *)
AtMostOnce == \A p \in Pairs : copies[p] <= 1

(* Nobody is forgotten: a user subscribed when an event was looked up is   *)
(* still due, or was counted as sent or failed, or was due when the        *)
(* process ended.  Holds across enqueueGrouped's and flushGrouped's        *)
(* critical sections (service.go:146-159, 165-168).                        *)
AudienceServed ==
    \A o \in Occs : \A u \in audience[o] :
        Due(o, u) \/ reported[<<o, u>>] # "none" \/ <<o, u>> \in lost

(* Only subscribers are written to.  Without grouping, those the event's   *)
(* own lookup returned; with grouping, those some lookup for the same type *)
(* returned: a user who joins a buffer gets its earlier events too.        *)
NoStrangers ==
    \A o \in Occs, u \in Users :
        copies[<<o, u>>] > 0 \/ Due(o, u) =>
            IF grouping
            THEN \E e \in Occs : TypeOf[e] = TypeOf[o] /\ u \in audience[e]
            ELSE u \in audience[o]

(* A buffer always has its timer running, so it will be flushed; and a     *)
(* timer never outlives its buffer, so it cannot cut a later one short     *)
(* (service.go:147-154, 165-167).                                          *)
TimerArmed ==
    \A t \in Types : t \in timers <=> buffers[t].events # {}

(* An event is suppressed as a duplicate only if an event with the same    *)
(* key got past every filter: a filtered event never silences a later one  *)
(* (the order of the checks in shouldNotify, service.go:106-118).          *)
SuppressedHasTwin ==
    \A o \in Occs : outcome[o] = "duplicate" =>
        \E e \in Occs : /\ e # o /\ TypeOf[e] = TypeOf[o] /\ IPOf[e] = IPOf[o]
                       /\ outcome[e] \in Accepted

(* The counters agree with what happened since the process started: every  *)
(* received event is counted once, a skipped one is counted skipped, and   *)
(* without grouping every recipient is counted sent or failed.             *)
MetricsAgree ==
    /\ metrics["webhook_events_received"] = Cardinality(since)
    /\ metrics["events_skipped"] =
         Cardinality({o \in since : outcome[o] \in {"filtered", "duplicate", "nobody"}})
    /\ ~grouping =>
         /\ metrics["notifications_sent"] =
              Cardinality({p \in Pairs : p[1] \in since /\ reported[p] = "sent"})
         /\ metrics["notifications_failed"] =
              Cardinality({p \in Pairs : p[1] \in since /\ reported[p] = "failed"})

(* The user has had a message that no counter has.                         *)
Uncounted(p) == copies[p] > 0 /\ reported[p] = "none"

(* What the counters say of a pair and what the user got go together: who  *)
(* is counted as sent has the message, once, and who has a message is      *)
(* counted, be it as failed, unless the process ended between Telegram's   *)
(* acceptance and the counter.  Since the loops count each message before  *)
(* they send the next, that can befall one user of an event at the most    *)
(* (service.go:95-102, 173-180).                                           *)
ArrivedIsCounted ==
    /\ \A p \in Pairs : /\ reported[p] = "sent" => copies[p] = 1
                        /\ Uncounted(p) => p \in lost
    /\ \A o \in Occs, u, v \in Users :
          Uncounted(<<o, u>>) /\ Uncounted(<<o, v>>) => u = v

(* The pipeline implements DeliveryLedger.                                 *)
FateOf(p) ==
    IF reported[p] # "none" THEN reported[p]
    ELSE IF p \in lost THEN "lost"
    ELSE IF Due(p[1], p[2]) THEN "due" ELSE "none"

Ledger == INSTANCE DeliveryLedger WITH fate <- [p \in Pairs |-> FateOf(p)]

ImplementsLedger == Ledger!Spec

(* Whoever is due is served: the loop over the users goes on after         *)
(* failures and every buffer is flushed in the end.                        *)
DueIsSettled == Ledger!DueIsSettled

(* Every request whose processing began is answered, unless the process    *)
(* ends first.                                                             *)
RequestsAnswered ==
    \A r \in Requests : pc[r] = "loop" ~> pc[r] \in {"done", "dead"}

(* README.md, QUIET_HOURS_START: "Notifications are skipped during this    *)
(* window": no message reaches anybody while it is quiet.                  *)
SilentWhileQuiet ==
    [][\A p \in Pairs : copies'[p] > copies[p] => ~quiet]_vars
=============================================================================
