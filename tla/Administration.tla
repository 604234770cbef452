--------------------------- MODULE Administration ---------------------------
(***************************************************************************)
(* The figures the bot shows: /status, /stats, /users, /events_count and   *)
(* /blocked (internal/bot/handler.go), who may ask for them                *)
(* (internal/config/config.go), the counting statements and the table they *)
(* count (internal/storage/postgres.go).                                   *)
(*                                                                         *)
(* A command runs in a goroutine of its own, one statement after another,  *)
(* without a transaction; meanwhile webhooks insert events, the purge job  *)
(* deletes them and time passes.  A day is the unit of created_at, which   *)
(* the sender of the webhook chooses: it may be old, or ahead of the clock.*)
(***************************************************************************)
EXTENDS Integers, Sequences, FiniteSetsExt

CONSTANTS
    Handlers,    \* bound: the commands that may be at work at once
    Users,       \* Telegram users
    NoUser,      \* ALLOWED_USER_ID is empty
    AllowedUser, \* ALLOWED_USER_ID
    AdminUsers,  \* ADMIN_USER_IDS
    Ids,         \* IDs of events
    Types,       \* event types
    SupportedTypes, \* events.SupportedTypes
    TypeOf,      \* TypeOf[i]: the type of the events with ID i
    Asked,       \* the numbers typed after /events_count and /blocked
    MaxWindow,   \* the days that PostgreSQL can subtract from NOW()
    Blocked,     \* the number of rows of blocked_ips
    Retentions,  \* bound: the values of retention (below) that are explored
    MaxDay,      \* bound on the clock
    Faults       \* SQL statements may fail

ASSUME UserAssumption ==
    /\ NoUser \notin Users /\ IsFiniteSet(Users)
    /\ AllowedUser \in Users \cup {NoUser} /\ AdminUsers \subseteq Users

ASSUME EventAssumption ==
    /\ TypeOf \in [Ids -> Types] /\ IsFiniteSet(Types)
    /\ SupportedTypes \subseteq Types

ASSUME NumberAssumption ==
    /\ {MaxWindow, Blocked, MaxDay} \cup Retentions \subseteq Nat
    /\ Asked \subseteq Int

ASSUME FaultsAssumption == Faults \in BOOLEAN

VARIABLES
    today,       \* NOW()
    retention,   \* EVENTS_RETENTION_DAYS, explored in one run with every value
    rows,        \* table events: the ID and the created_at of every row
    subs,        \* table subscriptions: pairs <<user, type>>, each type checked
    command,     \* what each handler has been asked
    figures,     \* what its statements have returned
    dropped,     \* the total's statement failed, and 0 is shown for it
    \* history
    everStored,  \* every row that was inserted
    arrivals     \* rows inserted since the handler's total was counted

tables == <<rows, subs, everStored>>
vars == <<today, retention, tables, command, figures, dropped, arrivals>>

Rows == Ids \X Int
NoArg == -1
Kinds == {"status", "stats", "users", "events_count", "blocked"}
Commands == [kind : Kinds, arg : Asked \cup {NoArg}]
None == [kind |-> "none", arg |-> NoArg]

TypeOK ==
    /\ today \in 0..MaxDay
    /\ retention \in Retentions
    /\ rows \subseteq Rows /\ everStored \subseteq Rows
    /\ \A e, f \in rows : e[1] = f[1] => e = f
    /\ subs \subseteq Users \X SupportedTypes
    /\ command \in [Handlers -> Commands \cup {None}]
    /\ figures \in [Handlers -> Seq(Nat)]
    /\ \A h \in Handlers : Len(figures[h]) <= 3
    /\ \A h \in Handlers :
          command[h].kind = "blocked" /\ figures[h] # <<>> => figures[h][1] <= 500
    /\ dropped \in [Handlers -> BOOLEAN]
    /\ arrivals \in [Handlers -> SUBSET Rows]

Init ==
    /\ today = 0
    /\ retention \in Retentions
    /\ rows = {} /\ everStored = {}
    /\ subs \in SUBSET (Users \X SupportedTypes)
    /\ command = [h \in Handlers |-> None]
    /\ figures = [h \in Handlers |-> <<>>]
    /\ dropped = [h \in Handlers |-> FALSE]
    /\ arrivals = [h \in Handlers |-> {}]

-----------------------------------------------------------------------------
(* Who may ask.                                                            *)

IsAllowedUser(u) == AllowedUser \in {NoUser, u}

(* The list of admins counts when there is one, else the allowed user.     *)
IsAdminUser(u) == u \in IF AdminUsers # {} THEN AdminUsers ELSE {AllowedUser}

(* HandleMessage looks at the first before anything else, the handlers of  *)
(* all commands but /status at the second.                                 *)
MayAsk(u, kind) == IsAllowedUser(u) /\ (kind = "status" \/ IsAdminUser(u))

-----------------------------------------------------------------------------
(* The statements.                                                         *)

(* Mutant of Since: the condition is added for 0 days as well.             *)
SinceAlways(days) == {e \in rows : e[2] >= today - days}

(* The rows that EventsCount and EventsCountByType look at.                *)
Since(days) == IF days > 0 THEN {e \in rows : e[2] >= today - days} ELSE rows

EventsCount(days) == Cardinality(Since(days))

EventsCountByType(days) ==
    [t \in {TypeOf[e[1]] : e \in Since(days)} |->
        Cardinality({e \in Since(days) : TypeOf[e[1]] = t})]

(* The lines of /events_count: sortedEventTypes has the supported types,   *)
(* and a count for any other is not printed.                               *)
EventLines(days) ==
    LET counts == EventsCountByType(days)
    IN  [t \in DOMAIN counts \cap SupportedTypes |-> counts[t]]

SubscribersCount == Cardinality({s[1] : s \in subs})

UsersWithSubscriptionCount ==
    [u \in {s[1] : s \in subs} |-> Cardinality({s \in subs : s[1] = u})]

(* Mutant of Limit: the store takes what it is given.                      *)
LimitUnchecked(arg) == IF arg > 0 THEN arg ELSE 50

(* handleBlocked's default, then BlockedIPs': more than 500 is 50 again.   *)
Limit(arg) == IF arg \in 1..500 THEN arg ELSE 50

(* handleEventsCount's default.                                            *)
Window(arg) == IF arg >= 0 THEN arg ELSE 7

(* The statements of a command in their order.                             *)
Statements(kind) ==
    CASE kind = "stats"  -> <<"subscribers", "events", "events_24h">>
      [] kind = "status" -> <<"subscribers">>
      [] OTHER           -> <<kind>>

(* What a statement returns: a count, or how many lines the answer has.    *)
Result(statement, arg) ==
    CASE statement = "subscribers"  -> SubscribersCount
      [] statement = "events"       -> EventsCount(0)
      [] statement = "events_24h"   -> EventsCount(1)
      [] statement = "users"        -> Cardinality(DOMAIN UsersWithSubscriptionCount)
      [] statement = "events_count" -> Cardinality(DOMAIN EventLines(Window(arg)))
      [] statement = "blocked"      -> Min({Limit(arg), Blocked})

-----------------------------------------------------------------------------
(* A command.                                                              *)

(* HandleMessage of somebody who may ask, after ensurePrefs; the others    *)
(* are answered "access_denied", and nothing is counted for them.          *)
Begin(h) ==
    /\ command[h] = None
    /\ \E c \in Commands, u \in Users :
          MayAsk(u, c.kind) /\ command' = [command EXCEPT ![h] = c]
    /\ UNCHANGED <<today, retention, tables, figures, dropped, arrivals>>

Return(h) ==
    /\ command' = [command EXCEPT ![h] = None]
    /\ figures' = [figures EXCEPT ![h] = <<>>]
    /\ dropped' = [dropped EXCEPT ![h] = FALSE]
    /\ arrivals' = [arrivals EXCEPT ![h] = {}]
    /\ UNCHANGED <<today, retention, tables>>

Current(h) == Statements(command[h].kind)[Len(figures[h]) + 1]

Pending(h) ==
    command[h] # None /\ Len(figures[h]) < Len(Statements(command[h].kind))

Shows(h, n) ==
    /\ figures' = [figures EXCEPT ![h] = Append(@, n)]
    /\ arrivals' = IF Current(h) = "events"
                   THEN [arrivals EXCEPT ![h] = {}] ELSE arrivals
    /\ UNCHANGED <<today, retention, tables, command>>

(* The next statement of the command succeeds.                             *)
Count(h) ==
    /\ Pending(h)
    /\ Current(h) = "events_count" => Window(command[h].arg) <= MaxWindow
    /\ Shows(h, Result(Current(h), command[h].arg))
    /\ UNCHANGED dropped

(* It fails.  handleStatus and handleStats drop the error and show what    *)
(* the store returned with it, 0.                                          *)
DropError(h) ==
    /\ Faults /\ Pending(h) /\ command[h].kind \in {"status", "stats"}
    /\ Shows(h, 0)
    /\ dropped' = [dropped EXCEPT ![h] = @ \/ Current(h) = "events"]

(* The other handlers return the error, and the admin gets no answer.      *)
GiveUp(h) ==
    /\ Pending(h) /\ command[h].kind \notin {"status", "stats"}
    /\ \/ Faults
       \/ command[h].kind = "events_count" /\ Window(command[h].arg) > MaxWindow
    /\ Return(h)

Answer(h) == command[h] # None /\ ~Pending(h) /\ Return(h)

-----------------------------------------------------------------------------
(* The table meanwhile.                                                    *)

(* Mutant of IsSupported: every event that comes is stored.                *)
AnyType(type) == TRUE

IsSupported(type) == type \in SupportedTypes

(* ProcessEvent of a type that is supported (of others it stores nothing)  *)
(* and StoreEvent: ON CONFLICT (id) DO NOTHING.                            *)
StoreEvent ==
    \E i \in Ids, day \in 0..MaxDay :
        /\ IsSupported(TypeOf[i])
        /\ \A e \in rows : e[1] # i
        /\ rows' = rows \cup {<<i, day>>}
        /\ everStored' = everStored \cup {<<i, day>>}
        /\ arrivals' = [h \in Handlers |-> IF command[h] = None THEN {}
                                           ELSE arrivals[h] \cup {<<i, day>>}]
        /\ UNCHANGED <<today, retention, subs, command, figures, dropped>>

(* Mutant of Expired: the row of the last day goes too.                    *)
ExpiredEarly == {e \in rows : e[2] <= today - retention}

Expired == {e \in rows : e[2] < today - retention}

PurgeOldEvents ==
    /\ retention > 0
    /\ rows' = rows \ Expired
    /\ UNCHANGED <<today, retention, subs, everStored, command, figures, dropped, arrivals>>

Tick ==
    /\ today < MaxDay
    /\ today' = today + 1
    /\ UNCHANGED <<retention, tables, command, figures, dropped, arrivals>>

-----------------------------------------------------------------------------

Next ==
    \/ \E h \in Handlers : Begin(h) \/ Count(h) \/ DropError(h) \/ GiveUp(h) \/ Answer(h)
    \/ StoreEvent \/ PurgeOldEvents \/ Tick

Spec == Init /\ [][Next]_vars

-----------------------------------------------------------------------------
(* Properties.                                                             *)

(* Purging and counting agree on where a day ends: a count over no more    *)
(* days than the retention misses no event that was ever stored, and one   *)
(* over any number of days none when nothing is purged (postgres.go:242-   *)
(* 251 against 261-299).                                                   *)
CountsMissNothing ==
    \A days \in 0..MaxDay :
        retention = 0 \/ days \in 1..retention =>
            Since(days) =
              {e \in everStored : days > 0 => e[2] >= today - days}

(* /stats reads its two counts of events in separate statements, the total *)
(* first (handler.go:345-347).  The last day's figure exceeds the total    *)
(* only by events that were stored in between, or when the total's         *)
(* statement failed and shows 0.                                           *)
DayWithinTotal ==
    \A h \in Handlers :
        Len(figures[h]) = 3 /\ ~dropped[h] =>
            figures[h][3] <= figures[h][2] + Cardinality(arrivals[h])

(* /events_count accounts for every event it counted: the handler prints   *)
(* only the types that the registry lists (handler.go:390-394) of those    *)
(* the statement has grouped (postgres.go:275-300), and the lines still    *)
(* add up to all events of the window, since the pipeline stores none of   *)
(* another type (service.go:62-64), whatever is purged meanwhile.          *)
ListedAddUp ==
    \A days \in 0..MaxDay : SumFunction(EventLines(days)) = EventsCount(days)
=============================================================================
