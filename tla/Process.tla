------------------------------- MODULE Process -------------------------------
(***************************************************************************)
(* The process from its start to its end: run() and the purge job          *)
(* (cmd/stalwart-event-notification/main.go), ListenAndServe               *)
(* (internal/httpserver/server.go) and the statements of the start and of  *)
(* the purge (internal/storage/postgres.go).                               *)
(*                                                                         *)
(* The HTTP server, the bot that polls Telegram, the purge job and every   *)
(* request have a goroutine.  They end by themselves, by the context of    *)
(* NotifyContext being cancelled, or with the process; docker-compose      *)
(* starts it again, as often as it ends.  What a request does is           *)
(* NotificationService's subject; here it is accepted, may store an event, *)
(* and is answered or cut off.                                             *)
(***************************************************************************)
CONSTANTS
    Requests,   \* bound: the webhook requests that may be at work at once
    Events,     \* IDs of events
    IPs,        \* values of the <TYPE>_IGNORED_IPS settings
    BadIPs,     \* those PostgreSQL refuses as an inet
    Retention   \* EVENTS_RETENTION_DAYS > 0

ASSUME SettingsAssumption == BadIPs \subseteq IPs /\ Retention \in BOOLEAN

VARIABLES
    run,        \* the statement run() is at
    cancelled,  \* ctx is done: a signal came, or stop() was called
    code,       \* what run() returns, once it is known
    http,       \* the HTTP server, and what ListenAndServe has left in httpErr
    bot,        \* telegramBot.Start
    purge,      \* the goroutine of startPurgeJob
    store,      \* the store is open
    active,     \* the requests at work
    settings,   \* cfg.IgnoredIPsByEvent of this start
    unsynced,   \* the part SyncIgnoredIPs has not come to
    \* the database
    schema,     \* the tables exist
    ignored,    \* table ignored_ips
    fresh,      \* rows of table events younger than the retention
    expired     \* older ones

parts == <<http, bot, purge, active>>
startVars == <<settings, unsynced>>
tables == <<schema, ignored, fresh, expired>>
vars == <<run, cancelled, code, store, parts, startVars, tables>>

Starting == {"open", "schema", "sync", "telegram"}
Stages == Starting \cup {"down", "select", "http", "bot", "close", "exit"}

TypeOK ==
    /\ run \in Stages
    /\ {cancelled, store, schema} \subseteq BOOLEAN
    /\ code \in {"none", "nil", "error"}
    /\ http \in {"off", "serving", "draining", "nil", "error"}
    /\ bot \in {"off", "polling", "done"}
    /\ purge \in {"off", "deleting", "waiting"}
    /\ active \subseteq Requests
    /\ settings \subseteq IPs /\ unsynced \subseteq settings /\ ignored \subseteq IPs
    /\ fresh \subseteq Events /\ expired \subseteq Events
    /\ fresh \cap expired = {}

Init ==
    /\ run = "down" /\ code = "none"
    /\ http = "off" /\ bot = "off" /\ purge = "off"
    /\ cancelled = FALSE /\ store = FALSE /\ schema = FALSE
    /\ active = {} /\ settings = {} /\ unsynced = {} /\ ignored = {}
    /\ fresh = {} /\ expired = {}

-----------------------------------------------------------------------------
(* The start.  A setting may have changed since the last one.              *)

Start ==
    /\ run = "down"
    /\ run' = "open"
    /\ settings' \in SUBSET IPs /\ unsynced' = settings'
    /\ cancelled' = FALSE /\ code' = "none"
    /\ UNCHANGED <<store, parts, tables>>

(* Statements of the start take ctx and fail once it is cancelled.         *)
Proceed(from, to) ==
    /\ run = from /\ ~cancelled
    /\ run' = to

OpenPostgres ==
    /\ Proceed("open", "schema")
    /\ store' = TRUE
    /\ UNCHANGED <<cancelled, code, parts, startVars, tables>>

EnsureSchema ==
    /\ Proceed("schema", "sync")
    /\ schema' = TRUE
    /\ UNCHANGED <<cancelled, code, store, parts, startVars, ignored, fresh, expired>>

(* Mutant of Synced: an address that fails is passed over.                 *)
Attempted(ip) == ignored' \in {ignored \cup {ip}, ignored}

Synced(ip) == ip \notin BadIPs /\ ignored' = ignored \cup {ip}

(* One iteration of SyncIgnoredIPs, in the order of a map: rows are        *)
(* inserted and never deleted.                                             *)
SyncIgnoredIP ==
    /\ Proceed("sync", "sync")
    /\ \E ip \in unsynced : unsynced' = unsynced \ {ip} /\ Synced(ip)
    /\ UNCHANGED <<cancelled, code, store, parts, settings, schema, fresh, expired>>

(* SyncIgnoredIPs returns, and startPurgeJob starts its goroutine.         *)
StartPurgeJob ==
    /\ run = "sync" /\ unsynced = {}
    /\ run' = "telegram"
    /\ purge' = IF Retention THEN "deleting" ELSE "off"
    /\ UNCHANGED <<cancelled, code, store, http, bot, active, startVars, tables>>

(* telegram.New has answered, with its own context, and both servers are   *)
(* started.  A failure of SetCommands is logged only.                      *)
Serve ==
    /\ run = "telegram"
    /\ run' = "select"
    /\ http' = "serving" /\ bot' = "polling"
    /\ UNCHANGED <<cancelled, code, store, purge, active, startVars, tables>>

(* Any of these steps fails, for lack of a server, of rights, of a valid   *)
(* address or token, or because ctx is cancelled, and run() returns.       *)
StartFails ==
    /\ run \in Starting
    /\ run' = "close" /\ code' = "error"
    /\ UNCHANGED <<cancelled, store, parts, startVars, tables>>

-----------------------------------------------------------------------------
(* ListenAndServe.                                                         *)

(* A connection that was accepted before Shutdown closed the listener may  *)
(* still bring its request.                                                *)
Accept(r) ==
    /\ http \in {"serving", "draining"} /\ r \notin active
    /\ active' = active \cup {r}
    /\ UNCHANGED <<run, cancelled, code, store, http, bot, purge, startVars, tables>>

Answered(r) ==
    /\ r \in active
    /\ active' = active \ {r}
    /\ UNCHANGED <<run, cancelled, code, store, http, bot, purge, startVars, tables>>

(* The server ends: its goroutine sends result to httpErr.                 *)
HttpEnds(from, result) ==
    /\ http = from /\ http' = result
    /\ UNCHANGED <<run, cancelled, code, store, bot, purge, active, startVars, tables>>

(* The port is taken, or the listener fails.  Requests go on.              *)
ListenFails == HttpEnds("serving", "error")

Shutdown == cancelled /\ HttpEnds("serving", "draining")

Drained == active = {} /\ HttpEnds("draining", "nil")

(* Mutant of TimesOut: the error of Shutdown is dropped.                   *)
TimesOutQuietly == active # {} /\ HttpEnds("draining", "nil")

(* Ten seconds are over and requests are still at work.                    *)
TimesOut == active # {} /\ HttpEnds("draining", "error")

ListenAndServe == Shutdown \/ Drained \/ TimesOut

-----------------------------------------------------------------------------
(* The bot's polling and the purge job.                                    *)

BotEnds ==
    /\ bot = "polling" /\ cancelled
    /\ bot' = "done"
    /\ UNCHANGED <<run, cancelled, code, store, http, purge, active, startVars, tables>>

PurgeStep(from, to) ==
    /\ purge = from /\ purge' = to
    /\ UNCHANGED <<run, cancelled, code, store, http, bot, active, startVars,
                   schema, ignored, fresh>>

PurgeOldEvents ==
    /\ store /\ ~cancelled
    /\ expired' = {}
    /\ PurgeStep("deleting", "waiting")

(* Mutant of PurgeFails: the goroutine returns the error.                  *)
PurgeGivesUp == PurgeStep("deleting", "off") /\ UNCHANGED expired

(* Logged, and tried again after a day.                                    *)
PurgeFails == PurgeStep("deleting", "waiting") /\ UNCHANGED expired

Ticker == PurgeStep("waiting", "deleting") /\ UNCHANGED expired

PurgeEnds == cancelled /\ PurgeStep("waiting", "off") /\ UNCHANGED expired

(* The select of the job takes either branch when both are ready.          *)
PurgeJob == PurgeOldEvents \/ PurgeFails \/ Ticker \/ PurgeEnds

-----------------------------------------------------------------------------
(* The end: the select of run(), what it waits for, the deferred calls.    *)

Returned == http \in {"nil", "error"}

(* ctx.Done() is ready.                                                    *)
SelectCtx ==
    /\ run = "select" /\ cancelled
    /\ run' = "http"
    /\ UNCHANGED <<cancelled, code, store, parts, startVars, tables>>

(* Mutant of SelectHttp: stop() is missing.                                *)
SelectHttpOnly ==
    /\ run = "select" /\ Returned
    /\ run' = "bot" /\ code' = http
    /\ UNCHANGED <<cancelled, store, parts, startVars, tables>>

(* httpErr is ready: stop() ends the bot, which is waited for.             *)
SelectHttp ==
    /\ run = "select" /\ Returned
    /\ run' = "bot" /\ code' = http
    /\ cancelled' = TRUE
    /\ UNCHANGED <<store, parts, startVars, tables>>

(* Mutant of AwaitHttp: what the server has left is read without waiting   *)
(* for it.                                                                 *)
AwaitNothing ==
    /\ run = "http"
    /\ run' = IF http = "error" THEN "close" ELSE "bot"
    /\ code' = http
    /\ UNCHANGED <<cancelled, store, parts, startVars, tables>>

(* <-httpErr after ctx.Done(): an error is returned without the bot.       *)
AwaitHttp ==
    /\ run = "http" /\ Returned
    /\ run' = IF http = "error" THEN "close" ELSE "bot"
    /\ code' = http
    /\ UNCHANGED <<cancelled, store, parts, startVars, tables>>

AwaitBot ==
    /\ run = "bot" /\ bot = "done"
    /\ run' = "close"
    /\ UNCHANGED <<cancelled, code, store, parts, startVars, tables>>

(* The deferred store.Close() and stop().                                  *)
Close ==
    /\ run = "close"
    /\ run' = "exit"
    /\ store' = FALSE /\ cancelled' = TRUE
    /\ UNCHANGED <<code, parts, startVars, tables>>

(* The process is gone, and every goroutine with it.                       *)
Gone ==
    /\ run' = "down" /\ store' = FALSE
    /\ http' = "off" /\ bot' = "off" /\ purge' = "off"
    /\ active' = {}
    /\ UNCHANGED <<cancelled, startVars, tables>>

Exit == run = "exit" /\ Gone /\ UNCHANGED code

Run ==
    \/ OpenPostgres \/ EnsureSchema \/ SyncIgnoredIP \/ StartPurgeJob \/ Serve
    \/ StartFails
    \/ SelectCtx \/ SelectHttp \/ AwaitHttp \/ AwaitBot \/ Close \/ Exit

-----------------------------------------------------------------------------
(* Everything else: signals, crashes, the rows that requests store, time.  *)

(* SIGINT or SIGTERM; a second one changes nothing.                        *)
Signal ==
    /\ run # "down" /\ ~cancelled
    /\ cancelled' = TRUE
    /\ UNCHANGED <<run, code, store, parts, startVars, tables>>

(* SIGKILL, a panic, the machine.                                          *)
Crash == run # "down" /\ Gone /\ code' = "error"

(* A request stores an event, which may be old when it arrives.            *)
StoreEvent(e) ==
    /\ active # {} /\ store
    /\ e \notin fresh \cup expired
    /\ \/ fresh' = fresh \cup {e} /\ UNCHANGED expired
       \/ expired' = expired \cup {e} /\ UNCHANGED fresh
    /\ UNCHANGED <<run, cancelled, code, store, parts, startVars, schema, ignored>>

Age(e) ==
    /\ e \in fresh
    /\ fresh' = fresh \ {e} /\ expired' = expired \cup {e}
    /\ UNCHANGED <<run, cancelled, code, store, parts, startVars, schema, ignored>>

Next ==
    \/ Start \/ Run \/ Signal \/ Crash
    \/ ListenAndServe \/ ListenFails
    \/ \E r \in Requests : Accept(r) \/ Answered(r)
    \/ BotEnds \/ PurgeJob
    \/ \E e \in Events : StoreEvent(e) \/ Age(e)

Spec == Init /\ [][Next]_vars

(* The calls of run() return: statements at the start have ctx, the first  *)
(* one a limit of its own, telegram.New one in the library; Shutdown has   *)
(* its ten seconds; polling ends with ctx; the ticker ticks.  A purge that *)
(* is tried every day succeeds some day, unless none is tried any more.    *)
Fairness ==
    /\ WF_vars(Run) /\ WF_vars(ListenAndServe) /\ WF_vars(BotEnds)
    /\ WF_vars(PurgeJob) /\ SF_vars(PurgeOldEvents)

FairSpec == Spec /\ Fairness

-----------------------------------------------------------------------------
(* Properties.                                                             *)

(* run() returns nil only when everything it waits for is over: from the   *)
(* moment that is decided no request is at work, and the store is closed   *)
(* only when the bot has stopped polling.  A request that outlasts         *)
(* Shutdown, or a listener that failed, ends in an error instead           *)
(* (main.go:119-130, server.go:170-184).                                   *)
CleanStop ==
    code = "nil" => /\ active = {}
                    /\ run \in {"close", "exit"} => bot = "done"

(* Whoever can reach the server finds the tables, and in ignored_ips every *)
(* address of the settings, although rows are inserted one by one, the     *)
(* start may fail between two of them, and a later one begins with what it *)
(* left (main.go:63-68, postgres.go:53-63, 225-240).                       *)
ServesSynced == http # "off" => schema /\ settings \subseteq ignored

(* A signal at any moment of the start, of the service or of the end, and  *)
(* a server that fails, bring the process down: nothing is waited for that *)
(* has not been told to end (main.go:119-130).                             *)
Stops == (cancelled \/ http = "error") ~> run = "down"

(* An event past its retention is deleted while the purge job runs,        *)
(* whatever fails in between, unless the process ends (main.go:133-151).   *)
ExpiredArePurged ==
    \A e \in Events :
        (e \in expired /\ purge # "off") ~> (e \notin expired \/ run = "down")
=============================================================================
