# Formal models of stalwart-event-notification

The program is a Go service between a Stalwart mail server and Telegram. Stalwart
posts *webhooks* with events; the service filters them, stores them in PostgreSQL
and messages the Telegram users that have subscribed to the event's type. The same
process runs the Telegram *bot* with which users subscribe and set their
preferences.

This directory holds TLA+ models of it, the TLC configurations that check them on
small instances and proofs, checked by TLAPS, of what matters most for every
instance. Paths below are relative to `src/`.

    tlasany M.tla                            parse
    tlc -config svc_paths.cfg MCNotificationService.tla
    tlapm NotificationService_proofs.tla     check proofs

`PROJECT.json` lists the runs, the theorems, and for every definition that models
code the lines it models.

## 1. The system

| Component | Source | State | Operations | Talks to |
|---|---|---|---|---|
| Event registry | `internal/events/registry.go` | constant table type -> severity | `IsSupported`, `EventSeverity`, `SeverityRank` | called by the service and the bot |
| Webhook server | `internal/httpserver/server.go` | none (configuration) | `handleWebhook`, status, health, metrics | one goroutine per request (net/http); calls the notification service in its own goroutine |
| Payloads, authentication | `internal/webhook/*.go` | none | `ParsePayload`, `VerifySignature`, `VerifyBasicAuth`, `SourceIP` | pure functions |
| Notification service | `internal/notifications/service.go` | `buffers` per type (events, users, timer), mutex | `ProcessEvent`, `enqueueGrouped`, `flushGrouped` | store, messenger, deduplicator, metrics; `time.AfterFunc` goroutines |
| Deduplicator | `internal/notifications/dedup.go` | map key -> time, mutex | `ShouldNotify` | clock |
| Filters | `internal/notifications/filter.go` | none | `PassesSeverity`, `IsInQuietHours` | clock |
| Metrics | `internal/notifications/metrics.go` | counters, mutex | `Inc`, `Render` | written by server and service |
| Store | `internal/storage/postgres.go` | tables `subscriptions`, `events`, `blocked_ips`, `ignored_ips`, `user_preferences` | one SQL statement each, `SubscribeAll`/`SyncIgnoredIPs` several | PostgreSQL, no transactions |
| Bot | `internal/bot/handler.go`, `update_handler.go` | none of its own; the user's row and subscriptions | `HandleMessage`, `HandleCallback`: commands and buttons of users, commands of admins | one goroutine per update (Telegram library); store, messenger |
| Menus | `internal/bot/menu.go`, `handler.go` | what the messages in the chat show | pages and buttons of the preferences, edits and deletions | as the bot |
| Telegram messenger | `internal/bot/telegram_messenger.go` | none | send, edit, delete, answer a query | Telegram |
| Configuration | `internal/config/config.go` | read once | `Load`, `IsAllowedUser`, `IsAdminUser` | called by all |
| Formatter, translations | `internal/notifications/formatter.go`, `internal/i18n/i18n.go` | none | text of messages | pure |
| Process | `cmd/stalwart-event-notification/main.go`, `ListenAndServe` of `server.go` | signal context, `httpErr`, `botDone` | start, purge every 24 h, shutdown within ten seconds | everything; docker-compose restarts it (`restart: unless-stopped`) |

How they interact. A webhook request runs `handleWebhook`, which calls
`ProcessEvent` for one event of the payload after the other, with the request's
context. `ProcessEvent` filters (`shouldNotify`), stores, looks up the subscribers
and either sends at once or adds the event and the users to the buffer of the
type; the first event of a buffer starts a timer, whose goroutine takes the buffer
out and sends to its users. Bot updates change subscriptions and preferences at
any moment in between. What is in memory (buffers, deduplication keys, counters)
ends with the process; what is in PostgreSQL stays.

Where it is hard:

* requests, timers and bot commands run concurrently and share the buffers, the
  deduplicator, the counters and the tables;
* the verdict (filters, quiet hours, deduplication) and the lookup are taken at one
  time and used at a later one: the send loop may be slow and a group may wait for
  up to an hour;
* statements and sends fail one by one, a client that hangs up cancels what is left
  of its payload, a send may fail for the program although Telegram delivered it;
* nothing is retried, and the end of the process waits for requests and for the bot's
  polling, but not for group buffers or for the bot's handlers;
* a signal, a failing server and the ten-second limit meet at the end of `run()`;
* rows are read, changed and written back without a transaction, figures that belong
  together are counted by separate statements, and a menu is drawn from a row that may
  have changed before the drawing arrives.

What makes each component correct:

| Component | Properties |
|---|---|
| Deduplicator | a key is refused exactly within the window of the last time it was let through; test and entry are one step; the sweep forgets nothing that matters and keeps nothing else |
| Filters | quiet hours are one span of the day with edges at the settings only; a filtered event never silences a later one |
| Notification service | nobody gets an event twice; nobody who was looked up is forgotten; only subscribers are written to; whoever is due is served; a buffer has its timer |
| Webhook server | a request that was begun is answered |
| Metrics | the counters agree with what happened since the start; whoever has a message is counted, unless the process ended in between |
| Preferences | a choice once stored stays until the user changes it; a row is blank or whole, with values that are supported or the default; the client's language never replaces a stored one |
| Subscriptions | what the bot told the user is true until the user's next command; only rows he asked to change change; the counts in the answers add up to the rows |
| Menus | a menu shows what is stored, or something excuses it; every tap is answered |
| Administration | counting and purging agree on where a day ends; two figures of one answer fit; the lines by type account for every event counted |
| Process | only what was in memory is lost; nothing is served before tables and ignored IPs are there; success is returned only when no request was cut off; a signal at any moment ends it; expired events go |

## 2. The modules

| Module | Models | Uses |
|---|---|---|
| `EventRegistry` | the registry's table, `PassesSeverity` | |
| `SuppressionWindow` | abstract: what a deduplicator promises | |
| `Deduplicator` | `dedup.go`, with clock, map and sweep | implements `SuppressionWindow` |
| `QuietHours` | `filter.go`: `parseHourMinute`, `IsInQuietHours` | |
| `DeliveryLedger` | abstract: the life of one pair <<event, user>> | |
| `NotificationService` | `handleWebhook`'s loop, `service.go`, the tables it uses, the end of the process | `EventRegistry`; the promise of `SuppressionWindow`; implements `DeliveryLedger` |
| `Preferences` | `ensurePrefs`, `prefs`, `savePrefsAndConfirm`, `GetPrefs`/`SetPrefs` | |
| `PrefsMenu` | the preferences menu: `menu.go`, `handlePrefsCallback`, `prefsSummary`, `exitInlineMenu`, edits and deletions | the row of `Preferences`, complete |
| `SubscriptionPromise` | abstract: what the bot promises a user about the rows | |
| `Subscriptions` | `handleSubscribe`, `handleUnsubscribe`, `handleList`, the buttons, and their statements (`SubscribeAll` row by row) | implements `SubscriptionPromise` |
| `Administration` | `handleStatus`, `handleStats`, `handleUsers`, `handleEventsCount`, `handleBlocked`, who may ask, the counting statements, the purge | |
| `Process` | `run`, `startPurgeJob`, `ListenAndServe`, the statements of start and purge | |
| `MC*` | instances for TLC | the module of that name |
| `*_proofs` | theorems | the module of that name |

**`Deduplicator`.** `seen`, `window`, `enabled` are the fields of the struct, `now`
is what `d.now()` returns. `ShouldNotify` holds the mutex from end to end, so it is
one action with three cases (disabled, refused, let through and swept). `lastYes` is
a history variable that forgets nothing; the properties compare the swept map with it.

**`SuppressionWindow` / `NotificationService`.** The pipeline does not carry the
clock of the deduplicator. It uses the promise the deduplicator is proved to
implement: `hot` keys are refused, a key that is let through becomes hot in the same
step, hot keys cool down at their own time.

**`NotificationService`.** One value of `pc` per webhook request:

| `pc` | Code |
|---|---|
| `idle` -> `loop` (`Receive`) | `handleWebhook` has authenticated and parsed; the two request counters |
| `loop` | between two `ProcessEvent` calls; `SkipUnknown`, `SkipFiltered`, `SkipDuplicate` return to it at once, `Admit` is `shouldNotify` answering yes |
| `store` (`StoreEvent`) | the insert, `ON CONFLICT (id) DO NOTHING`; a failure is logged and the event goes on |
| `block` (`StoreBlockedIP`) | only for `security.ip-blocked` with an IP |
| `lookup` (`LookupFails`, `FindNobody`, `GetSubscribers`) | the query and its three outcomes |
| `send` (`SendEvent`) | one iteration of the loop over `userIDs` |
| `enqueue` (`EnqueueGrouped`) | the critical section of `enqueueGrouped` |
| `done` (`Respond`) | the response was written |
| `dead` | the process ended while the request was at work |

`TimerFires` is `flushGrouped` up to the unlock; `flushing` holds the buffers that
its goroutines are sending, `SendGrouped` is one iteration over `buffer.users`.
`Disconnect` is the cancellation of `r.Context()`; every later statement and send of
the request fails, the flush is not affected (`context.Background()`); the context ends
with its request, answered or dead. An attempt
(`Attempts`) either succeeds, or fails without reaching the user, or fails for the
program although the message was delivered. `Subscribe`, `Unsubscribe`, `CoolDown`
and `QuietEdge` are the environment: users, the age of keys, the time of day.
`Restart` ends the process at any point and starts it again: memory is empty, the
tables stay, what was due is recorded in the history variable `lost`. A message and its
counter are one step of `Deliver`, since nothing but the end of the process can be told
before or after the time between the two; that one can, so `Restart` has it: of every goroutine that is
sending, one message may have been accepted by Telegram and not been counted yet
(`Sending`, `OneEach`, `Arrive`). `Restart` is what a crash does, and what a clean stop
does to group buffers: `Process` shows that it waits for the requests, and nothing in
`run()` flushes a buffer.

`grouping` says whether `NOTIFICATION_GROUP_WINDOW_SECONDS` is positive. No step changes
it; it is a variable, chosen in `Init` from the constant `Groupings`, so that one run
explores both paths.

A step is what one goroutine does between two points where another one can be
observed to intervene: a critical section, one SQL statement, one message. The
order of a payload and of a user list is abstracted to "any member not looked at
yet" (maps iterate in any order, and no property depends on the payload's order).
`Payload`, `TypeOf`, `IPOf` and `IdOf` describe the events; a retried webhook is
another event with the same ID, type and IP.

**`DeliveryLedger`.** The promise about one pair: it becomes due once, is settled
once (`sent` or `failed`) or is lost with the process, and never changes after that;
one message settles pairs of one user with one result. `NotificationService`
implements it with `fate` read off `reported`, `lost` and the places that hold
a pair (`FateOf`).

**`Preferences`.** One user's row and any number of updates, as many at a time as
there are `Handlers`. `EnsureRead`/`EnsureWrite` are the two statements of
`ensurePrefs` (twice for `/start`), `CommandRead`/`CommandWrite` those of a language,
timezone or short-message choice, typed or tapped.
`stale` marks the handlers whose copy was read before another one's write, `overlapped`
that such a copy was written. `DefaultZone` is any string but the empty one, since
`Load` takes `DEFAULT_TIMEZONE` as it is (`config.go:110-113`); `DEFAULT_LOCALE` has to
have a catalogue or `main.go:49` does not start.

**`PrefsMenu`.** One user's chat: what each menu shows (`menu`: a page, and the
preferences drawn on it), the row, and the updates at work. `Begin` is a tap on a
button the page has at that moment, a typed choice, or a command that sends a menu.
`stage` follows the handler: `AnswerCallback`, `EnsureRead`/`EnsureWrite`, `ReadPrefs`
(or `DefaultPrefs`, when `/lang` cannot read the locale), then by the button
`Choose`, `Refuse`, `ShowPage`, `DeleteMessage`, and after a choice or "back"
`ReadSummary` and `ShowSummary`; `Fail` ends a handler anywhere. Telegram refuses an
edit of a deleted message (`Show`). `excused` lists the menus that no code redraws: of
several menus only the tapped one is, and a typed choice redraws none. An edit is one
step: that Telegram applies a timed-out edit after a later one is not modelled.

**`Subscriptions`.** One user's rows of `subscriptions` and any number of commands,
as many at a time as there are `Handlers`. A command (`Begin`) takes one step per
statement: `SubscribeToEvent`, `UnsubscribeFromEvent`, `UnsubscribeAll` and
`GetSubscriptions` are one each, `SubscribeAll` is a loop of `AddNext`. `Reply` is the
message with the result; `Fail` ends a handler at any point before it, as every error
path does: `AnswerCallback`, `ensurePrefs`, a statement or the send failed. `belief` is
what the answers entitle the user to believe of each type, `told` the number of rows
by the answers' counts (history variables). The environment actions `Subscribe` and
`Unsubscribe` of `NotificationService` stand for the single rows these handlers write;
`UnsubscribeAll` deletes all of them in one statement, and since no step of the
pipeline reads more than one type's rows, a sequence of `Unsubscribe` steps looks the
same to it.

**`SubscriptionPromise`.** The types a user has asked to change may change until the bot
is through with them, and no others; what he is told of a type is true when nobody is
changing it any more. `Subscriptions` implements it with `asked` read off the commands at
work (`Asked`).

**`Administration`.** A command (`Begin`) is a list of statements that run one by one
(`Count`); `/status` and `/stats` show 0 for a statement that fails (`DropError`), the
others give up (`GiveUp`). Events are rows of an ID and the day of `created_at`, which the
sender chooses; `StoreEvent` (of supported types, as in `ProcessEvent`), `PurgeOldEvents`
and `Tick` run in between. `EventLines` are the lines of `/events_count`, which prints the
counts of supported types only. `arrivals` are the rows inserted since the handler counted
its total (history).

**`Process`.** `run` is the statement of `run()`: `open`, `schema`, `sync`, `telegram`,
then `select`, after it `http` (`<-httpErr`) and `bot` (`<-botDone`), then `close` for the
deferred calls, `exit`, `down`. `http` is the server: `serving`, `draining` from
`Shutdown` on, or what its goroutine sent to `httpErr`. `purge` is the goroutine of
`startPurgeJob`. `SyncIgnoredIP` inserts one address; nothing deletes the rows of
settings that were removed, so `ignored` may hold more than `settings`, never less when
requests are served. `Start` begins again after every end, with settings that may have
changed, and `Crash` ends it anywhere.

**`QuietHours`.** A setting is the pair of integers its string is read as, or
`Unreadable`; the clock goes round the day minute by minute.

## 3. Model checking

Every run finishes within four minutes. Passing runs explore their whole state
space.

| Run | Instance | Shows |
|---|---|---|
| `Deduplicator` | 3 keys, window settings that give 1 to 3 units and the disabled case, a clock to 7; 29 thousand states | the swept map is the recent part of the full history (`SeenIsRecentHistory`), refusals and acceptances respect the window to the unit (`SuppressedWithinWindow`, `SpacedByWindow`), the map does not leak (`SweptAfterAccept`), and `SuppressionWindow` is implemented |
| `svc_paths` | an event and its retry in two requests, 2 users, with and without grouping, deduplication whose keys cool down at any time, all failures, one restart that messages on their way may outlive; 790 thousand states | `AtMostOnce`, `AudienceServed`, `NoStrangers`, `TimerArmed`, `MetricsAgree`, `ArrivedIsCounted`, `ImplementsLedger` |
| `svc_filters` | 6 events in two requests: ignored IP, unknown type, too low a severity, an IP PostgreSQL refuses, a retry; quiet hours begin and end at any time, one restart; 910 thousand states | `SuppressedHasTwin`, and `MetricsAgree` for every verdict (`svc_paths` has the sends and failures) |
| `svc_live` | 1 request with the event and its retry, 2 users, with and without grouping, all failures, fair; 129 thousand states | `DueIsSettled`, `RequestsAnswered` |
| `QuietHours` | 9 settings for either end, every minute; 117 thousand states | `QuietIsOneSpan`, `EdgesOnlyAtSettings` |
| `prefs_overlap` | 2 goroutines, unboundedly many updates, 2 languages, a default timezone that is not supported, failing statements; 4.3 million states | `KeptUnlessOverlapped`, `BlankOrComplete`, `InitializedUnlessStale` |
| `prefs_menu` | 2 goroutines, unboundedly many taps and commands on one menu, a timezone on the keyboard that the machine lacks, every call may fail, fair; 370 thousand states | `MenuIsCurrent`, `TapsAreAnswered` |
| `subscriptions` | 2 goroutines, unboundedly many commands, 3 types and an unsupported one, failing statements and answers; 650 thousand states | `ToldIsTrue`, `RepliesAddUp`, `ImplementsPromise` |
| `administration` | 1 handler, unboundedly many commands, 2 IDs that come, go and come again and one of a type that is not supported, 3 days, purging after a day or never, limits and windows at their edges, failing statements; 651 thousand states | `CountsMissNothing`, `DayWithinTotal`, `ListedAddUp` |
| `process` | 2 requests, 2 events, 3 addresses of which PostgreSQL refuses one, any number of starts, signals and crashes, fair; 27 thousand states | `CleanStop`, `ServesSynced`, `Stops`, `ExpiredArePurged` |
| `svc_quiet`, `prefs_once` | | the disagreements of section 5 |

Why the bounds are enough. Two requests, one timer per type and one buffer in
flight besides a buffer that is filling are the smallest instance in which every
pair of actors meets; the properties relate one event and one user to each other,
or two events of one key, so a third of either adds interleavings and no new
situation. Two users are needed because the loops go on after a failure. Two
goroutines per user are needed for a lost update or an answer that is overtaken, and a
third only repeats it; three types give a
subscribe-all a statement that is neither its first nor its last. One
restart is enough since a restart resets everything it does not lose; `process` has no
bound on starts. The window
of the deduplicator is compared with differences of times only, so a clock of
seven units, more than twice the largest window, reaches each order of sweep, refusal and
acceptance. Figures need two events and two days around the retention: a boundary that
is off by one shows on the day itself; commands of different admins share nothing, so
one handler is enough. A menu is related to one row and to one other goroutine: of one
menu and a flag with two values, two taps already reach every order of reading, storing
and showing; that other menus go stale is excused by definition, so a second one adds no
new case. `prefs_menu` starts from a supported default timezone:
of one that is not, its row and its menus depend as on any other, and `prefs_overlap` has that
case. The liveness run of the pipeline has no restart, since an end of the process
satisfies both of its properties at once, and its two events share one request, which is
how one of them can be in a buffer or a batch while the request works on the other;
requests do not wait for each other. The safety results that are proved (section 4) do not depend
on any of these bounds.

`SYMMETRY` is used in runs without liveness only: for users, for the goroutines of one
user, and in `svc_paths` for the two requests together with their events, which are one
event and its retry with the same ID, type and IP.

Fairness (`FairSpec`, in `PrefsMenu` part of `Spec`).

* Pipeline: a goroutine that can run is run, a timer that is due fires, and calls
  return: net/http and `time.AfterFunc` give every request and timer its goroutine, and
  the HTTP client of the bot has a limit of 40 s (`main.go:73`). The fairness is weak, per
  request, per timer and for the flushing goroutines. That statements to PostgreSQL
  return is an assumption for grouped sends (they run with `context.Background()`).
* Menus: weak, for the steps of each handler, of which failing is one.
* Process: weak for the statements of `run()`, for `ListenAndServe`, whose `Shutdown` has its
  ten seconds, for the polling, which ends with its context, and for the purge job, whose
  ticker ticks. Strong for a purge that succeeds: the database may be away on any one
  day, not on all of them. Without it `ExpiredArePurged` would fail, and rightly so.

Nothing is assumed of clients, users, signals, the age of keys or the time of day, and
no send is assumed to succeed.

Deadlock is checked in every run, but says little here: users and the clock can act in
almost every state. That nothing gets stuck is what the liveness properties show, and for most
of them the part that is not fairness is proved (section 4, progress).

Sensitivity. For every property of every passing run `PROJECT.json` names a mutant:
a definition that models code, replaced by one with a plausible bug (a failed send
repeated, a failure that is not counted, a timer not armed, users of a
buffer replaced, a sweep that is off, a dropped event that heats its key, defaults
written over a row, an address passed over, the error of a shutdown dropped, a purge
that ends its goroutine, a summary drawn from an old copy, an unsubscribe that
deletes every type's row). The mutants stand in the modules right before the definition
they mutate, and TLC finds the property violated with each of them.

## 4. Proofs

Proved by TLAPS for every value of the constants, under the named assumptions of
the modules (payloads are finite and disjoint, an event has a type, an IP and an
ID, the settings are of their types, the goroutines a user's updates run in are finitely many).

| Theorem | Statement |
|---|---|
| `Deduplicator_proofs!TypeCorrect`, `MapIsRecentHistory`, `RefusalsAreJustified`, `AcceptedAreSpaced`, `MapIsSwept` | `TypeOK`, `SeenIsRecentHistory`, `SuppressedWithinWindow`, `SpacedByWindow`, `SweptAfterAccept` |
| `Deduplicator_proofs!ImplementsPromise` | `Deduplicator` implements `SuppressionWindow` |
| `QuietHours_proofs!QuietHoursAreOneSpan`, `QuietHoursEdges` | `QuietIsOneSpan`, `EdgesOnlyAtSettings` |
| `NotificationService_proofs!TypeCorrect`, `NoSecondMessage`, `BuffersAreTimed` | `TypeOK`, `AtMostOnce`, `TimerArmed` |
| `NotificationService_proofs!NobodyForgotten`, `OnlyTheAudience` | `AudienceServed`, `NoStrangers` |
| `NotificationService_proofs!DuplicatesHaveTwins`, `CountersAgree` | `SuppressedHasTwin`, `MetricsAgree` |
| `NotificationService_proofs!StoppedIsNotSent` | what a filter or the deduplicator stopped, found nobody or could not be looked up is never sent, counted as a notification or held by anybody |
| `NotificationService_proofs!CountsAreHonest` | `ArrivedIsCounted` |
| `NotificationService_proofs!NobodyIsStuck`, `RequestsComeNearer` | a request at work has a next step, and whoever is due a holder that can go on; every step of a request takes it on |
| `NotificationService_proofs!ImplementsPromise` | `NotificationService` implements `DeliveryLedger` |
| `Preferences_proofs!TypeCorrect`, `ChoicesAreKept`, `RowIsWhole`, `LanguageIsLeftAlone` | `TypeOK`, `KeptUnlessOverlapped`, `BlankOrComplete`, `InitializedUnlessStale` |
| `PrefsMenu_proofs!TypeCorrect`, `MenusAreCurrent` | `TypeOK`, `MenuIsCurrent` |
| `PrefsMenu_proofs!NothingIsIgnored`, `UpdatesComeNearer` | every button and every typed choice has a case in the handler; every call of an update takes it on |
| `Subscriptions_proofs!TypeCorrect`, `AnswersAreTrue`, `AnswersAddUp` | `TypeOK`, `ToldIsTrue`, `RepliesAddUp` |
| `Subscriptions_proofs!PromiseIsKept` | `Subscriptions` implements `SubscriptionPromise` (`ImplementsPromise`) |
| `Subscriptions_proofs!CommandsGetOn` | every statement, answer or failure of a command leaves it fewer steps to do, the loop of `SubscribeAll` included, and no other command sets it back |
| `Administration_proofs!TypeCorrect`, `NothingIsMissed`, `LastDayFits`, `LinesAccountForAll` | `TypeOK`, `CountsMissNothing`, `DayWithinTotal`, `ListedAddUp` |
| `Process_proofs!TypeCorrect`, `ServesOnlySynced`, `StopsCleanly` | `TypeOK`, `ServesSynced`, `CleanStop` |
| `Process_proofs!EndIsNeverBlocked`, `EndComesNearer` | once it is told to end, `run()` or something it waits for can move until the process is gone; each of their steps takes it nearer the end and nothing takes it back |

*Deduplicator.* `SeenIsRecentHistory` is inductive with the type invariant and the
fact that no recorded time is in the future; the spacing and the refinement follow
from it.

*Notification service.* `AtMostOnce` alone says nothing about where an event may
still be sent from, so it is strengthened to `IInv`: an event is in at most one
place (ahead of its request's loop, being worked on, in the buffer of its type, in
one batch being flushed), and between it and the users that place may still write
to nothing has happened yet: no message, no count, no loss (`Untouched`).
`RequestShape` ties `pc`, `cur`, `todo` and `rcpt` together. Most actions only move
a request along (`Moves`) and are covered by one lemma; the ones that send or hand
over (`SendEvent`, `EnqueueGrouped`, `TimerFires`, `SendGrouped`, `Restart`) have one
each.

*Delivery.* With `IInv` every step is of one of three kinds: it makes untouched
pairs due and nothing else (`Owes`), settles pairs of one user that are due
(`Settles`), or loses everything that is due (`Loses`). These are the three actions of
the ledger, and each keeps a pair that is due, counted or lost from being forgotten;
`AudienceServed` and the refinement are both read off from it.

*Verdicts, audiences and counters.* Three more invariants rest on `IInv`. An event is
judged once: while it is ahead of its request's loop it has no verdict, so verdicts are
only added, and a hot key keeps the accepted event that heated it (`JInv`). It is looked up
once: before its lookup its audience is empty, so no audience shrinks, and whoever is in
a buffer or a batch was found for its type (`AInv`); since nothing changes `grouping`,
without grouping there are neither. And what a request is ahead of or at work on was
received since the start, so a counter and the set it counts grow together, by one
element or by a payload that is disjoint from what came before (`CInv`). The verdict
`notified` is given when the subscribers are found, and only then does anybody hold the
event to send it: whatever is sent, counted or held has that verdict
(`TouchedIsNotified`), so a stopped event never comes through later, from a buffer or a
batch of another request either.

*Counts and messages.* A pair is settled once, by one attempt, and the count and the message
go together, but for the end of the process. What arrives then is a message that some request
or batch was still to send, and `IInv` says that nothing had happened between its event and its
user before (`RestartArrives`), so it is no second one, and that the event is at no other place,
so one user of it gets it at most (`RestartArrivesOnce`). That an earlier end of the process
has not left the same event uncounted for somebody else is a second invariant: an event that a
request or a buffer still has before it has lost nobody (`NothingLostYet`).

*Preferences.* `PInv` says that a copy that is not stale agrees with the row except
where the row is blank, because the first write of another goroutine makes the copy
stale. Writing it back changes only the field asked for.

*Menus.* `MenuIsCurrent` says nothing of what is about to be shown. `Fresh` adds that a copy
which is not stale is the row; the first change of the row makes every copy but the
writer's stale, and the writer holds its copy no longer.

*Administration.* Counting less than the retention misses nothing because every row that is
gone is older than the retention (`GoneIsExpired`), which the clock only makes truer. For
the two figures of `/stats`, the rows without the arrivals are no more than the total
was from the moment it was counted (`TotalBounds`). `ListedAddUp` needs that every row is
of a supported type (`StoredAreListed`), which `ProcessEvent`'s first test keeps so, and a fact
about a sum. The sum is a fold of the community modules, `CHOOSE` of a function that
satisfies a recursion over the subsets; the number of events with a type in T satisfies
it, and no two functions do (`SumUnique`), since of the sets where they differed one
would have the fewest elements. That is an induction over cardinalities by hand: the
induction theorems of the library are not needed for it.

*Process.* `StageInv` says what each stage of the start has behind it, down to the addresses
the loop of `SyncIgnoredIPs` has passed; `EndInv` that `nil` was decided only by a server
that returned `nil`, and that such a server has no request left.

*Subscriptions.* `ToldIsTrue` says nothing of the answers still to be sent. `IInv` adds
that a command which no conflicting one overlapped holds an answer that agrees with the
rows, or has inserted every type it is past; that of two conflicting commands each is
marked as overlapped; and that nothing is believed about the types a command at work
may change. One lemma (`StepKeeps`) covers every step between begin and answer.

`RepliesAddUp` is a sum over the goroutines that changes at one of them at a time
(`SumChange`, by the same argument as for `ListedAddUp`, for which the goroutines must be
finitely many): a statement that inserts or deletes rows adds to what its command will
answer as many as it changed, and the answer moves them to `told`. For the refinement a
command that begins asks, a statement changes rows of types its command is at work on,
and an answer or a failure concludes; what `ToldIsTrue` needed is what shows that a type
the user is told of has nobody at work on it.

*Progress.* Why a liveness property should hold has two parts: fairness, that whoever can
move is moved, and the code's own part, that there always is somebody who can and that
there is an end to it. The second is safety and is proved for every value of the constants. Of
requests and of the end of the process one theorem says that some
step's guard holds (whatever failed, whatever was cancelled, and whatever others do); of
these, of commands and of menu updates one says that each step takes the goroutine on, in
an order without infinite descent: the
events left, the stage of the current one and the users left of it (`GetsOn`); the
statements left (`StepsLeft`, `CallsLeft`); what `run()`, the server and the bot still have
to do (`Distance`). The guards are written out (`RequestReady`,
`RunReady`), since `ENABLED` is out of the prover's reach.

Model-checked only: the liveness properties themselves, `DueIsSettled`, `RequestsAnswered`,
`TapsAreAnswered`, `Stops` and `ExpiredArePurged`. The conclusion from fairness
needs `ENABLED` of the fair actions. For `ExpiredArePurged` and for the timers and batches of
`DueIsSettled` there is no theorem about the steps either, beyond `NobodyIsStuck`: the first
rests on a purge succeeding once, which only fairness gives. No module has a recursive
operator.

## 5. Disagreements between the code and what is said of it

* `svc_quiet`. `README.md:88` says notifications are skipped during quiet hours.
  `IsInQuietHours` is asked when the event arrives (`service.go:114`); a group
  buffered before they begin, or a send loop that reaches into them, is delivered
  in quiet hours.
* `prefs_once`. The test at `internal/bot/handler_test.go:142-159` expects that the
  language of a later update never overwrites the stored locale. `ensurePrefs`
  (`handler.go:424-436`) reads and writes the row in two statements, and updates run
  concurrently: of two overlapping first updates the second overwrites the first.

Three more show in the definitions and have no run of their own.

* `README.md:17` says the service stores events. `ProcessEvent` stores an event only after
  `shouldNotify` has let it pass (`service.go:65-70`; `Admit` before `StoreEvent`): an event
  that a filter or the deduplicator stops leaves no row, and the admin commands that
  count events do not see it.
* `README.md:54` and `132` say that the IDs of `ADMIN_USER_IDS` are allowed to use the admin
  commands. `HandleMessage` asks `IsAllowedUser` first (`handler.go:36`; `MayAsk`): with
  `ALLOWED_USER_ID` set, every other admin is refused, among them the second one of the
  example in `README.md:60` when the first is the allowed user.
* After a removal from a `<TYPE>_IGNORED_IPS` setting the row stays in `ignored_ips`
  (`postgres.go:225-240`; `Synced`): the table shows every address that was ever ignored. The
  filter reads the settings and not the table, so nothing else depends on it.

## 6. Not modelled, and why

* Formatting, translations and keyboards' layout: wording, pure functions without state; no
  property of the system depends on them. So is the length of a grouped message: one
  that is too long for Telegram is a send that fails.
* Parsing and authentication of payloads (HMAC, Basic auth, the limit of the body,
  `SourceIP`): pure functions of one request. The models begin with requests that pass
  them; refused ones change nothing.
* The time-based ID of an event that comes without one (`server.go:104`): IDs are given by
  the instance, and two events may share one; that the clock tells two events apart is
  not stated.
* `Load` and its parsing of settings; the settings are constants, or variables where a run
  explores several. `IsAllowedUser` and `IsAdminUser` are modelled.
* What is wrong with a setting that `Load` does not check. A `DEFAULT_TIMEZONE` that cannot
  be found is in `Preferences`, down to the row; what the formatter makes of it is not.
* Rows of `events` that an older version with other types left: `Administration` begins with
  an empty table, and `ListedAddUp` would not hold with them.
* `Render`, `/health`, `/` and `Ping`: they read one value and change nothing.
* In the bot: updates without a sender or a text, a tap whose message is not known
  (`callbackMessageTarget` without an ID), an unsupported locale typed after `/lang` in
  `PrefsMenu` (refused as a bad timezone is; `Preferences` has it), edits that arrive late.
  `/events` and `/help` send text.
* At the end of the process: the bot's handlers are goroutines of the library that `run()`
  does not wait for. For the rows they write this is a handler that fails between two
  statements, which `Preferences`, `PrefsMenu` and `Subscriptions` have.
* The Telegram library, net/http, `time.AfterFunc` and PostgreSQL: external, modelled by how
  the code uses them (one goroutine per update, request and timer; attempts that fail or
  not; statements that are atomic, one by one).
* Logging: written only.
