--------------------------- MODULE Process_proofs ---------------------------
(***************************************************************************)
(* What Process keeps for any number of requests, addresses, events and    *)
(* starts: its types, that it serves only what it has synced, that a clean *)
(* stop cuts nothing off, and that a process told to end never waits for   *)
(* what has not been told to, and comes nearer its end with every step.    *)
(***************************************************************************)
EXTENDS Process, Integers, TLAPS

USE SettingsAssumption

LEMMA InitType == Init => TypeOK
BY DEF Init, TypeOK, Stages, Starting

LEMMA StartType ==
    ASSUME TypeOK,
           \/ Start \/ OpenPostgres \/ EnsureSchema \/ SyncIgnoredIP \/ StartPurgeJob
           \/ Serve \/ StartFails
    PROVE  TypeOK'
<1>1. CASE Start
    BY <1>1 DEF TypeOK, Start, Stages, Starting, parts, tables
<1>2. CASE OpenPostgres
    BY <1>2 DEF TypeOK, OpenPostgres, Proceed, Stages, Starting, parts, startVars, tables
<1>3. CASE EnsureSchema
    BY <1>3 DEF TypeOK, EnsureSchema, Proceed, Stages, Starting, parts, startVars
<1>4. CASE SyncIgnoredIP
  <2>1. PICK ip \in unsynced : unsynced' = unsynced \ {ip} /\ Synced(ip)
      BY <1>4 DEF SyncIgnoredIP
  <2> QED
      BY <1>4, <2>1 DEF TypeOK, SyncIgnoredIP, Proceed, Synced, Stages, Starting, parts
<1>5. CASE StartPurgeJob
    BY <1>5 DEF TypeOK, StartPurgeJob, Stages, Starting, startVars, tables
<1>6. CASE Serve
    BY <1>6 DEF TypeOK, Serve, Stages, Starting, startVars, tables
<1>7. CASE StartFails
    BY <1>7 DEF TypeOK, StartFails, Stages, Starting, parts, startVars, tables
<1> QED
    BY <1>1, <1>2, <1>3, <1>4, <1>5, <1>6, <1>7

LEMMA ServerType ==
    ASSUME TypeOK,
           \/ ListenAndServe \/ ListenFails \/ BotEnds
           \/ \E r \in Requests : Accept(r) \/ Answered(r)
    PROVE  TypeOK'
<1>1. ASSUME NEW r \in Requests, Accept(r) \/ Answered(r)
      PROVE  TypeOK'
    BY <1>1 DEF TypeOK, Accept, Answered, startVars, tables
<1>2. CASE ListenAndServe \/ ListenFails
    BY <1>2 DEF TypeOK, ListenAndServe, Shutdown, Drained, TimesOut, ListenFails,
                HttpEnds, startVars, tables
<1>3. CASE BotEnds
    BY <1>3 DEF TypeOK, BotEnds, startVars, tables
<1> QED
    BY <1>1, <1>2, <1>3

LEMMA PurgeType ==
    ASSUME TypeOK, PurgeJob
    PROVE  TypeOK'
BY DEF TypeOK, PurgeJob, PurgeOldEvents, PurgeFails, Ticker, PurgeEnds, PurgeStep,
       startVars

LEMMA EndType ==
    ASSUME TypeOK,
           \/ SelectCtx \/ SelectHttp \/ AwaitHttp \/ AwaitBot \/ Close
           \/ Exit \/ Crash \/ Signal
    PROVE  TypeOK'
<1>1. CASE SelectCtx \/ SelectHttp \/ AwaitHttp \/ AwaitBot
    BY <1>1 DEF TypeOK, SelectCtx, SelectHttp, AwaitHttp, AwaitBot, Returned, Stages,
                Starting, parts, startVars, tables
<1>2. CASE Close \/ Signal
    BY <1>2 DEF TypeOK, Close, Signal, Stages, Starting, parts, startVars, tables
<1>3. CASE Exit \/ Crash
    BY <1>3 DEF TypeOK, Exit, Crash, Gone, Stages, Starting, startVars, tables
<1> QED
    BY <1>1, <1>2, <1>3

LEMMA EventType ==
    ASSUME TypeOK, NEW e \in Events, StoreEvent(e) \/ Age(e)
    PROVE  TypeOK'
BY DEF TypeOK, StoreEvent, Age, parts, startVars

(* Every reachable state is well typed; no event has two rows.             *)
THEOREM TypeCorrect == Spec => []TypeOK
<1>1. ASSUME TypeOK, [Next]_vars
      PROVE  TypeOK'
  <2>1. CASE UNCHANGED vars
      BY <1>1, <2>1 DEF TypeOK, vars, parts, startVars, tables
  <2>2. CASE Next
      BY <1>1, <2>2, StartType, ServerType, PurgeType, EndType, EventType DEF Next, Run
  <2> QED
      BY <1>1, <2>1, <2>2
<1> QED
    BY <1>1, InitType, PTL DEF Spec

-----------------------------------------------------------------------------
(* What each stage of run() has behind it.                                 *)

StageInv ==
    /\ run \in Starting \cup {"down"} => http = "off"
    /\ run \in {"open", "schema"} => unsynced = settings
    /\ run \in {"sync", "telegram"} => schema
    /\ run = "sync" => settings \ unsynced \subseteq ignored
    /\ run = "telegram" => settings \subseteq ignored
    /\ ServesSynced

(* What is decided once code is, and what httpErr stands for.              *)
EndInv ==
    /\ run \in Starting \cup {"down"} => http = "off"
    /\ run \in Starting \cup {"select", "http"} => code = "none"
    /\ http \in {"off", "nil"} => active = {}
    /\ code = "nil" /\ run # "down" => http = "nil"
    /\ CleanStop

LEMMA InitStage == Init => StageInv /\ EndInv
BY DEF Init, StageInv, EndInv, ServesSynced, CleanStop, Starting

(* The start brings StageInv about, row by row.                            *)
LEMMA StartStage ==
    ASSUME TypeOK, StageInv,
           \/ Start \/ OpenPostgres \/ EnsureSchema \/ SyncIgnoredIP \/ StartPurgeJob
           \/ Serve \/ StartFails
    PROVE  StageInv'
<1>1. CASE Start
    BY <1>1 DEF StageInv, ServesSynced, Start, Starting, parts, tables
<1>2. CASE OpenPostgres \/ EnsureSchema
    BY <1>2 DEF TypeOK, StageInv, ServesSynced, OpenPostgres, EnsureSchema, Proceed,
                Starting, parts, startVars, tables
<1>3. CASE SyncIgnoredIP
  <2>1. PICK ip \in unsynced : unsynced' = unsynced \ {ip} /\ Synced(ip)
      BY <1>3 DEF SyncIgnoredIP
  <2> QED
      BY <1>3, <2>1 DEF StageInv, ServesSynced, SyncIgnoredIP, Proceed, Synced, Starting,
                        parts
<1>4. CASE StartPurgeJob \/ Serve \/ StartFails
    BY <1>4 DEF StageInv, ServesSynced, StartPurgeJob, Serve, StartFails, Starting,
                parts, startVars, tables
<1> QED
    BY <1>1, <1>2, <1>3, <1>4

(* No later step takes back what the start has done.                       *)
LEMMA LaterStage ==
    ASSUME TypeOK, StageInv,
           \/ ListenAndServe \/ ListenFails \/ BotEnds \/ PurgeJob
           \/ \E r \in Requests : Accept(r) \/ Answered(r)
           \/ \E e \in Events : StoreEvent(e) \/ Age(e)
           \/ SelectCtx \/ SelectHttp \/ AwaitHttp \/ AwaitBot \/ Close
           \/ Exit \/ Crash \/ Signal
    PROVE  StageInv'
<1>1. CASE ListenAndServe \/ ListenFails
    BY <1>1 DEF StageInv, ServesSynced, ListenAndServe, Shutdown, Drained, TimesOut,
                ListenFails, HttpEnds, startVars, tables, Starting
<1>2. CASE BotEnds \/ PurgeJob
    BY <1>2 DEF StageInv, ServesSynced, BotEnds, PurgeJob, PurgeOldEvents, PurgeFails,
                Ticker, PurgeEnds, PurgeStep, startVars, tables
<1>3. ASSUME NEW r \in Requests, Accept(r) \/ Answered(r)
      PROVE  StageInv'
    BY <1>3 DEF StageInv, ServesSynced, Accept, Answered, startVars, tables
<1>4. ASSUME NEW e \in Events, StoreEvent(e) \/ Age(e)
      PROVE  StageInv'
    BY <1>4 DEF StageInv, ServesSynced, StoreEvent, Age, parts, startVars
<1>5. CASE SelectCtx \/ SelectHttp \/ AwaitHttp \/ AwaitBot
    BY <1>5 DEF StageInv, ServesSynced, SelectCtx, SelectHttp, AwaitHttp, AwaitBot,
                parts, startVars, tables, Starting
<1>6. CASE Close \/ Signal
    BY <1>6 DEF StageInv, ServesSynced, Close, Signal, parts, startVars, tables, Starting
<1>7. CASE Exit \/ Crash
    BY <1>7 DEF StageInv, ServesSynced, Exit, Crash, Gone, startVars, tables, Starting
<1> QED
    BY <1>1, <1>2, <1>3, <1>4, <1>5, <1>6, <1>7

(* Whoever can reach the server finds the tables and every address of the  *)
(* settings, for any settings and any number of failed starts before.      *)
THEOREM ServesOnlySynced == Spec => []ServesSynced
<1>1. ASSUME TypeOK, StageInv, [Next]_vars
      PROVE  StageInv'
  <2>1. CASE UNCHANGED vars
      BY <1>1, <2>1 DEF StageInv, ServesSynced, vars, parts, startVars, tables
  <2>2. CASE Next
      BY <1>1, <2>2, StartStage, LaterStage DEF Next, Run
  <2> QED
      BY <1>1, <2>1, <2>2
<1>2. StageInv => ServesSynced
    BY DEF StageInv
<1> QED
    BY <1>1, <1>2, InitStage, TypeCorrect, PTL DEF Spec

-----------------------------------------------------------------------------

LEMMA StartEnd ==
    ASSUME TypeOK, EndInv,
           \/ Start \/ OpenPostgres \/ EnsureSchema \/ SyncIgnoredIP \/ StartPurgeJob
           \/ Serve \/ StartFails
    PROVE  EndInv'
<1>1. CASE Start \/ OpenPostgres \/ EnsureSchema \/ SyncIgnoredIP
    BY <1>1 DEF EndInv, CleanStop, Start, OpenPostgres, EnsureSchema, SyncIgnoredIP,
                Proceed, Starting, parts
<1>2. CASE StartPurgeJob \/ Serve \/ StartFails
    BY <1>2 DEF EndInv, CleanStop, StartPurgeJob, Serve, StartFails, Starting, parts
<1> QED
    BY <1>1, <1>2

(* A server that has returned takes no request, and it returns nil only    *)
(* when none is at work.                                                   *)
LEMMA ServerEnd ==
    ASSUME TypeOK, EndInv,
           \/ ListenAndServe \/ ListenFails \/ BotEnds \/ PurgeJob
           \/ \E r \in Requests : Accept(r) \/ Answered(r)
           \/ \E e \in Events : StoreEvent(e) \/ Age(e)
    PROVE  EndInv'
<1>1. CASE ListenAndServe \/ ListenFails
    BY <1>1 DEF EndInv, CleanStop, ListenAndServe, Shutdown, Drained, TimesOut,
                ListenFails, HttpEnds, Starting
<1>2. CASE BotEnds \/ PurgeJob
    BY <1>2 DEF EndInv, CleanStop, BotEnds, PurgeJob, PurgeOldEvents, PurgeFails,
                Ticker, PurgeEnds, PurgeStep
<1>3. ASSUME NEW r \in Requests, Accept(r) \/ Answered(r)
      PROVE  EndInv'
    BY <1>3 DEF TypeOK, EndInv, CleanStop, Accept, Answered, Starting, Stages
<1>4. ASSUME NEW e \in Events, StoreEvent(e) \/ Age(e)
      PROVE  EndInv'
    BY <1>4 DEF EndInv, CleanStop, StoreEvent, Age, parts
<1> QED
    BY <1>1, <1>2, <1>3, <1>4

LEMMA RunEnd ==
    ASSUME TypeOK, EndInv,
           \/ SelectCtx \/ SelectHttp \/ AwaitHttp \/ AwaitBot \/ Close
           \/ Exit \/ Crash \/ Signal
    PROVE  EndInv'
<1>1. CASE SelectCtx \/ Signal \/ Close
    BY <1>1 DEF EndInv, CleanStop, SelectCtx, Signal, Close, parts, Starting
<1>2. CASE SelectHttp \/ AwaitHttp
    BY <1>2 DEF EndInv, CleanStop, SelectHttp, AwaitHttp, Returned, parts, Starting
<1>3. CASE AwaitBot
    BY <1>3 DEF EndInv, CleanStop, AwaitBot, parts, Starting
<1>4. CASE Exit \/ Crash
    BY <1>4 DEF EndInv, CleanStop, Exit, Crash, Gone, Starting
<1> QED
    BY <1>1, <1>2, <1>3, <1>4

(* When run() returns nil every request it accepted has been answered and  *)
(* the bot has stopped before the store was closed, for any number of      *)
(* requests and in any order of signal, failure and time limit.            *)
THEOREM StopsCleanly == Spec => []CleanStop
<1>1. ASSUME TypeOK, EndInv, [Next]_vars
      PROVE  EndInv'
  <2>1. CASE UNCHANGED vars
      BY <1>1, <2>1 DEF EndInv, CleanStop, vars, parts
  <2>2. CASE Next
      BY <1>1, <2>2, StartEnd, ServerEnd, RunEnd DEF Next, Run
  <2> QED
      BY <1>1, <2>1, <2>2
<1>2. EndInv => CleanStop
    BY DEF EndInv
<1> QED
    BY <1>1, <1>2, InitStage, TypeCorrect, PTL DEF Spec
-----------------------------------------------------------------------------
(* What Stops rests on besides fairness: a process that is told to end has *)
(* at every moment something of its own that can move, and every such step *)
(* brings it nearer to its end.                                            *)

Told == cancelled \/ http = "error"

(* The guards of Run, of ListenAndServe and of BotEnds.                    *)
RunReady ==
    \/ run \in Starting \cup {"close", "exit"}
    \/ run = "select" /\ (cancelled \/ Returned)
    \/ run = "http" /\ Returned
    \/ run = "bot" /\ bot = "done"

ServerReady == http = "draining" \/ (http = "serving" /\ cancelled)

BotReady == bot = "polling" /\ cancelled

NothingWaitsInVain == Told /\ run # "down" => RunReady \/ ServerReady \/ BotReady

(* run() waits only for what is there, and that has been told to end.      *)
WaitInv ==
    /\ run \in Starting \cup {"down"} => http = "off" /\ bot = "off"
    /\ run \in {"select", "http"} => http # "off"
    /\ run \in {"select", "http", "bot"} => bot # "off"
    /\ run \in {"http", "bot"} => cancelled

LEMMA NobodyWaitsInVain == TypeOK /\ WaitInv => NothingWaitsInVain
BY DEF TypeOK, WaitInv, NothingWaitsInVain, Told, RunReady, ServerReady, BotReady,
       Returned, Stages, Starting

LEMMA WaitStep ==
    ASSUME TypeOK, WaitInv, [Next]_vars
    PROVE  WaitInv'
<1>1. CASE UNCHANGED vars
    BY <1>1 DEF WaitInv, vars, parts
<1>2. CASE \/ Start \/ OpenPostgres \/ EnsureSchema \/ SyncIgnoredIP \/ StartPurgeJob
           \/ Serve \/ StartFails
    BY <1>2 DEF WaitInv, Start, OpenPostgres, EnsureSchema, SyncIgnoredIP, StartPurgeJob,
                Serve, StartFails, Proceed, Starting, parts
<1>3. CASE SelectCtx \/ SelectHttp \/ AwaitHttp \/ AwaitBot \/ Close
    BY <1>3 DEF WaitInv, SelectCtx, SelectHttp, AwaitHttp, AwaitBot, Close, Returned,
                Starting, parts
<1>4. CASE Exit \/ Crash \/ Signal
    BY <1>4 DEF WaitInv, Exit, Crash, Gone, Signal, Starting, parts
<1>5. CASE ListenAndServe \/ ListenFails \/ BotEnds \/ PurgeJob
    BY <1>5 DEF WaitInv, ListenAndServe, Shutdown, Drained, TimesOut, ListenFails, HttpEnds,
                BotEnds, PurgeJob, PurgeOldEvents, PurgeFails, Ticker, PurgeEnds,
                PurgeStep, Starting
<1>6. CASE \E r \in Requests : Accept(r) \/ Answered(r)
    BY <1>6 DEF WaitInv, Accept, Answered
<1>7. CASE \E e \in Events : StoreEvent(e) \/ Age(e)
    BY <1>7 DEF WaitInv, StoreEvent, Age, parts
<1> QED
    BY <1>1, <1>2, <1>3, <1>4, <1>5, <1>6, <1>7 DEF Next, Run

LEMMA WaitsForItsOwn == Spec => [](TypeOK /\ WaitInv)
<1>1. Init => WaitInv
    BY DEF Init, WaitInv, Starting
<1> QED
    BY <1>1, WaitStep, TypeCorrect, PTL DEF Spec

(* From the signal or the server's error on until the process is gone,     *)
(* something it waits for, or run() itself, can move: nothing is waited    *)
(* for that has not been told to end (main.go:119-130).                    *)
THEOREM EndIsNeverBlocked == Spec => []NothingWaitsInVain
BY WaitsForItsOwn, NobodyWaitsInVain, PTL

(* How far the process is from its end.                                    *)
RunLeft ==
    CASE run = "open" -> 14 [] run = "schema" -> 13 [] run = "sync" -> 12
      [] run = "telegram" -> 11
      [] run = "select" -> 5 [] run = "http" -> 4 [] run = "bot" -> 3
      [] run = "close" -> 2 [] run = "exit" -> 1 [] run = "down" -> 0

HttpLeft ==
    CASE http = "serving" -> 3 [] http = "draining" -> 2
      [] http \in {"nil", "error"} -> 1 [] http = "off" -> 0

BotLeft == CASE bot = "polling" -> 2 [] bot = "done" -> 1 [] bot = "off" -> 0

Distance == RunLeft + HttpLeft + BotLeft

EndStep == Run \/ ListenAndServe \/ BotEnds

Nearer == Distance' < Distance

(* Other steps leave the distance and what can move alone.                 *)
Elsewhere ==
    /\ Distance' = Distance
    /\ RunReady => RunReady'
    /\ ServerReady => ServerReady'
    /\ BotReady => BotReady'

ComesNearer ==
    Told /\ run # "down" => \/ run' = "down"
                            \/ Told' /\ (Nearer \/ (Elsewhere /\ ~EndStep))

LEMMA DistanceIsNatural ==
    ASSUME TypeOK
    PROVE  RunLeft \in Nat /\ HttpLeft \in Nat /\ BotLeft \in Nat /\ Distance \in Nat
BY DEF TypeOK, Distance, RunLeft, HttpLeft, BotLeft, Stages, Starting

LEMMA RunComesNearer ==
    ASSUME TypeOK, WaitInv, Told, run # "down", Run
    PROVE  run' = "down" \/ (Told' /\ Nearer)
<1>1. CASE OpenPostgres \/ EnsureSchema \/ SyncIgnoredIP
    BY <1>1 DEF WaitInv, Told, OpenPostgres, EnsureSchema, SyncIgnoredIP, Proceed, Starting
<1>2. CASE StartPurgeJob
    BY <1>2 DEF WaitInv, Told, StartPurgeJob, Starting, Nearer, Distance, RunLeft, HttpLeft,
                BotLeft
<1>3. CASE Serve
    BY <1>3 DEF WaitInv, Told, Serve, Starting, Nearer, Distance, RunLeft, HttpLeft, BotLeft
<1>4. CASE StartFails
    BY <1>4 DEF WaitInv, Told, StartFails, Starting, parts, Nearer, Distance, RunLeft,
                HttpLeft, BotLeft
<1>5. CASE SelectCtx \/ SelectHttp
    BY <1>5 DEF TypeOK, Told, SelectCtx, SelectHttp, parts, Nearer, Distance, RunLeft,
                HttpLeft, BotLeft
<1>6. CASE AwaitHttp \/ AwaitBot \/ Close
    BY <1>6 DEF TypeOK, WaitInv, Told, AwaitHttp, AwaitBot, Close, parts, Nearer, Distance,
                RunLeft, HttpLeft, BotLeft
<1>7. CASE Exit
    BY <1>7 DEF Exit, Gone
<1> QED
    BY <1>1, <1>2, <1>3, <1>4, <1>5, <1>6, <1>7 DEF Run

LEMMA PartsComeNearer ==
    ASSUME TypeOK, WaitInv, Told, ListenAndServe \/ ListenFails \/ BotEnds
    PROVE  Told' /\ Nearer
<1>1. CASE ListenAndServe \/ ListenFails
  <2>1. /\ run' = run /\ bot' = bot /\ Told'
        /\ HttpLeft \in Nat /\ HttpLeft' \in Nat /\ HttpLeft' < HttpLeft
      BY <1>1 DEF Told, ListenAndServe, Shutdown, Drained, TimesOut, ListenFails, HttpEnds,
                  HttpLeft
  <2>2. RunLeft' = RunLeft /\ BotLeft' = BotLeft
      BY <2>1 DEF RunLeft, BotLeft
  <2> QED
      BY <2>1, <2>2, DistanceIsNatural DEF Nearer, Distance
<1>2. CASE BotEnds
  <2>1. /\ run' = run /\ http' = http /\ Told'
        /\ BotLeft = 2 /\ BotLeft' = 1
      BY <1>2 DEF Told, BotEnds, BotLeft
  <2>2. RunLeft' = RunLeft /\ HttpLeft' = HttpLeft
      BY <2>1 DEF RunLeft, HttpLeft
  <2> QED
      BY <2>1, <2>2, DistanceIsNatural DEF Nearer, Distance
<1> QED
    BY <1>1, <1>2

LEMMA OthersLeaveAlone ==
    ASSUME TypeOK, Told,
           \/ Signal \/ PurgeJob
           \/ \E r \in Requests : Accept(r) \/ Answered(r)
           \/ \E e \in Events : StoreEvent(e) \/ Age(e)
           \/ UNCHANGED vars
    PROVE  Told' /\ Elsewhere /\ run' = run
<1>1. /\ run' = run /\ http' = http /\ bot' = bot
      /\ cancelled => cancelled'
  <2>1. CASE Signal
      BY <2>1 DEF Signal, parts
  <2>2. CASE PurgeJob
      BY <2>2 DEF PurgeJob, PurgeOldEvents, PurgeFails, Ticker, PurgeEnds, PurgeStep
  <2>3. CASE \E r \in Requests : Accept(r) \/ Answered(r)
      BY <2>3 DEF Accept, Answered
  <2>4. CASE \E e \in Events : StoreEvent(e) \/ Age(e)
      BY <2>4 DEF StoreEvent, Age, parts
  <2>5. CASE UNCHANGED vars
      BY <2>5 DEF vars, parts
  <2> QED
      BY <2>1, <2>2, <2>3, <2>4, <2>5
<1>2. Distance' = Distance
    BY <1>1 DEF Distance, RunLeft, HttpLeft, BotLeft
<1> QED
    BY <1>1, <1>2 DEF Told, Elsewhere, RunReady, ServerReady, BotReady, Returned

(* Once it is told to end the process stays told until it is gone; every   *)
(* step of run(), of the server's end and of the bot's end brings it       *)
(* nearer, a listener that fails does too, and all that others do --       *)
(* requests, rows, purges, further signals -- leaves the distance and      *)
(* whatever can move as they were (main.go:56-131, server.go:162-184).     *)
THEOREM EndComesNearer == Spec => [][ComesNearer]_vars
<1>1. ASSUME TypeOK, TypeOK', WaitInv, [Next]_vars
      PROVE  [ComesNearer]_vars
  <2> SUFFICES ASSUME Told, run # "down", run' # "down"
               PROVE  Told' /\ (Nearer \/ (Elsewhere /\ ~EndStep))
      BY DEF ComesNearer
  <2>1. CASE Run
      BY <1>1, <2>1, RunComesNearer
  <2>2. CASE ListenAndServe \/ ListenFails \/ BotEnds
      BY <1>1, <2>2, PartsComeNearer
  <2>3. ASSUME \/ Signal \/ PurgeJob
               \/ \E r \in Requests : Accept(r) \/ Answered(r)
               \/ \E e \in Events : StoreEvent(e) \/ Age(e)
               \/ UNCHANGED vars
        PROVE  Told' /\ Elsewhere /\ ~EndStep
    <3>1. Told' /\ Elsewhere
        BY <1>1, <2>3, OthersLeaveAlone
    <3>2. ~Nearer
        BY <1>1, <3>1, DistanceIsNatural DEF Elsewhere, Nearer
    <3> QED
        BY <1>1, <3>1, <3>2, RunComesNearer, PartsComeNearer DEF EndStep
  <2>4. CASE Start \/ Crash
      BY <2>4 DEF Start, Crash, Gone
  <2> QED
      BY <1>1, <2>1, <2>2, <2>3, <2>4 DEF Next
<1> QED
    BY <1>1, WaitsForItsOwn, PTL DEF Spec
=============================================================================
