--------------------- MODULE NotificationService_proofs ---------------------
(***************************************************************************)
(* Proofs about NotificationService for any events, payloads, users,       *)
(* settings and number of restarts.                                        *)
(*                                                                         *)
(* The argument for AtMostOnce: an event is in at most one place. It is    *)
(* still ahead of its request's loop, or that request is working on it, or *)
(* it is in the buffer of its type, or in one buffer being flushed; and    *)
(* wherever it is, nothing has happened yet between the event and the      *)
(* users that place may still write to.                                    *)
(*                                                                         *)
(* What follows from it: what becomes of whoever is due, the ledger,       *)
(* verdicts and their twins, audiences, the counters, what is sent and     *)
(* what is counted, and at the end that a request is never stuck and every *)
(* step brings it nearer to its answer.                                    *)
(***************************************************************************)
EXTENDS NotificationService, FiniteSetTheorems, TLAPS

(* The events request r has still to look at.                              *)
Ahead(r) == IF pc[r] = "idle" THEN Payload[r] ELSE todo[r]

RequestShape ==
    \A r \in Requests :
        /\ Ahead(r) \subseteq Payload[r]
        /\ pc[r] \in Busy => cur[r] \in Payload[r] /\ cur[r] \notin todo[r]
        /\ pc[r] \notin Busy => cur[r] = NoOcc
        /\ pc[r] \notin {"send", "enqueue"} => rcpt[r] = {}

InBuffer(o) == \E t \in Types : o \in buffers[t].events
InFlight(o) == \E b \in flushing : o \in b.events

(* Nothing has happened yet between o and any of the users us: no message, *)
(* no count, no loss.                                                      *)
Untouched(o, us) ==
    \A u \in us : /\ copies[<<o, u>>] = 0
                  /\ reported[<<o, u>>] = "none"
                  /\ <<o, u>> \notin lost

(* The users that request r may still write to about its current event.    *)
MayGet(r) == IF pc[r] = "send" THEN rcpt[r] ELSE Users

AheadIsFresh ==
    \A r \in Requests : \A o \in Ahead(r) :
        ~InBuffer(o) /\ ~InFlight(o) /\ Untouched(o, Users)

CurIsFresh ==
    \A r \in Requests : pc[r] \in Busy =>
        ~InBuffer(cur[r]) /\ ~InFlight(cur[r]) /\ Untouched(cur[r], MayGet(r))

BufferedIsFresh ==
    \A t \in Types : \A o \in buffers[t].events :
        TypeOf[o] = t /\ ~InFlight(o) /\ Untouched(o, Users)

BatchesAreApart ==
    /\ \A b \in flushing : \A o \in b.events : Untouched(o, b.users)
    /\ \A b, c \in flushing : b # c => b.events \cap c.events = {}

Fresh == AheadIsFresh /\ CurIsFresh /\ BufferedIsFresh /\ BatchesAreApart

IInv == TypeOK /\ RequestShape /\ Fresh /\ AtMostOnce

(* A buffer without events is no buffer at all.                            *)
BufferShape == \A t \in Types : buffers[t].events = {} => buffers[t] = NoBuffer

USE PayloadAssumption, EventAssumption, SettingsAssumption

LEMMA PayloadFacts ==
    /\ \A r \in Requests : Payload[r] \subseteq Occs
    /\ \A r, s \in Requests : \A o \in Payload[r] : o \in Payload[s] => r = s
OBVIOUS

(* The shape of metrics, shared by every action that counts something.     *)
LEMMA IncType ==
    ASSUME NEW c \in Counters, NEW n \in Nat, metrics \in [Counters -> Nat], Inc(c, n)
    PROVE  metrics' \in [Counters -> Nat]
BY DEF Inc

-----------------------------------------------------------------------------
(* Type correctness, one lemma for each part of the next-state relation.   *)

LEMMA InitType == Init => TypeOK
BY DEF Init, TypeOK, Stages, Busy, Outcomes, Buffers, NoBuffer, NoMetrics, Pairs,
       Accepted

LEMMA RequestType ==
    ASSUME TypeOK, NEW r \in Requests,
           Receive(r) \/ Respond(r) \/ Disconnect(r)
    PROVE  TypeOK'
<1>1. CASE Receive(r)
  <2>1. Payload[r] \subseteq Occs /\ Cardinality(Payload[r]) \in Nat
      BY PayloadFacts, FS_CardinalityType
  <2>2. metrics' \in [Counters -> Nat]
      BY <1>1, <2>1 DEF TypeOK, Receive, Counters
  <2> QED
      BY <1>1, <2>1, <2>2 DEF TypeOK, Receive, bufVars, dbVars, ledgerVars, envVars, Stages, Busy
<1>2. CASE Respond(r)
    BY <1>2 DEF TypeOK, Respond, bufVars, dbVars, ledgerVars, envVars, Stages, Busy
<1>3. CASE Disconnect(r)
    BY <1>3 DEF TypeOK, Disconnect, bufVars, dbVars, ledgerVars, envVars
<1> QED
    BY <1>1, <1>2, <1>3

LEMMA VerdictType ==
    ASSUME TypeOK, NEW r \in Requests, NEW o \in Occs,
           \/ SkipUnknown(r, o) \/ SkipFiltered(r, o)
           \/ SkipDuplicate(r, o) \/ Admit(r, o)
    PROVE  TypeOK'
<1>1. ASSUME NEW result \in Outcomes, Drop(r, o, result), metrics' \in [Counters -> Nat]
      PROVE  TypeOK'
    BY <1>1 DEF TypeOK, Drop, bufVars, dbVars, ledgerVars, envVars
<1>2. CASE SkipUnknown(r, o)
    BY <1>1, <1>2 DEF SkipUnknown, Outcomes, TypeOK
<1>3. CASE SkipFiltered(r, o)
    BY <1>1, <1>3, IncType DEF SkipFiltered, Outcomes, Counters, TypeOK
<1>4. CASE SkipDuplicate(r, o)
    BY <1>1, <1>4, IncType DEF SkipDuplicate, Outcomes, Counters, TypeOK
<1>5. CASE Admit(r, o)
    BY <1>5 DEF TypeOK, Admit, Types, IsSupported, bufVars, dbVars, ledgerVars, envVars, Stages, Busy, Outcomes, Accepted
<1> QED
    BY <1>2, <1>3, <1>4, <1>5

LEMMA StoreType ==
    ASSUME TypeOK, NEW r \in Requests, StoreEvent(r) \/ StoreBlockedIP(r)
    PROVE  TypeOK'
<1>1. CASE StoreEvent(r)
    BY <1>1 DEF TypeOK, StoreEvent, bufVars, ledgerVars, envVars, Stages, Busy
<1>2. CASE StoreBlockedIP(r)
    BY <1>2 DEF TypeOK, StoreBlockedIP, bufVars, ledgerVars, envVars, Stages, Busy
<1> QED
    BY <1>1, <1>2

LEMMA LookupType ==
    ASSUME TypeOK, NEW r \in Requests,
           LookupFails(r) \/ FindNobody(r) \/ GetSubscribers(r)
    PROVE  TypeOK'
<1>1. CASE LookupFails(r)
    BY <1>1 DEF TypeOK, LookupFails, BackToLoop, bufVars, dbVars, ledgerVars, envVars,
                Stages, Busy, Outcomes, Accepted
<1>2. CASE FindNobody(r)
  <2>1. metrics' \in [Counters -> Nat]
      BY <1>2, IncType DEF FindNobody, Counters, TypeOK
  <2> QED
      BY <1>2, <2>1 DEF TypeOK, FindNobody, BackToLoop, bufVars, dbVars, ledgerVars, envVars,
                        Stages, Busy, Outcomes, Accepted
<1>3. CASE GetSubscribers(r)
    BY <1>3 DEF TypeOK, GetSubscribers, Subscribers, bufVars, dbVars, ledgerVars, envVars,
                Stages, Busy, Outcomes, Accepted
<1> QED
    BY <1>1, <1>2, <1>3

LEMMA DeliverType ==
    ASSUME TypeOK, NEW evs, NEW u, NEW a \in [ok : BOOLEAN, landed : BOOLEAN],
           Deliver(evs, u, a)
    PROVE  /\ copies' \in [Pairs -> Nat]
           /\ reported' \in [Pairs -> {"none", "sent", "failed"}]
           /\ metrics' \in [Counters -> Nat]
           /\ lost' = lost
<1>1. (IF a.ok THEN "notifications_sent" ELSE "notifications_failed") \in Counters
    BY DEF Counters
<1>2. metrics' \in [Counters -> Nat] /\ lost' = lost
    BY <1>1, IncType DEF TypeOK, Deliver
<1>3. copies' \in [Pairs -> Nat]
    BY DEF TypeOK, Deliver
<1>4. reported' \in [Pairs -> {"none", "sent", "failed"}]
    BY DEF TypeOK, Deliver
<1> QED
    BY <1>2, <1>3, <1>4

LEMMA SendType ==
    ASSUME TypeOK, NEW r \in Requests, NEW u \in Users, SendEvent(r, u)
    PROVE  TypeOK'
<1>1. PICK a \in Attempts(gone[r]) : Deliver({cur[r]}, u, a)
    BY DEF SendEvent
<1>2. /\ copies' \in [Pairs -> Nat]
      /\ reported' \in [Pairs -> {"none", "sent", "failed"}]
      /\ metrics' \in [Counters -> Nat]
      /\ lost' = lost
    BY <1>1, DeliverType DEF Attempts
<1>3. UNCHANGED <<todo, gone, envVars, bufVars, dbVars, restarts, outcome, audience, since>>
    BY DEF SendEvent
<1>4. rcpt' \in [Requests -> SUBSET Users]
    BY DEF TypeOK, SendEvent, Remaining
<1>5. \/ UNCHANGED <<pc, cur>>
      \/ pc' = [pc EXCEPT ![r] = "loop"] /\ cur' = [cur EXCEPT ![r] = NoOcc]
    BY DEF SendEvent, BackToLoop
<1>6. /\ pc' \in [Requests -> Stages]
      /\ cur' \in [Requests -> Occs \cup {NoOcc}]
      /\ \A s \in Requests :
            pc'[s] \in Busy => cur'[s] \in Occs /\ TypeOf[cur'[s]] \in Types
    BY <1>5 DEF TypeOK, Stages, Busy
<1> QED
    BY <1>2, <1>3, <1>4, <1>6 DEF TypeOK, bufVars, dbVars, envVars

LEMMA EnqueueType ==
    ASSUME TypeOK, NEW r \in Requests, EnqueueGrouped(r)
    PROVE  TypeOK'
BY DEF TypeOK, EnqueueGrouped, Arm, Extended, BackToLoop, Buffers, dbVars, ledgerVars, envVars, Stages, Busy

LEMMA TimerType ==
    ASSUME TypeOK, NEW t \in Types, TimerFires(t)
    PROVE  TypeOK'
BY DEF TypeOK, TimerFires, Buffers, NoBuffer, reqVars, dbVars, ledgerVars, envVars

LEMMA FlushType ==
    ASSUME TypeOK, NEW b \in flushing, NEW u \in Users, SendGrouped(b, u)
    PROVE  TypeOK'
<1>1. PICK a \in Attempts(FALSE) : Deliver(b.events, u, a)
    BY DEF SendGrouped
<1>2. /\ copies' \in [Pairs -> Nat]
      /\ reported' \in [Pairs -> {"none", "sent", "failed"}]
      /\ metrics' \in [Counters -> Nat]
      /\ lost' = lost
    BY <1>1, DeliverType DEF Attempts
<1>3. flushing' \subseteq Buffers
    BY DEF TypeOK, SendGrouped, Remaining, Buffers
<1> QED
    BY <1>2, <1>3 DEF TypeOK, SendGrouped, reqVars, dbVars, envVars

LEMMA OutsideType ==
    ASSUME TypeOK,
           \/ \E u \in Users, t \in Types : Subscribe(u, t) \/ Unsubscribe(u, t)
           \/ CoolDown \/ QuietEdge
    PROVE  TypeOK'
<1>1. CASE CoolDown
    BY <1>1 DEF TypeOK, CoolDown, reqVars, bufVars, dbVars, ledgerVars
<1>3. CASE QuietEdge
  <2>1. quiet' \in BOOLEAN /\ (quiet' => QuietHours)
      BY <1>3, Zenon DEF QuietEdge, TypeOK
  <2>2. UNCHANGED <<reqVars, hot, grouping, bufVars, metrics, dbVars, restarts, outcome, audience,
                    ledgerVars, since>>
      BY <1>3 DEF QuietEdge
  <2> QED
      BY <2>1, <2>2 DEF TypeOK, reqVars, bufVars, dbVars, ledgerVars
<1>2. ASSUME NEW u \in Users, NEW t \in Types, Subscribe(u, t) \/ Unsubscribe(u, t)
      PROVE  TypeOK'
    BY <1>2 DEF TypeOK, Subscribe, Unsubscribe, reqVars, bufVars, ledgerVars, envVars
<1> QED
    BY <1>1, <1>2, <1>3

LEMMA RestartType ==
    ASSUME TypeOK, Restart
    PROVE  TypeOK'
<1>1. copies' \in [Pairs -> Nat]
    BY DEF TypeOK, Restart, Arrive
<1> QED
    BY <1>1 DEF TypeOK, Restart, NoBuffer, Buffers, NoMetrics, Stages, Busy, dbVars, envVars

-----------------------------------------------------------------------------
(* Most actions move a request and leave buffers, batches and messages     *)
(* alone: a request looks at fewer events, keeps its current one or takes  *)
(* one that was ahead.                                                     *)
Moves ==
    /\ UNCHANGED <<buffers, flushing, reported, copies, lost>>
    /\ \A r \in Requests :
        /\ Ahead(r)' \subseteq Ahead(r)
        /\ pc'[r] \in Busy =>
             \/ cur'[r] \in Ahead(r)
             \/ pc[r] \in Busy /\ cur'[r] = cur[r] /\ MayGet(r)' \subseteq MayGet(r)

LEMMA MovesFresh ==
    ASSUME IInv, TypeOK', Moves
    PROVE  Fresh' /\ AtMostOnce'
<1>1. UNCHANGED <<buffers, flushing, reported, copies, lost>>
    BY DEF Moves
<1>2. \A o : (InBuffer(o)' <=> InBuffer(o)) /\ (InFlight(o)' <=> InFlight(o))
    BY <1>1 DEF InBuffer, InFlight
<1>3. \A o, us : Untouched(o, us)' <=> Untouched(o, us)
    BY <1>1 DEF Untouched
<1>4. AheadIsFresh'
    BY <1>2, <1>3 DEF Moves, IInv, Fresh, AheadIsFresh
<1>5. CurIsFresh'
  <2> SUFFICES ASSUME NEW r \in Requests, pc'[r] \in Busy,
                      NEW o, o = cur'[r], NEW us, us = MayGet(r)'
               PROVE  ~InBuffer(o)' /\ ~InFlight(o)' /\ Untouched(o, us)'
      BY DEF CurIsFresh, InBuffer, InFlight, Untouched
  <2>1. CASE o \in Ahead(r)
    <3>1. us \subseteq Users
        BY DEF MayGet, TypeOK
    <3>2. ~InBuffer(o) /\ ~InFlight(o) /\ Untouched(o, Users)
        BY <2>1 DEF IInv, Fresh, AheadIsFresh
    <3>3. Untouched(o, us)
        BY <3>1, <3>2 DEF Untouched
    <3> QED
        BY <1>2, <1>3, <3>2, <3>3
  <2>2. CASE pc[r] \in Busy /\ o = cur[r] /\ us \subseteq MayGet(r)
    <3>1. ~InBuffer(o) /\ ~InFlight(o) /\ Untouched(o, MayGet(r))
        BY <2>2 DEF IInv, Fresh, CurIsFresh
    <3>2. Untouched(o, us)
        BY <2>2, <3>1 DEF Untouched
    <3> QED
        BY <1>2, <1>3, <3>1, <3>2
  <2> QED
      BY <2>1, <2>2 DEF Moves
<1>6. BufferedIsFresh'
    BY <1>1, <1>2, <1>3 DEF IInv, Fresh, BufferedIsFresh
<1>7. BatchesAreApart'
    BY <1>1, <1>3 DEF IInv, Fresh, BatchesAreApart
<1>8. AtMostOnce'
    BY <1>1 DEF IInv, AtMostOnce
<1> QED
    BY <1>4, <1>5, <1>6, <1>7, <1>8 DEF Fresh

LEMMA RequestMoves ==
    ASSUME IInv, NEW r \in Requests,
           Receive(r) \/ Respond(r) \/ Disconnect(r)
    PROVE  RequestShape' /\ Moves
<1>1. CASE Receive(r)
    BY <1>1 DEF Receive, IInv, TypeOK, RequestShape, Moves, Ahead, MayGet,
                bufVars, ledgerVars, envVars, Busy
<1>2. CASE Respond(r)
    BY <1>2 DEF Respond, IInv, TypeOK, RequestShape, Moves, Ahead, MayGet,
                bufVars, ledgerVars, envVars, Busy
<1>3. CASE Disconnect(r)
    BY <1>3 DEF Disconnect, IInv, TypeOK, RequestShape, Moves, Ahead, MayGet,
                bufVars, ledgerVars, envVars, Busy
<1> QED
    BY <1>1, <1>2, <1>3

LEMMA VerdictMoves ==
    ASSUME IInv, NEW r \in Requests, NEW o \in Occs,
           \/ SkipUnknown(r, o) \/ SkipFiltered(r, o)
           \/ SkipDuplicate(r, o) \/ Admit(r, o)
    PROVE  RequestShape' /\ Moves
<1>1. ASSUME NEW result, Drop(r, o, result)
      PROVE  RequestShape' /\ Moves
    BY <1>1 DEF Drop, IInv, TypeOK, RequestShape, Moves, Ahead, MayGet,
                bufVars, ledgerVars, envVars, Busy
<1>2. CASE Admit(r, o)
    BY <1>2 DEF Admit, IInv, TypeOK, RequestShape, Moves, Ahead, MayGet,
                bufVars, ledgerVars, envVars, Busy
<1> QED
    BY <1>1, <1>2 DEF SkipUnknown, SkipFiltered, SkipDuplicate

LEMMA StoreMoves ==
    ASSUME IInv, NEW r \in Requests, StoreEvent(r) \/ StoreBlockedIP(r)
    PROVE  RequestShape' /\ Moves
<1>1. CASE StoreEvent(r)
    BY <1>1 DEF StoreEvent, IInv, TypeOK, RequestShape, Moves, Ahead, MayGet,
                bufVars, ledgerVars, envVars, Busy
<1>2. CASE StoreBlockedIP(r)
    BY <1>2 DEF StoreBlockedIP, IInv, TypeOK, RequestShape, Moves, Ahead, MayGet,
                bufVars, ledgerVars, envVars, Busy
<1> QED
    BY <1>1, <1>2

LEMMA LookupMoves ==
    ASSUME IInv, NEW r \in Requests,
           LookupFails(r) \/ FindNobody(r) \/ GetSubscribers(r)
    PROVE  RequestShape' /\ Moves
<1>1. CASE LookupFails(r) \/ FindNobody(r)
    BY <1>1 DEF LookupFails, FindNobody, BackToLoop, IInv, TypeOK, RequestShape,
                Moves, Ahead, MayGet, bufVars, ledgerVars, envVars, Busy
<1>2. CASE GetSubscribers(r)
    BY <1>2 DEF GetSubscribers, Subscribers, IInv, TypeOK, RequestShape, Moves,
                Ahead, MayGet, bufVars, ledgerVars, envVars, Busy
<1> QED
    BY <1>1, <1>2

LEMMA OutsideMoves ==
    ASSUME IInv,
           \/ \E u \in Users, t \in Types : Subscribe(u, t) \/ Unsubscribe(u, t)
           \/ CoolDown \/ QuietEdge
    PROVE  RequestShape' /\ Moves
<1>1. UNCHANGED <<pc, todo, cur, rcpt, buffers, flushing, reported, copies, lost>>
    BY DEF Subscribe, Unsubscribe, CoolDown, QuietEdge, reqVars, bufVars, ledgerVars, envVars
<1> QED
    BY <1>1 DEF IInv, RequestShape, Moves, Ahead, MayGet

-----------------------------------------------------------------------------
(* The actions that move events between places or send messages.           *)

(* Two requests never have an event in common.                             *)
LEMMA RequestsApart ==
    ASSUME IInv, NEW r \in Requests, pc[r] \in Busy
    PROVE  /\ cur[r] \in Occs
           /\ \A s \in Requests : cur[r] \notin Ahead(s)
           /\ \A s \in Requests : pc[s] \in Busy /\ s # r => cur[s] # cur[r]
BY PayloadFacts DEF IInv, TypeOK, RequestShape, Ahead, Busy

LEMMA DeliverLedger ==
    ASSUME TypeOK, NEW evs, NEW u, NEW a \in [ok : BOOLEAN, landed : BOOLEAN],
           Deliver(evs, u, a)
    PROVE  /\ \A o \in Occs, v \in Users :
                o \notin evs \/ v # u => /\ copies'[<<o, v>>] = copies[<<o, v>>]
                                        /\ reported'[<<o, v>>] = reported[<<o, v>>]
           /\ lost' = lost
           /\ \A o \in Occs, v \in Users :
                copies'[<<o, v>>] \in {copies[<<o, v>>], copies[<<o, v>>] + 1}
BY DEF Deliver, TypeOK, Pairs

LEMMA SendFresh ==
    ASSUME IInv, TypeOK', NEW r \in Requests, NEW u \in Users, SendEvent(r, u)
    PROVE  RequestShape' /\ Fresh' /\ AtMostOnce'
<1>0. PICK o : o = cur[r]
    OBVIOUS
<1>1. PICK a \in Attempts(gone[r]) : Deliver({o}, u, a)
    BY <1>0 DEF SendEvent
<1>2. /\ \A e \in Occs, v \in Users :
            e # o \/ v # u => /\ copies'[<<e, v>>] = copies[<<e, v>>]
                              /\ reported'[<<e, v>>] = reported[<<e, v>>]
      /\ lost' = lost
      /\ \A e \in Occs, v \in Users :
            copies'[<<e, v>>] \in {copies[<<e, v>>], copies[<<e, v>>] + 1}
    BY <1>1, DeliverLedger DEF IInv, Attempts
<1>3. /\ pc[r] = "send" /\ u \in rcpt[r] /\ pc[r] \in Busy
      /\ UNCHANGED <<todo, buffers, flushing>>
      /\ rcpt' = [rcpt EXCEPT ![r] = @ \ {u}]
      /\ \/ pc' = [pc EXCEPT ![r] = "loop"] /\ cur' = [cur EXCEPT ![r] = NoOcc]
            /\ rcpt[r] = {u}
         \/ pc' = pc /\ cur' = cur
    BY DEF SendEvent, Remaining, BackToLoop, bufVars, Busy, IInv, TypeOK
<1>4. /\ o \in Occs
      /\ \A s \in Requests : o \notin Ahead(s)
      /\ \A s \in Requests : pc[s] \in Busy /\ s # r => cur[s] # o
    BY <1>0, <1>3, RequestsApart
<1>5. ~InBuffer(o) /\ ~InFlight(o) /\ Untouched(o, rcpt[r])
    BY <1>0, <1>3 DEF IInv, Fresh, CurIsFresh, MayGet
<1>6. \A e : (InBuffer(e)' <=> InBuffer(e)) /\ (InFlight(e)' <=> InFlight(e))
    BY <1>3 DEF InBuffer, InFlight
<1>7. ASSUME NEW e \in Occs, e # o, NEW us \in SUBSET Users, Untouched(e, us)
      PROVE  Untouched(e, us)'
    BY <1>2, <1>7 DEF Untouched
<1>8. RequestShape'
    BY <1>3 DEF IInv, TypeOK, RequestShape, Ahead, Busy
<1>9. \A s \in Requests : Ahead(s)' = Ahead(s) /\ Ahead(s) \subseteq Occs
    BY <1>3, PayloadFacts DEF Ahead, IInv, TypeOK, RequestShape
<1>10. AheadIsFresh'
    BY <1>4, <1>6, <1>7, <1>9 DEF IInv, Fresh, AheadIsFresh
<1>11. CurIsFresh'
  <2> SUFFICES ASSUME NEW s \in Requests, pc'[s] \in Busy,
                      NEW e, e = cur'[s], NEW us, us = MayGet(s)'
               PROVE  ~InBuffer(e)' /\ ~InFlight(e)' /\ Untouched(e, us)'
      BY DEF CurIsFresh, InBuffer, InFlight, Untouched
  <2>1. CASE s = r
    <3>1. e = o /\ us = rcpt[r] \ {u}
        BY <1>0, <1>3, <2>1 DEF IInv, TypeOK, RequestShape, MayGet, Busy
    <3>2. us \subseteq Users
        BY <3>1 DEF IInv, TypeOK
    <3>3. Untouched(o, us)'
        BY <1>2, <1>4, <1>5, <3>1, <3>2 DEF Untouched
    <3> QED
        BY <1>5, <1>6, <3>1, <3>3
  <2>2. CASE s # r
    <3>1. pc[s] \in Busy /\ e = cur[s] /\ us = MayGet(s) /\ us \subseteq Users
        BY <1>3, <2>2 DEF IInv, TypeOK, MayGet
    <3>2. e \in Occs /\ e # o
        BY <1>4, <2>2, <3>1 DEF IInv, TypeOK
    <3>3. ~InBuffer(e) /\ ~InFlight(e) /\ Untouched(e, us)
        BY <3>1 DEF IInv, Fresh, CurIsFresh
    <3> QED
        BY <1>6, <1>7, <3>1, <3>2, <3>3
  <2> QED
      BY <2>1, <2>2
<1>12. BufferedIsFresh'
  <2> SUFFICES ASSUME NEW t \in Types, NEW e \in buffers[t].events
               PROVE  TypeOf[e] = t /\ ~InFlight(e)' /\ Untouched(e, Users)'
      BY <1>3 DEF BufferedIsFresh
  <2>1. e \in Occs
      BY DEF IInv, TypeOK, Buffers
  <2>2. e # o
      BY <1>5 DEF InBuffer
  <2>3. TypeOf[e] = t /\ ~InFlight(e) /\ Untouched(e, Users)
      BY DEF IInv, Fresh, BufferedIsFresh
  <2> QED
      BY <1>6, <1>7, <2>1, <2>2, <2>3
<1>13. BatchesAreApart'
  <2>1. \A b \in flushing : b.events \subseteq Occs /\ b.users \subseteq Users /\ o \notin b.events
      BY <1>5 DEF IInv, TypeOK, Buffers, InFlight
  <2>2. \A b \in flushing : \A e \in b.events : Untouched(e, b.users)'
      BY <1>7, <2>1 DEF IInv, Fresh, BatchesAreApart
  <2> QED
      BY <1>3, <2>2 DEF IInv, Fresh, BatchesAreApart, Untouched
<1>14. AtMostOnce'
  <2> SUFFICES ASSUME NEW e \in Occs, NEW v \in Users PROVE copies'[<<e, v>>] <= 1
      BY DEF AtMostOnce, Pairs
  <2>1. CASE e = o /\ v = u
    <3>1. copies[<<o, u>>] = 0
        BY <1>3, <1>5 DEF Untouched
    <3>2. copies'[<<o, u>>] \in {copies[<<o, u>>], copies[<<o, u>>] + 1}
        BY <1>2, <1>4
    <3> QED
        BY <2>1, <3>1, <3>2
  <2>2. CASE e # o \/ v # u
      BY <1>2, <2>2 DEF IInv, AtMostOnce, Pairs
  <2> QED
      BY <2>1, <2>2
<1> QED
    BY <1>8, <1>10, <1>11, <1>12, <1>13, <1>14 DEF Fresh

LEMMA EnqueueFresh ==
    ASSUME IInv, TypeOK', NEW r \in Requests, EnqueueGrouped(r)
    PROVE  RequestShape' /\ Fresh' /\ AtMostOnce'
<1>0. PICK o : o = cur[r]
    OBVIOUS
<1>1. PICK t : t = TypeOf[o]
    OBVIOUS
<1>2. /\ pc[r] = "enqueue" /\ pc[r] \in Busy
      /\ UNCHANGED <<todo, flushing, reported, copies, lost>>
      /\ rcpt' = [rcpt EXCEPT ![r] = {}]
      /\ pc' = [pc EXCEPT ![r] = "loop"] /\ cur' = [cur EXCEPT ![r] = NoOcc]
    BY DEF EnqueueGrouped, BackToLoop, ledgerVars, envVars, Busy
<1>3. /\ o \in Occs /\ t \in Types
      /\ \A s \in Requests : o \notin Ahead(s)
      /\ \A s \in Requests : pc[s] \in Busy /\ s # r => cur[s] # o
    BY <1>0, <1>1, <1>2, RequestsApart DEF IInv, TypeOK
<1>4. ~InBuffer(o) /\ ~InFlight(o) /\ Untouched(o, Users)
    BY <1>0, <1>2 DEF IInv, Fresh, CurIsFresh, MayGet
<1>5. \A c \in Types : buffers'[c].events = IF c = t THEN buffers[c].events \cup {o}
                                                   ELSE buffers[c].events
    BY <1>0, <1>1, <1>3 DEF EnqueueGrouped, Extended, IInv, TypeOK
<1>6. \A e : (InBuffer(e)' <=> InBuffer(e) \/ e = o) /\ (InFlight(e)' <=> InFlight(e))
    BY <1>2, <1>3, <1>5 DEF InBuffer, InFlight
<1>7. \A e, us : Untouched(e, us)' <=> Untouched(e, us)
    BY <1>2 DEF Untouched
<1>8. RequestShape'
    BY <1>2 DEF IInv, TypeOK, RequestShape, Ahead, Busy
<1>9. \A s \in Requests : Ahead(s)' = Ahead(s)
    BY <1>2 DEF Ahead, IInv, TypeOK
<1>10. AheadIsFresh'
    BY <1>3, <1>6, <1>7, <1>9 DEF IInv, Fresh, AheadIsFresh
<1>11. CurIsFresh'
  <2> SUFFICES ASSUME NEW s \in Requests, pc'[s] \in Busy,
                      NEW e, e = cur'[s], NEW us, us = MayGet(s)'
               PROVE  ~InBuffer(e)' /\ ~InFlight(e)' /\ Untouched(e, us)'
      BY DEF CurIsFresh, InBuffer, InFlight, Untouched
  <2>1. s # r
      BY <1>2 DEF IInv, TypeOK, Busy
  <2>2. pc[s] \in Busy /\ e = cur[s] /\ us = MayGet(s)
      BY <1>2, <2>1 DEF IInv, TypeOK, MayGet
  <2> QED
      BY <1>3, <1>6, <1>7, <2>1, <2>2 DEF IInv, Fresh, CurIsFresh
<1>12. BufferedIsFresh'
  <2> SUFFICES ASSUME NEW c \in Types, NEW e, e \in buffers'[c].events
               PROVE  TypeOf[e] = c /\ ~InFlight(e)' /\ Untouched(e, Users)'
      BY DEF BufferedIsFresh
  <2>1. CASE e \in buffers[c].events
      BY <1>6, <1>7, <2>1 DEF IInv, Fresh, BufferedIsFresh
  <2>2. CASE e = o /\ c = t
      BY <1>1, <1>4, <1>6, <1>7, <2>2
  <2> QED
      BY <1>5, <2>1, <2>2
<1>13. BatchesAreApart'
    BY <1>2, <1>7 DEF IInv, Fresh, BatchesAreApart
<1>14. AtMostOnce'
    BY <1>2 DEF IInv, AtMostOnce
<1> QED
    BY <1>8, <1>10, <1>11, <1>12, <1>13, <1>14 DEF Fresh

LEMMA TimerFresh ==
    ASSUME IInv, TypeOK', NEW t \in Types, TimerFires(t)
    PROVE  RequestShape' /\ Fresh' /\ AtMostOnce'
<1>1. /\ UNCHANGED <<pc, todo, cur, rcpt, reported, copies, lost>>
      /\ buffers' = [buffers EXCEPT ![t] = NoBuffer]
      /\ flushing' \subseteq flushing \cup {buffers[t]}
    BY DEF TimerFires, reqVars, ledgerVars, envVars
<1>2. \A c \in Types : buffers'[c].events = IF c = t THEN {} ELSE buffers[c].events
    BY <1>1 DEF IInv, TypeOK, NoBuffer
<1>3. \A e : InBuffer(e)' => InBuffer(e) /\ e \notin buffers[t].events
    BY <1>2 DEF InBuffer, IInv, Fresh, BufferedIsFresh
<1>4. \A e : InFlight(e)' => InFlight(e) \/ e \in buffers[t].events
    BY <1>1 DEF InFlight
<1>5. \A e : InBuffer(e)' \/ InFlight(e)' => InBuffer(e) \/ InFlight(e)
    BY <1>3, <1>4 DEF InBuffer
<1>6. \A e, us : Untouched(e, us)' <=> Untouched(e, us)
    BY <1>1 DEF Untouched
<1>7. RequestShape'
    BY <1>1 DEF IInv, RequestShape, Ahead
<1>8. AheadIsFresh'
    BY <1>1, <1>5, <1>6 DEF IInv, Fresh, AheadIsFresh, Ahead
<1>9. CurIsFresh'
  <2> SUFFICES ASSUME NEW s \in Requests, pc[s] \in Busy,
                      NEW e, e = cur[s], NEW us, us = MayGet(s)
               PROVE  ~InBuffer(e)' /\ ~InFlight(e)' /\ Untouched(e, us)'
      BY <1>1 DEF CurIsFresh, InBuffer, InFlight, Untouched, MayGet
  <2> QED
      BY <1>5, <1>6 DEF IInv, Fresh, CurIsFresh
<1>10. BufferedIsFresh'
  <2> SUFFICES ASSUME NEW c \in Types, NEW e, e \in buffers'[c].events
               PROVE  TypeOf[e] = c /\ ~InFlight(e)' /\ Untouched(e, Users)'
      BY DEF BufferedIsFresh
  <2>1. c # t /\ e \in buffers[c].events
      BY <1>2
  <2>2. TypeOf[e] = c /\ ~InFlight(e) /\ Untouched(e, Users)
      BY <2>1 DEF IInv, Fresh, BufferedIsFresh
  <2>3. e \notin buffers[t].events
      BY <2>1, <2>2 DEF IInv, Fresh, BufferedIsFresh
  <2> QED
      BY <1>4, <1>6, <2>2, <2>3
<1>11. BatchesAreApart'
  <2>1. ASSUME NEW b \in flushing' PROVE \A e \in b.events : Untouched(e, b.users)'
    <3>1. CASE b \in flushing
        BY <1>6, <3>1 DEF IInv, Fresh, BatchesAreApart
    <3>2. CASE b = buffers[t]
      <4>1. b.users \subseteq Users
          BY <3>2 DEF IInv, TypeOK, Buffers
      <4>2. \A e \in b.events : Untouched(e, Users)
          BY <3>2 DEF IInv, Fresh, BufferedIsFresh
      <4>3. \A e \in b.events : Untouched(e, b.users)
          BY <4>1, <4>2 DEF Untouched
      <4> QED
          BY <1>6, <4>3
    <3> QED
        BY <1>1, <3>1, <3>2
  <2>2. ASSUME NEW b \in flushing PROVE b.events \cap buffers[t].events = {}
      BY DEF IInv, Fresh, BufferedIsFresh, InFlight
  <2>3. \A b, c \in flushing' : b # c => b.events \cap c.events = {}
      BY <1>1, <2>2 DEF IInv, Fresh, BatchesAreApart
  <2> QED
      BY <2>1, <2>3 DEF BatchesAreApart, Untouched
<1>12. AtMostOnce'
    BY <1>1 DEF IInv, AtMostOnce
<1> QED
    BY <1>7, <1>8, <1>9, <1>10, <1>11, <1>12 DEF Fresh

LEMMA FlushFresh ==
    ASSUME IInv, TypeOK', NEW b \in flushing, NEW u \in Users, SendGrouped(b, u)
    PROVE  RequestShape' /\ Fresh' /\ AtMostOnce'
<1>1. PICK a \in Attempts(FALSE) : Deliver(b.events, u, a)
    BY DEF SendGrouped
<1>2. /\ \A e \in Occs, v \in Users :
            e \notin b.events \/ v # u => /\ copies'[<<e, v>>] = copies[<<e, v>>]
                                          /\ reported'[<<e, v>>] = reported[<<e, v>>]
      /\ lost' = lost
      /\ \A e \in Occs, v \in Users :
            copies'[<<e, v>>] \in {copies[<<e, v>>], copies[<<e, v>>] + 1}
    BY <1>1, DeliverLedger DEF IInv, Attempts
<1>3. PICK rest : rest = [b EXCEPT !.users = @ \ {u}]
    OBVIOUS
<1>4. /\ u \in b.users /\ b \in Buffers
      /\ UNCHANGED <<pc, todo, cur, rcpt, buffers>>
      /\ flushing' \subseteq (flushing \ {b}) \cup {rest}
    BY <1>3 DEF SendGrouped, Remaining, reqVars, IInv, TypeOK
<1>5. rest.events = b.events /\ rest.users = b.users \ {u}
    BY <1>3, <1>4 DEF Buffers
<1>6. /\ \A e : InBuffer(e)' <=> InBuffer(e)
      /\ \A e : InFlight(e)' => InFlight(e)
    BY <1>4, <1>5 DEF InBuffer, InFlight
<1>7. ASSUME NEW e \in Occs, ~InFlight(e), NEW us \in SUBSET Users, Untouched(e, us)
      PROVE  Untouched(e, us)'
    BY <1>2, <1>7 DEF Untouched, InFlight
<1>8. RequestShape'
    BY <1>4 DEF IInv, RequestShape, Ahead
<1>9. AheadIsFresh'
  <2>1. \A s \in Requests : Ahead(s)' = Ahead(s) /\ Ahead(s) \subseteq Occs
      BY <1>4, PayloadFacts DEF Ahead, IInv, TypeOK
  <2> QED
      BY <1>6, <1>7, <2>1 DEF IInv, Fresh, AheadIsFresh
<1>10. CurIsFresh'
  <2> SUFFICES ASSUME NEW s \in Requests, pc[s] \in Busy,
                      NEW e, e = cur[s], NEW us, us = MayGet(s)
               PROVE  ~InBuffer(e)' /\ ~InFlight(e)' /\ Untouched(e, us)'
      BY <1>4 DEF CurIsFresh, InBuffer, InFlight, Untouched, MayGet
  <2>1. e \in Occs /\ us \subseteq Users
      BY DEF IInv, TypeOK, MayGet
  <2> QED
      BY <1>6, <1>7, <2>1 DEF IInv, Fresh, CurIsFresh
<1>11. BufferedIsFresh'
  <2> SUFFICES ASSUME NEW t \in Types, NEW e \in buffers[t].events
               PROVE  TypeOf[e] = t /\ ~InFlight(e)' /\ Untouched(e, Users)'
      BY <1>4 DEF BufferedIsFresh
  <2>1. e \in Occs
      BY DEF IInv, TypeOK, Buffers
  <2>2. TypeOf[e] = t /\ ~InFlight(e) /\ Untouched(e, Users)
      BY DEF IInv, Fresh, BufferedIsFresh
  <2> QED
      BY <1>6, <1>7, <2>1, <2>2
<1>12. BatchesAreApart'
  <2>1. ASSUME NEW c \in flushing, c # b
        PROVE  /\ c.events \cap b.events = {}
               /\ \A e \in c.events : Untouched(e, c.users)'
    <3>1. c.events \cap b.events = {}
        BY <2>1 DEF IInv, Fresh, BatchesAreApart
    <3>2. c.events \subseteq Occs /\ c.users \subseteq Users
        BY DEF IInv, TypeOK, Buffers
    <3>3. \A e \in c.events : Untouched(e, c.users)
        BY DEF IInv, Fresh, BatchesAreApart
    <3> QED
        BY <1>2, <3>1, <3>2, <3>3 DEF Untouched
  <2>2. \A e \in rest.events : Untouched(e, rest.users)'
    <3>1. \A e \in b.events : Untouched(e, b.users)
        BY DEF IInv, Fresh, BatchesAreApart
    <3>2. /\ b.events \subseteq Occs /\ rest.users \subseteq Users
          /\ \A v \in rest.users : v # u /\ v \in b.users
        BY <1>4, <1>5 DEF Buffers
    <3>3. ASSUME NEW e \in rest.events, NEW v \in rest.users
          PROVE  /\ copies'[<<e, v>>] = 0
                 /\ reported'[<<e, v>>] = "none"
                 /\ <<e, v>> \notin lost'
      <4>1. e \in Occs /\ e \in b.events /\ v \in Users /\ v # u /\ v \in b.users
          BY <1>5, <3>2
      <4>2. copies[<<e, v>>] = 0 /\ reported[<<e, v>>] = "none" /\ <<e, v>> \notin lost
          BY <3>1, <4>1 DEF Untouched
      <4> QED
          BY <1>2, <4>1, <4>2
    <3> QED
        BY <3>3 DEF Untouched
  <2>3. \A c \in flushing' : \A e \in c.events : Untouched(e, c.users)'
      BY <1>4, <2>1, <2>2
  <2>4. \A c, d \in flushing' : c # d => c.events \cap d.events = {}
      BY <1>4, <1>5, <2>1 DEF IInv, Fresh, BatchesAreApart
  <2> QED
      BY <2>3, <2>4 DEF BatchesAreApart, Untouched
<1>13. AtMostOnce'
  <2> SUFFICES ASSUME NEW e \in Occs, NEW v \in Users PROVE copies'[<<e, v>>] <= 1
      BY DEF AtMostOnce, Pairs
  <2>1. CASE e \in b.events /\ v = u
    <3>1. copies[<<e, u>>] = 0
        BY <1>4, <2>1 DEF IInv, Fresh, BatchesAreApart, Untouched
    <3>2. copies'[<<e, u>>] \in {copies[<<e, u>>], copies[<<e, u>>] + 1}
        BY <1>2
    <3> QED
        BY <2>1, <3>1, <3>2
  <2>2. CASE e \notin b.events \/ v # u
      BY <1>2, <2>2 DEF IInv, AtMostOnce, Pairs
  <2> QED
      BY <2>1, <2>2
<1> QED
    BY <1>8, <1>9, <1>10, <1>11, <1>12, <1>13 DEF Fresh

(* A message that arrives while the process ends is one that a request or  *)
(* a batch was still to send: nothing had happened between the event and   *)
(* the user before.                                                        *)
LEMMA RestartArrives ==
    ASSUME IInv, Restart, NEW o \in Occs, NEW u \in Users,
           copies'[<<o, u>>] # copies[<<o, u>>]
    PROVE  /\ \/ \E r \in Requests : pc[r] = "send" /\ cur[r] = o /\ u \in rcpt[r]
              \/ \E b \in flushing : o \in b.events /\ u \in b.users
           /\ copies'[<<o, u>>] = 1 /\ copies[<<o, u>>] = 0
           /\ reported[<<o, u>>] = "none" /\ <<o, u>> \notin lost
<1>1. PICK messages \in SUBSET Sending : OneEach(messages) /\ Arrive(messages)
    BY DEF Restart
<1>2. copies'[<<o, u>>] = IF \E m \in messages : o \in m[1] /\ u = m[2]
                          THEN copies[<<o, u>>] + 1 ELSE copies[<<o, u>>]
    BY <1>1 DEF Arrive, Pairs
<1>3. PICK m \in messages : o \in m[1] /\ u = m[2]
    BY <1>2
<1>4. \/ \E r \in Requests : pc[r] = "send" /\ m[1] = {cur[r]} /\ m[2] \in rcpt[r]
      \/ \E b \in flushing : m[1] = b.events /\ m[2] \in b.users
    BY <1>1 DEF Sending
<1>5. \/ \E r \in Requests : pc[r] = "send" /\ cur[r] = o /\ u \in rcpt[r]
      \/ \E b \in flushing : o \in b.events /\ u \in b.users
    BY <1>3, <1>4
<1>6. /\ copies[<<o, u>>] = 0
      /\ reported[<<o, u>>] = "none" /\ <<o, u>> \notin lost
    BY <1>5 DEF IInv, Fresh, CurIsFresh, BatchesAreApart, Untouched, MayGet, Busy
<1> QED
    BY <1>2, <1>3, <1>5, <1>6

(* Nothing is taken up again after a restart: the requests that were being *)
(* worked on are dead, and only untouched ones are still to come.          *)
LEMMA RestartFresh ==
    ASSUME IInv, TypeOK', Restart
    PROVE  RequestShape' /\ Fresh' /\ AtMostOnce'
<1>1. /\ pc' = [r \in Requests |-> IF pc[r] \in {"idle", "done"} THEN pc[r] ELSE "dead"]
      /\ todo' = [r \in Requests |-> {}] /\ cur' = [r \in Requests |-> NoOcc]
      /\ rcpt' = [r \in Requests |-> {}] /\ flushing' = {}
      /\ buffers' = [t \in Types |-> NoBuffer]
    BY DEF Restart
<1>2. \A r \in Requests : pc'[r] \notin Busy /\ Ahead(r)' \subseteq Ahead(r)
    BY <1>1 DEF Ahead, Busy
<1>3. \A e : ~InBuffer(e)' /\ ~InFlight(e)'
    BY <1>1 DEF InBuffer, InFlight, NoBuffer
<1>4. RequestShape'
    BY <1>1, <1>2 DEF IInv, RequestShape
<1>5. ASSUME NEW r \in Requests, NEW o \in Ahead(r), NEW u \in Users
      PROVE  ~Due(o, u)
  <2>1. \A s \in Requests : cur[s] # o
    <3>1. o \in Payload[r] /\ o \in Occs
        BY PayloadFacts DEF IInv, RequestShape
    <3>2. ASSUME NEW s \in Requests, pc[s] \notin Busy PROVE cur[s] # o
        BY <3>1, <3>2 DEF IInv, RequestShape
    <3>3. ASSUME NEW s \in Requests, pc[s] \in Busy PROVE cur[s] # o
        BY <3>3, RequestsApart
    <3> QED
        BY <3>2, <3>3
  <2>2. ~InBuffer(o) /\ ~InFlight(o)
      BY DEF IInv, Fresh, AheadIsFresh
  <2> QED
      BY <2>1, <2>2 DEF Due, InBuffer, InFlight
<1>8. /\ reported' = reported
      /\ lost' = lost \cup {p \in Pairs : Due(p[1], p[2])}
    BY DEF Restart
<1>9. AheadIsFresh' /\ CurIsFresh'
  <2>1. ASSUME NEW r \in Requests, NEW o \in Ahead(r)
        PROVE  Untouched(o, Users)'
    <3>1. Untouched(o, Users) /\ o \in Occs
        BY PayloadFacts DEF IInv, RequestShape, Fresh, AheadIsFresh
    <3>2. ASSUME NEW u \in Users PROVE copies'[<<o, u>>] = copies[<<o, u>>]
        BY <1>5, <3>1, RestartArrives DEF Due
    <3> QED
        BY <1>5, <1>8, <3>1, <3>2 DEF Untouched, Pairs
  <2> QED
      BY <1>2, <1>3, <2>1 DEF AheadIsFresh, CurIsFresh
<1>6. BufferedIsFresh' /\ BatchesAreApart'
    BY <1>1 DEF BufferedIsFresh, BatchesAreApart, NoBuffer
<1>7. AtMostOnce'
  <2> SUFFICES ASSUME NEW e \in Occs, NEW v \in Users PROVE copies'[<<e, v>>] <= 1
      BY DEF AtMostOnce, Pairs
  <2>1. CASE copies'[<<e, v>>] = copies[<<e, v>>]
      BY <2>1 DEF IInv, AtMostOnce, Pairs
  <2>2. CASE copies'[<<e, v>>] # copies[<<e, v>>]
    <3>1. copies'[<<e, v>>] = 1
        BY <2>2, RestartArrives
    <3> QED
        BY <3>1
  <2> QED
      BY <2>1, <2>2
<1> QED
    BY <1>4, <1>6, <1>7, <1>9 DEF Fresh

-----------------------------------------------------------------------------

LEMMA InitIInv == Init => IInv
<1> SUFFICES ASSUME Init PROVE IInv
    OBVIOUS
<1>1. TypeOK
    BY InitType
<1>2. RequestShape
    BY DEF Init, RequestShape, Ahead, Busy
<1>3. Fresh /\ AtMostOnce
    BY PayloadFacts DEF Init, Fresh, AheadIsFresh, CurIsFresh, BufferedIsFresh, BatchesAreApart,
           AtMostOnce, InBuffer, InFlight, Untouched, Ahead, Busy, NoBuffer, Pairs
<1> QED
    BY <1>1, <1>2, <1>3 DEF IInv

(* One step per disjunct of Next, each resting on the lemma of its group.  *)
LEMMA NextIInv == IInv /\ [Next]_vars => IInv'
<1> SUFFICES ASSUME IInv, [Next]_vars PROVE IInv'
    OBVIOUS
<1>1. TypeOK
    BY DEF IInv
<1>2. ASSUME TypeOK', RequestShape', Moves PROVE IInv'
    BY <1>2, MovesFresh DEF IInv
<1>3. ASSUME NEW r \in Requests, Receive(r) \/ Respond(r) \/ Disconnect(r) PROVE IInv'
    BY <1>1, <1>2, <1>3, RequestType, RequestMoves
<1>4. ASSUME NEW r \in Requests, ProcessEvent(r) PROVE IInv'
  <2>1. ASSUME NEW o \in Occs, \/ SkipUnknown(r, o) \/ SkipFiltered(r, o)
                                \/ SkipDuplicate(r, o) \/ Admit(r, o)
        PROVE  IInv'
      BY <1>1, <1>2, <2>1, VerdictType, VerdictMoves
  <2>2. CASE StoreEvent(r) \/ StoreBlockedIP(r)
      BY <1>1, <1>2, <2>2, StoreType, StoreMoves
  <2>3. CASE LookupFails(r) \/ FindNobody(r) \/ GetSubscribers(r)
      BY <1>1, <1>2, <2>3, LookupType, LookupMoves
  <2>4. CASE EnqueueGrouped(r)
      BY <1>1, <2>4, EnqueueType, EnqueueFresh DEF IInv
  <2>5. ASSUME NEW u \in Users, SendEvent(r, u) PROVE IInv'
      BY <1>1, <2>5, SendType, SendFresh DEF IInv
  <2> QED
      BY <1>4, <2>1, <2>2, <2>3, <2>4, <2>5 DEF ProcessEvent
<1>5. ASSUME NEW t \in Types, TimerFires(t) PROVE IInv'
    BY <1>1, <1>5, TimerType, TimerFresh DEF IInv
<1>6. CASE Flush
    BY <1>1, <1>6, FlushType, FlushFresh DEF Flush, IInv
<1>7. CASE \/ \E u \in Users, t \in Types : Subscribe(u, t) \/ Unsubscribe(u, t)
           \/ CoolDown \/ QuietEdge
    BY <1>1, <1>2, <1>7, OutsideType, OutsideMoves
<1>8. CASE Restart
    BY <1>1, <1>8, RestartType, RestartFresh DEF IInv
<1>9. CASE UNCHANGED vars
  <2>1. UNCHANGED <<reqVars, envVars, bufVars, metrics, dbVars, restarts, outcome, audience,
                    ledgerVars, since>>
      BY <1>9 DEF vars
  <2>2. TypeOK'
      BY <1>1, <2>1 DEF TypeOK, reqVars, bufVars, dbVars, ledgerVars, envVars
  <2>3. RequestShape' /\ Moves
      BY <2>1 DEF IInv, RequestShape, Moves, Ahead, MayGet, reqVars, bufVars, ledgerVars, envVars
  <2> QED
      BY <1>2, <2>2, <2>3
<1> QED
    BY <1>3, <1>4, <1>5, <1>6, <1>7, <1>8, <1>9 DEF Next

THEOREM Invariance == Spec => []IInv
<1> QED
    BY InitIInv, NextIInv, PTL DEF Spec

(* Requests, buffers, batches, tables and counters keep their types.       *)
THEOREM TypeCorrect == Spec => []TypeOK
<1>1. IInv => TypeOK
    BY DEF IInv
<1> QED
    BY <1>1, Invariance, PTL

(* No user gets two messages about one event, for any number of requests,  *)
(* users, buffers and restarts (service.go:95-102, 142-181).               *)
THEOREM NoSecondMessage == Spec => []AtMostOnce
<1>1. IInv => AtMostOnce
    BY DEF IInv
<1> QED
    BY <1>1, Invariance, PTL

-----------------------------------------------------------------------------
(* Buffers and timers.                                                     *)

TimerInv == TimerArmed /\ BufferShape

LEMMA TimerInvNext == TypeOK /\ TimerInv /\ [Next]_vars => TimerInv'
<1> SUFFICES ASSUME TypeOK, TimerInv, [Next]_vars PROVE TimerInv'
    OBVIOUS
<1>1. CASE UNCHANGED <<buffers, timers>>
    BY <1>1 DEF TimerInv, TimerArmed, BufferShape
<1>2. ASSUME NEW r \in Requests, EnqueueGrouped(r) PROVE TimerInv'
  <2>1. PICK t \in Types : t = TypeOf[cur[r]]
      BY <1>2 DEF EnqueueGrouped, TypeOK, Busy
  <2>2. /\ timers' = IF buffers[t] = NoBuffer THEN timers \cup {t} ELSE timers
        /\ buffers' = [buffers EXCEPT
                         ![t] = [events |-> @.events \cup {cur[r]},
                                 users |-> @.users \cup rcpt[r]]]
      BY <1>2, <2>1 DEF EnqueueGrouped, Arm, Extended
  <2>3. buffers'[t].events # {} /\ t \in timers'
      BY <2>2 DEF TypeOK, TimerInv, TimerArmed, BufferShape
  <2>4. \A c \in Types : c # t => buffers'[c] = buffers[c] /\ (c \in timers' <=> c \in timers)
      BY <2>2 DEF TypeOK
  <2> QED
      BY <2>3, <2>4 DEF TimerInv, TimerArmed, BufferShape
<1>3. ASSUME NEW t \in Types, TimerFires(t) PROVE TimerInv'
    BY <1>3 DEF TimerFires, TypeOK, TimerInv, TimerArmed, BufferShape, NoBuffer
<1>4. CASE Restart
    BY <1>4 DEF Restart, TimerInv, TimerArmed, BufferShape, NoBuffer
<1>5. ASSUME NEW r \in Requests, Receive(r) \/ Respond(r) \/ Disconnect(r)
      PROVE  UNCHANGED <<buffers, timers>>
    BY <1>5 DEF Receive, Respond, Disconnect, bufVars
<1>6. ASSUME NEW r \in Requests, ProcessEvent(r), ~EnqueueGrouped(r)
      PROVE  UNCHANGED <<buffers, timers>>
    BY <1>6 DEF ProcessEvent, SkipUnknown, SkipFiltered, SkipDuplicate, Drop, Admit,
                StoreEvent, StoreBlockedIP, LookupFails, FindNobody, GetSubscribers,
                SendEvent, bufVars
<1>7. CASE Flush
    BY <1>1, <1>7 DEF Flush, SendGrouped
<1>8. CASE \/ \E u \in Users, t \in Types : Subscribe(u, t) \/ Unsubscribe(u, t)
           \/ CoolDown \/ QuietEdge
    BY <1>1, <1>8 DEF Subscribe, Unsubscribe, CoolDown, QuietEdge, bufVars
<1>9. CASE UNCHANGED vars
    BY <1>1, <1>9 DEF vars, bufVars
<1> QED
    BY <1>1, <1>2, <1>3, <1>4, <1>5, <1>6, <1>7, <1>8, <1>9 DEF Next

(* A buffered event always has a running timer that will flush it, and a   *)
(* timer always finds the buffer it was armed for (service.go:147-154).    *)
THEOREM BuffersAreTimed == Spec => []TimerArmed
<1>1. Init => TimerInv
    BY DEF Init, TimerInv, TimerArmed, BufferShape, NoBuffer
<1>2. TimerInv => TimerArmed
    BY DEF TimerInv
<1> QED
    BY <1>1, <1>2, TimerInvNext, TypeCorrect, PTL DEF Spec

-----------------------------------------------------------------------------
(***************************************************************************)
(* The second part: the pipeline implements DeliveryLedger, nobody it      *)
(* looked up is forgotten, nobody else is written to, and nothing but a    *)
(* duplicate is refused as one.                                            *)
(*                                                                         *)
(* The argument: every step is of one of three kinds.  It may make pairs   *)
(* <<event, user>> due that nothing has happened to yet (Owes), it settles *)
(* pairs of one user that are due (Settles), or it loses everything that   *)
(* is due (Loses).  That a pair is untouched when it becomes due, and      *)
(* again when it is settled, is what the invariant above says of the       *)
(* places an event can be in.                                              *)
(***************************************************************************)

(* The step may make untouched pairs due, and does nothing else to any.    *)
Owes ==
    /\ UNCHANGED <<reported, lost>>
    /\ \A o \in Occs, u \in Users :
        /\ Due(o, u) => Due(o, u)'
        /\ Due(o, u)' /\ ~Due(o, u) => reported[<<o, u>>] = "none" /\ <<o, u>> \notin lost

(* The step settles the pairs of events evs and user v: they were due.     *)
Settles(evs, v, result) ==
    /\ lost' = lost
    /\ \A o \in Occs, u \in Users :
        IF o \in evs /\ u = v
        THEN /\ Due(o, u) /\ reported[<<o, u>>] = "none" /\ <<o, u>> \notin lost
             /\ reported'[<<o, u>>] = result
        ELSE /\ reported'[<<o, u>>] = reported[<<o, u>>]
             /\ Due(o, u)' <=> Due(o, u)

(* The step loses what was due, and leaves nothing due.                    *)
Loses ==
    /\ reported' = reported
    /\ lost' = lost \cup {p \in Pairs : Due(p[1], p[2])}
    /\ \A o, u : ~Due(o, u)'

Accounts ==
    \/ Owes
    \/ \E evs \in SUBSET Occs, v \in Users, result \in {"sent", "failed"} :
          Settles(evs, v, result)
    \/ Loses

-----------------------------------------------------------------------------
(* Steps that leave buffers, batches and the ledger alone, and in which    *)
(* every request keeps the recipients it has.                              *)
Keeps ==
    /\ UNCHANGED <<buffers, flushing, reported, lost>>
    /\ \A r \in Requests : /\ rcpt'[r] = rcpt[r]
                           /\ rcpt[r] # {} => cur'[r] = cur[r]

LEMMA KeepsOwes ==
    ASSUME Keeps
    PROVE  Owes
<1>1. ASSUME NEW o, NEW u PROVE Due(o, u)' <=> Due(o, u)
    BY DEF Keeps, Due
<1> QED
    BY <1>1 DEF Keeps, Owes

LEMMA RequestKeeps ==
    ASSUME NEW r \in Requests, Receive(r) \/ Respond(r) \/ Disconnect(r)
    PROVE  Keeps
BY DEF Receive, Respond, Disconnect, Keeps, bufVars, ledgerVars

LEMMA VerdictKeeps ==
    ASSUME IInv, NEW r \in Requests, NEW o \in Occs,
           \/ SkipUnknown(r, o) \/ SkipFiltered(r, o)
           \/ SkipDuplicate(r, o) \/ Admit(r, o)
    PROVE  Keeps
<1>1. ASSUME NEW result, Drop(r, o, result)
      PROVE  Keeps
    BY <1>1 DEF Drop, Keeps, bufVars, ledgerVars
<1>2. CASE Admit(r, o)
    BY <1>2 DEF Admit, Keeps, IInv, RequestShape, TypeOK, bufVars, ledgerVars
<1> QED
    BY <1>1, <1>2 DEF SkipUnknown, SkipFiltered, SkipDuplicate

LEMMA StoreKeeps ==
    ASSUME NEW r \in Requests, StoreEvent(r) \/ StoreBlockedIP(r)
    PROVE  Keeps
BY DEF StoreEvent, StoreBlockedIP, Keeps, bufVars, ledgerVars

(* Before the lookup a request has no recipients that it could forget.     *)
LEMMA LookupKeeps ==
    ASSUME IInv, NEW r \in Requests, LookupFails(r) \/ FindNobody(r)
    PROVE  Keeps
<1>1. rcpt[r] = {}
    BY DEF LookupFails, FindNobody, IInv, RequestShape
<1> QED
    BY <1>1 DEF LookupFails, FindNobody, BackToLoop, Keeps, IInv, TypeOK,
                bufVars, ledgerVars

LEMMA OutsideKeeps ==
    ASSUME \/ \E u \in Users, t \in Types : Subscribe(u, t) \/ Unsubscribe(u, t)
           \/ CoolDown \/ QuietEdge
    PROVE  Keeps
BY DEF Subscribe, Unsubscribe, CoolDown, QuietEdge, Keeps, reqVars, bufVars, ledgerVars

-----------------------------------------------------------------------------
(* Steps that make pairs due or hand them on.                              *)

(* The event is nowhere else, so nothing has happened to its pairs.        *)
LEMMA LookupOwes ==
    ASSUME IInv, NEW r \in Requests, GetSubscribers(r)
    PROVE  Owes
<1>1. PICK o : o = cur[r]
    OBVIOUS
<1>2. /\ pc[r] = "lookup" /\ rcpt[r] = {}
      /\ UNCHANGED <<cur, buffers, flushing, reported, lost>>
      /\ \A s \in Requests : s # r => rcpt'[s] = rcpt[s]
    BY DEF GetSubscribers, IInv, RequestShape, TypeOK, bufVars, ledgerVars
<1>3. Untouched(o, Users)
    BY <1>1, <1>2 DEF IInv, Fresh, CurIsFresh, MayGet, Busy
<1>4. ASSUME NEW e \in Occs, NEW u \in Users, Due(e, u)
      PROVE  Due(e, u)'
    BY <1>2, <1>4 DEF Due
<1>5. ASSUME NEW e \in Occs, NEW u \in Users, Due(e, u)', ~Due(e, u)
      PROVE  reported[<<e, u>>] = "none" /\ <<e, u>> \notin lost
  <2>1. e = o
      BY <1>1, <1>2, <1>5 DEF Due
  <2> QED
      BY <1>3, <2>1 DEF Untouched
<1> QED
    BY <1>2, <1>4, <1>5 DEF Owes

(* The recipients and the event go into the buffer of the event's type:    *)
(* the pairs of the event with the buffer's users, and of the recipients   *)
(* with the buffer's events, become due as well.                           *)
LEMMA EnqueueOwes ==
    ASSUME IInv, NEW r \in Requests, EnqueueGrouped(r)
    PROVE  Owes
<1>0. PICK o : o = cur[r]
    OBVIOUS
<1>1. PICK t \in Types : t = TypeOf[o]
    BY <1>0 DEF EnqueueGrouped, IInv, TypeOK, Busy
<1>2. /\ pc[r] = "enqueue"
      /\ cur' = [cur EXCEPT ![r] = NoOcc] /\ rcpt' = [rcpt EXCEPT ![r] = {}]
      /\ UNCHANGED <<flushing, reported, lost>>
      /\ buffers' = [buffers EXCEPT
                       ![t] = [events |-> @.events \cup {o},
                               users |-> @.users \cup rcpt[r]]]
    BY <1>0, <1>1 DEF EnqueueGrouped, Extended, BackToLoop, ledgerVars
<1>3. /\ buffers'[t].events = buffers[t].events \cup {o}
      /\ buffers'[t].users = buffers[t].users \cup rcpt[r]
      /\ \A c \in Types : c # t => buffers'[c] = buffers[c]
    BY <1>2 DEF IInv, TypeOK
<1>4. /\ \A s \in Requests : s # r => cur'[s] = cur[s] /\ rcpt'[s] = rcpt[s]
      /\ rcpt'[r] = {}
    BY <1>2 DEF IInv, TypeOK
<1>5. ASSUME NEW e \in Occs, NEW u \in Users, Due(e, u)
      PROVE  Due(e, u)'
  <2>1. \/ \E s \in Requests : s # r /\ cur[s] = e /\ u \in rcpt[s]
        \/ e = o /\ u \in rcpt[r]
        \/ \E c \in Types : e \in buffers[c].events /\ u \in buffers[c].users
        \/ \E b \in flushing : e \in b.events /\ u \in b.users
      BY <1>0, <1>5 DEF Due
  <2>2. CASE e = o /\ u \in rcpt[r]
      BY <1>3, <2>2 DEF Due
  <2>3. CASE \E c \in Types : e \in buffers[c].events /\ u \in buffers[c].users
    <3>1. PICK c \in Types : e \in buffers[c].events /\ u \in buffers[c].users
        BY <2>3
    <3>2. e \in buffers'[c].events /\ u \in buffers'[c].users
        BY <1>3, <3>1
    <3> QED
        BY <3>2 DEF Due
  <2> QED
      BY <1>2, <1>4, <2>1, <2>2, <2>3 DEF Due
<1>6. ASSUME NEW e \in Occs, NEW u \in Users, Due(e, u)', ~Due(e, u)
      PROVE  reported[<<e, u>>] = "none" /\ <<e, u>> \notin lost
  <2>1. e \in buffers[t].events \/ e = o
      BY <1>2, <1>3, <1>4, <1>6 DEF Due
  <2>2. Untouched(o, Users)
      BY <1>0, <1>2 DEF IInv, Fresh, CurIsFresh, MayGet, Busy
  <2>3. e \in buffers[t].events => Untouched(e, Users)
      BY DEF IInv, Fresh, BufferedIsFresh
  <2> QED
      BY <2>1, <2>2, <2>3 DEF Untouched
<1> QED
    BY <1>2, <1>5, <1>6 DEF Owes

(* flushGrouped takes the whole buffer.                                    *)
LEMMA TimerOwes ==
    ASSUME IInv, NEW t \in Types, TimerFires(t)
    PROVE  Owes
<1>1. /\ UNCHANGED <<cur, rcpt, reported, lost>>
      /\ flushing' = IF buffers[t].events = {}
                     THEN flushing ELSE flushing \cup {buffers[t]}
      /\ buffers'[t].events = {}
      /\ \A c \in Types : c # t => buffers'[c] = buffers[c]
    BY DEF TimerFires, reqVars, ledgerVars, IInv, TypeOK, NoBuffer
<1>2. ASSUME NEW o \in Occs, NEW u \in Users
      PROVE  Due(o, u)' <=> Due(o, u)
    BY <1>1 DEF Due
<1> QED
    BY <1>1, <1>2 DEF Owes

-----------------------------------------------------------------------------
(* Steps that settle pairs.                                                *)

(* An attempt counts the pairs of its events and its user with one result. *)
LEMMA DeliverCounts ==
    ASSUME TypeOK, NEW evs, NEW v, NEW a \in [ok : BOOLEAN, landed : BOOLEAN],
           Deliver(evs, v, a)
    PROVE  /\ lost' = lost
           /\ \A o \in Occs, u \in Users :
                reported'[<<o, u>>] = IF o \in evs /\ u = v
                                      THEN IF a.ok THEN "sent" ELSE "failed"
                                      ELSE reported[<<o, u>>]
BY DEF Deliver, Pairs

LEMMA SendSettles ==
    ASSUME IInv, NEW r \in Requests, NEW v \in Users, SendEvent(r, v)
    PROVE  \E result \in {"sent", "failed"} : Settles({cur[r]}, v, result)
<1>0. PICK e : e = cur[r]
    OBVIOUS
<1>1. PICK a \in Attempts(gone[r]) :
        /\ Deliver({e}, v, a)
        /\ rcpt' = [rcpt EXCEPT ![r] = Remaining(@, v, a.ok)]
    BY <1>0 DEF SendEvent
<1>2. PICK result \in {"sent", "failed"} : result = IF a.ok THEN "sent" ELSE "failed"
    OBVIOUS
<1>3. /\ lost' = lost
      /\ \A o \in Occs, u \in Users :
            reported'[<<o, u>>] = IF o = e /\ u = v THEN result ELSE reported[<<o, u>>]
    BY <1>1, <1>2, DeliverCounts DEF IInv, Attempts
<1>4. /\ pc[r] = "send" /\ pc[r] \in Busy /\ v \in rcpt[r]
      /\ UNCHANGED <<buffers, flushing>>
      /\ rcpt'[r] = rcpt[r] \ {v}
      /\ \A s \in Requests : s # r => rcpt'[s] = rcpt[s]
    BY <1>1 DEF SendEvent, Remaining, IInv, TypeOK, bufVars, Busy
<1>5. /\ rcpt'[r] # {} => cur'[r] = cur[r]
      /\ \A s \in Requests : s # r => cur'[s] = cur[s]
    BY DEF SendEvent, BackToLoop, IInv, TypeOK
<1>6. /\ e \in Occs /\ ~InBuffer(e) /\ ~InFlight(e) /\ Untouched(e, rcpt[r])
      /\ \A s \in Requests : pc[s] \in Busy /\ s # r => cur[s] # e
    BY <1>0, <1>4, RequestsApart DEF IInv, Fresh, CurIsFresh, MayGet
<1>7. Due(e, v) /\ reported[<<e, v>>] = "none" /\ <<e, v>> \notin lost
    BY <1>0, <1>4, <1>6 DEF Due, Untouched
<1>8. ASSUME NEW o \in Occs, NEW u \in Users, ~(o = e /\ u = v)
      PROVE  Due(o, u)' <=> Due(o, u)
  <2>1. \A s \in Requests : cur'[s] = o /\ u \in rcpt'[s] <=> cur[s] = o /\ u \in rcpt[s]
      BY <1>0, <1>4, <1>5, <1>8
  <2> QED
      BY <1>4, <2>1 DEF Due
<1> QED
    BY <1>0, <1>2, <1>3, <1>7, <1>8 DEF Settles

LEMMA FlushSettles ==
    ASSUME IInv, NEW b \in flushing, NEW v \in Users, SendGrouped(b, v)
    PROVE  \E result \in {"sent", "failed"} : Settles(b.events, v, result)
<1>1. PICK a \in Attempts(FALSE) : Deliver(b.events, v, a)
    BY DEF SendGrouped
<1>2. PICK result \in {"sent", "failed"} : result = IF a.ok THEN "sent" ELSE "failed"
    OBVIOUS
<1>3. /\ lost' = lost
      /\ \A o \in Occs, u \in Users :
            reported'[<<o, u>>] = IF o \in b.events /\ u = v THEN result ELSE reported[<<o, u>>]
    BY <1>1, <1>2, DeliverCounts DEF IInv, Attempts
<1>4. PICK rest : rest = [b EXCEPT !.users = @ \ {v}]
    OBVIOUS
<1>5. /\ flushing' = (flushing \ {b}) \cup {c \in {rest} : c.users # {}}
      /\ UNCHANGED <<cur, rcpt, buffers>> /\ v \in b.users
    BY <1>4 DEF SendGrouped, Remaining, reqVars
<1>6. rest.events = b.events /\ rest.users = b.users \ {v}
    BY <1>4 DEF IInv, TypeOK, Buffers
<1>7. ASSUME NEW o \in Occs, o \in b.events
      PROVE  Due(o, v) /\ reported[<<o, v>>] = "none" /\ <<o, v>> \notin lost
    BY <1>5, <1>7 DEF Due, Untouched, IInv, Fresh, BatchesAreApart
<1>8. ASSUME NEW o \in Occs, NEW u \in Users, ~(o \in b.events /\ u = v)
      PROVE  Due(o, u)' <=> Due(o, u)
  <2>1. ASSUME NEW c \in flushing, o \in c.events, u \in c.users
        PROVE  \E d \in flushing' : o \in d.events /\ u \in d.users
    <3>1. CASE c = b
        BY <1>5, <1>6, <1>8, <2>1, <3>1
    <3>2. CASE c # b
        BY <1>5, <2>1, <3>2
    <3> QED
        BY <3>1, <3>2
  <2>2. ASSUME NEW d \in flushing', o \in d.events, u \in d.users
        PROVE  \E c \in flushing : o \in c.events /\ u \in c.users
      BY <1>5, <1>6, <2>2
  <2> QED
      BY <1>5, <2>1, <2>2 DEF Due
<1> QED
    BY <1>2, <1>3, <1>7, <1>8 DEF Settles

-----------------------------------------------------------------------------
(* The end of the process records everything that was due as lost.         *)
LEMMA RestartLoses ==
    ASSUME Restart
    PROVE  Loses
BY DEF Restart, Loses, Due, NoBuffer

(* One step per disjunct of Next.                                          *)
LEMMA EveryStepAccounts ==
    ASSUME IInv, [Next]_vars
    PROVE  Accounts
<1>1. ASSUME Keeps PROVE Accounts
    BY <1>1, KeepsOwes DEF Accounts
<1>2. ASSUME NEW r \in Requests, Receive(r) \/ Respond(r) \/ Disconnect(r)
      PROVE  Accounts
    BY <1>1, <1>2, RequestKeeps
<1>3. ASSUME NEW r \in Requests, ProcessEvent(r) PROVE Accounts
  <2>1. ASSUME NEW e \in Occs, \/ SkipUnknown(r, e) \/ SkipFiltered(r, e)
                                \/ SkipDuplicate(r, e) \/ Admit(r, e)
        PROVE  Accounts
      BY <1>1, <2>1, VerdictKeeps
  <2>2. CASE StoreEvent(r) \/ StoreBlockedIP(r)
      BY <1>1, <2>2, StoreKeeps
  <2>3. CASE LookupFails(r) \/ FindNobody(r)
      BY <1>1, <2>3, LookupKeeps
  <2>4. CASE GetSubscribers(r)
      BY <2>4, LookupOwes DEF Accounts
  <2>5. CASE EnqueueGrouped(r)
      BY <2>5, EnqueueOwes DEF Accounts
  <2>6. ASSUME NEW v \in Users, SendEvent(r, v) PROVE Accounts
    <3>1. {cur[r]} \in SUBSET Occs
        BY <2>6, RequestsApart DEF SendEvent, Busy
    <3> QED
        BY <2>6, <3>1, SendSettles DEF Accounts
  <2> QED
      BY <1>3, <2>1, <2>2, <2>3, <2>4, <2>5, <2>6 DEF ProcessEvent
<1>4. ASSUME NEW t \in Types, TimerFires(t) PROVE Accounts
    BY <1>4, TimerOwes DEF Accounts
<1>5. ASSUME NEW b \in flushing, NEW v \in Users, SendGrouped(b, v) PROVE Accounts
  <2>1. b.events \in SUBSET Occs
      BY DEF IInv, TypeOK, Buffers
  <2> QED
      BY <1>5, <2>1, FlushSettles DEF Accounts
<1>6. CASE \/ \E v \in Users, t \in Types : Subscribe(v, t) \/ Unsubscribe(v, t)
           \/ CoolDown \/ QuietEdge
    BY <1>1, <1>6, OutsideKeeps
<1>7. CASE Restart
    BY <1>7, RestartLoses DEF Accounts
<1>8. CASE UNCHANGED vars
    BY <1>1, <1>8 DEF vars, Keeps, reqVars, bufVars, ledgerVars
<1> QED
    BY <1>2, <1>3, <1>4, <1>5, <1>6, <1>7, <1>8 DEF Next, Flush

-----------------------------------------------------------------------------
(* Nobody is forgotten.                                                    *)

Served(o, u) == Due(o, u) \/ reported[<<o, u>>] # "none" \/ <<o, u>> \in lost

LEMMA ServedForGood ==
    ASSUME Accounts, NEW o \in Occs, NEW u \in Users, Served(o, u)
    PROVE  Served(o, u)'
<1>1. CASE Owes
    BY <1>1 DEF Owes, Served
<1>2. ASSUME NEW evs, NEW v, NEW result \in {"sent", "failed"}, Settles(evs, v, result)
      PROVE  Served(o, u)'
  <2>1. CASE o \in evs /\ u = v
      BY <1>2, <2>1 DEF Settles, Served
  <2>2. CASE ~(o \in evs /\ u = v)
      BY <1>2, <2>2 DEF Settles, Served
  <2> QED
      BY <2>1, <2>2
<1>3. CASE Loses
    BY <1>3 DEF Loses, Served, Pairs
<1> QED
    BY <1>1, <1>2, <1>3 DEF Accounts

(* New members of an audience are held by the request that found them.     *)
LEMMA AudienceGrowsHeld ==
    ASSUME IInv, [Next]_vars, NEW o \in Occs, NEW u, u \in audience'[o],
           u \notin audience[o]
    PROVE  Due(o, u)'
<1>1. PICK r \in Requests : GetSubscribers(r)
  <2> SUFFICES ASSUME \A r \in Requests : ~GetSubscribers(r)
               PROVE  audience' = audience
      OBVIOUS
  <2>1. ASSUME NEW r \in Requests, Receive(r) \/ Respond(r) \/ Disconnect(r)
        PROVE  audience' = audience
      BY <2>1 DEF Receive, Respond, Disconnect
  <2>2. ASSUME NEW r \in Requests, ProcessEvent(r)
        PROVE  audience' = audience
      BY <2>2 DEF ProcessEvent, SkipUnknown, SkipFiltered, SkipDuplicate, Drop, Admit,
                  StoreEvent, StoreBlockedIP, LookupFails, FindNobody, SendEvent,
                  EnqueueGrouped
  <2>3. CASE Flush \/ \E t \in Types : TimerFires(t)
      BY <2>3 DEF Flush, SendGrouped, TimerFires
  <2>4. CASE \/ \E v \in Users, t \in Types : Subscribe(v, t) \/ Unsubscribe(v, t)
             \/ CoolDown \/ QuietEdge
      BY <2>4 DEF Subscribe, Unsubscribe, CoolDown, QuietEdge
  <2>5. CASE Restart \/ UNCHANGED vars
      BY <2>5 DEF Restart, vars
  <2> QED
      BY <2>1, <2>2, <2>3, <2>4, <2>5 DEF Next
<1>2. cur'[r] = cur[r] /\ rcpt'[r] = Subscribers(TypeOf[cur[r]])
    BY <1>1 DEF GetSubscribers, IInv, TypeOK
<1>3. o = cur[r] /\ u \in Subscribers(TypeOf[cur[r]])
    BY <1>1 DEF GetSubscribers, Subscribers, IInv, TypeOK
<1> QED
    BY <1>2, <1>3 DEF Due

(* Nobody is forgotten, for any number of requests, users, buffers and     *)
(* restarts (service.go:81-102, 142-181).                                  *)
THEOREM NobodyForgotten == Spec => []AudienceServed
<1>1. Init => AudienceServed
    BY DEF Init, AudienceServed
<1>2. IInv /\ AudienceServed /\ [Next]_vars => AudienceServed'
  <2> SUFFICES ASSUME IInv, AudienceServed, [Next]_vars,
                      NEW o \in Occs, NEW u, u \in audience'[o]
               PROVE  Served(o, u)'
      BY DEF AudienceServed, Served
  <2>1. CASE u \in audience[o]
    <3>1. u \in Users /\ Served(o, u)
        BY <2>1 DEF AudienceServed, Served, IInv, TypeOK
    <3> QED
        BY <3>1, EveryStepAccounts, ServedForGood
  <2>2. CASE u \notin audience[o]
      BY <2>2, AudienceGrowsHeld DEF Served
  <2> QED
      BY <2>1, <2>2
<1> QED
    BY <1>1, <1>2, Invariance, PTL DEF Spec

-----------------------------------------------------------------------------
(* The refinement.                                                         *)

(* What the ledger's variable stands for.                                  *)
Fates == [p \in Pairs |-> FateOf(p)]

LEMMA FatesType ==
    ASSUME TypeOK'
    PROVE  Fates' \in [Pairs -> {"none", "due", "sent", "failed", "lost"}]
BY DEF Fates, FateOf, TypeOK

LEMMA OwesOwe ==
    ASSUME Owes, NEW p \in Pairs, FateOf(p)' # FateOf(p)
    PROVE  FateOf(p) = "none" /\ FateOf(p)' = "due"
<1>1. p[1] \in Occs /\ p[2] \in Users /\ p = <<p[1], p[2]>>
    BY DEF Pairs
<1>2. /\ reported' = reported /\ lost' = lost
      /\ Due(p[1], p[2]) => Due(p[1], p[2])'
      /\ Due(p[1], p[2])' /\ ~Due(p[1], p[2]) => reported[p] = "none" /\ p \notin lost
    BY <1>1 DEF Owes
<1> QED
    BY <1>2 DEF FateOf

LEMMA SettlesSettle ==
    ASSUME NEW evs, NEW v, NEW result \in {"sent", "failed"}, Settles(evs, v, result),
           NEW p \in Pairs, FateOf(p)' # FateOf(p)
    PROVE  p[2] = v /\ FateOf(p) = "due" /\ FateOf(p)' = result
<1>1. p[1] \in Occs /\ p[2] \in Users /\ p = <<p[1], p[2]>>
    BY DEF Pairs
<1>2. CASE p[1] \in evs /\ p[2] = v
  <2>1. /\ Due(p[1], p[2]) /\ reported[p] = "none" /\ p \notin lost
        /\ reported'[p] = result
      BY <1>1, <1>2 DEF Settles
  <2>2. FateOf(p) = "due" /\ FateOf(p)' = result
      BY <2>1 DEF FateOf
  <2> QED
      BY <1>2, <2>2
<1>3. CASE ~(p[1] \in evs /\ p[2] = v)
  <2>1. /\ reported'[p] = reported[p] /\ lost' = lost
        /\ Due(p[1], p[2])' <=> Due(p[1], p[2])
      BY <1>1, <1>3 DEF Settles
  <2> QED
      BY <2>1 DEF FateOf
<1> QED
    BY <1>2, <1>3

LEMMA LosesLose ==
    ASSUME TypeOK, Loses, NEW p \in Pairs
    PROVE  /\ FateOf(p)' # "due"
           /\ FateOf(p)' # FateOf(p) => FateOf(p) = "due" /\ FateOf(p)' = "lost"
<1>1. /\ reported' = reported /\ reported[p] # "due" /\ ~Due(p[1], p[2])'
      /\ p \in lost' <=> p \in lost \/ Due(p[1], p[2])
    BY DEF Loses, TypeOK
<1> QED
    BY <1>1 DEF FateOf

(* The pipeline implements its abstract promise: a pair becomes due once,  *)
(* is settled once or lost with the process, and never changes after that. *)
THEOREM ImplementsPromise == Spec => ImplementsLedger
<1>1. Init => Ledger!Init
  <2> SUFFICES ASSUME Init, NEW p \in Pairs PROVE FateOf(p) = "none"
      BY DEF Ledger!Init, Ledger!Pairs, Pairs
  <2> QED
      BY DEF Init, FateOf, Due, NoBuffer, Pairs
<1>2. IInv /\ IInv' /\ [Next]_vars => [Ledger!Next]_Fates
  <2> SUFFICES ASSUME IInv, IInv', [Next]_vars PROVE Ledger!Next
      BY DEF Fates
  <2>0. Fates = [p \in Pairs |-> FateOf(p)] /\ Fates' = [p \in Pairs |-> FateOf(p)']
      BY DEF Fates
  <2>1. /\ Ledger!Pairs = Pairs
        /\ \A p \in Pairs : Fates[p] = FateOf(p) /\ Fates'[p] = FateOf(p)'
        /\ Fates' \in [Pairs -> {"none", "due", "sent", "failed", "lost"}]
    <3>1. Ledger!Pairs = Pairs
        BY DEF Ledger!Pairs, Pairs
    <3>2. \A p \in Pairs : Fates[p] = FateOf(p) /\ Fates'[p] = FateOf(p)'
        BY <2>0
    <3>3. Fates' \in [Pairs -> {"none", "due", "sent", "failed", "lost"}]
        BY FatesType DEF IInv
    <3> QED
        BY <3>1, <3>2, <3>3
  <2>2. CASE Owes
      BY <2>1, <2>2, OwesOwe DEF Ledger!Next, Ledger!Owe, Ledger!Changed, Fates
  <2>3. ASSUME NEW evs, NEW v \in Users, NEW result \in {"sent", "failed"},
               Settles(evs, v, result)
        PROVE  Ledger!Next
    <3>1. \A p \in Ledger!Changed : p[2] = v /\ Fates[p] = "due" /\ Fates'[p] = result
        BY <2>1, <2>3, SettlesSettle DEF Ledger!Changed, Fates
    <3>2. Ledger!Settle
        BY <3>1 DEF Ledger!Settle, Fates
    <3> QED
        BY <2>1, <3>2 DEF Ledger!Next, Fates
  <2>4. CASE Loses
    <3>1. Ledger!Lose
        BY <2>1, <2>4, LosesLose DEF Ledger!Lose, Ledger!Changed, Fates, IInv
    <3> QED
        BY <2>1, <3>1 DEF Ledger!Next, Fates
  <2> QED
      BY <2>2, <2>3, <2>4, EveryStepAccounts DEF Accounts
<1> QED
    BY <1>1, <1>2, Invariance, PTL DEF Spec, ImplementsLedger, Ledger!Spec, Fates

-----------------------------------------------------------------------------
(***************************************************************************)
(* Whom the pipeline writes to and which events it refuses as duplicates.  *)
(*                                                                         *)
(* Both rest on an event being judged once and looked up once: while it is *)
(* ahead of its request's loop it has neither a verdict nor an audience,   *)
(* so both sets only grow, and what a hot key or a buffered user was       *)
(* justified by stays true.                                                *)
(***************************************************************************)
LEMMA AheadShrinks ==
    ASSUME IInv, [Next]_vars, NEW s \in Requests
    PROVE  Ahead(s)' \subseteq Ahead(s)
<1>1. ASSUME NEW r \in Requests, Receive(r) \/ Respond(r) \/ Disconnect(r)
      PROVE  Ahead(s)' \subseteq Ahead(s)
    BY <1>1 DEF IInv, TypeOK, Ahead, Receive, Respond, Disconnect, Busy
<1>2. ASSUME NEW r \in Requests, NEW o \in Occs,
             \/ SkipUnknown(r, o) \/ SkipFiltered(r, o)
             \/ SkipDuplicate(r, o) \/ Admit(r, o)
      PROVE  Ahead(s)' \subseteq Ahead(s)
    BY <1>2 DEF IInv, TypeOK, Ahead, SkipUnknown, SkipFiltered, SkipDuplicate,
                Drop, Admit
<1>3. ASSUME NEW r \in Requests,
             \/ StoreEvent(r) \/ StoreBlockedIP(r) \/ LookupFails(r)
             \/ FindNobody(r) \/ GetSubscribers(r) \/ EnqueueGrouped(r)
      PROVE  Ahead(s)' \subseteq Ahead(s)
    BY <1>3 DEF IInv, TypeOK, Ahead, StoreEvent, StoreBlockedIP, LookupFails,
                FindNobody, GetSubscribers, EnqueueGrouped, BackToLoop
<1>4. ASSUME NEW r \in Requests, NEW u \in Users, SendEvent(r, u)
      PROVE  Ahead(s)' \subseteq Ahead(s)
    BY <1>4 DEF IInv, TypeOK, Ahead, SendEvent, BackToLoop
<1>5. CASE \/ Flush \/ \E t \in Types : TimerFires(t)
           \/ \E v \in Users, t \in Types : Subscribe(v, t) \/ Unsubscribe(v, t)
           \/ CoolDown \/ QuietEdge \/ UNCHANGED vars
    BY <1>5 DEF Ahead, Flush, SendGrouped, TimerFires, Subscribe, Unsubscribe,
                CoolDown, QuietEdge, reqVars, vars
<1>6. CASE Restart
    BY <1>6 DEF IInv, TypeOK, Ahead, Restart
<1> QED
    BY <1>1, <1>2, <1>3, <1>4, <1>5, <1>6 DEF Next, ProcessEvent

-----------------------------------------------------------------------------
(* Duplicates have a twin.                                                 *)

(* An event that is still ahead has no verdict, one that is being          *)
(* processed got past the filters.                                         *)
Judged ==
    \A r \in Requests : /\ \A o \in Ahead(r) : outcome[o] = "none"
                        /\ pc[r] \in Busy => outcome[cur[r]] \in Accepted

HotIsAccepted ==
    \A k \in hot : \E e \in Occs : KeyOf(e) = k /\ outcome[e] \in Accepted

JInv == Judged /\ HotIsAccepted /\ SuppressedHasTwin

(* The verdicts given so far do not change, but for the progress of an     *)
(* accepted event, and no key becomes hot.                                 *)
Stands ==
    /\ hot' \subseteq hot
    /\ \A o \in Occs : \/ outcome'[o] = outcome[o]
                       \/ outcome[o] \in Accepted /\ outcome'[o] \in Accepted

LEMMA StandsTwins ==
    ASSUME TypeOK, HotIsAccepted, SuppressedHasTwin, Stands
    PROVE  (HotIsAccepted /\ SuppressedHasTwin)'
<1>1. HotIsAccepted'
    BY DEF HotIsAccepted, Stands, KeyOf
<1>2. SuppressedHasTwin'
  <2> SUFFICES ASSUME NEW o \in Occs, outcome'[o] = "duplicate"
               PROVE  \E e \in Occs : /\ e # o /\ TypeOf[e] = TypeOf[o]
                                      /\ IPOf[e] = IPOf[o]
                                      /\ outcome'[e] \in Accepted
      BY DEF SuppressedHasTwin
  <2>1. outcome[o] = "duplicate"
      BY DEF Stands, Accepted
  <2>2. PICK e \in Occs : /\ e # o /\ TypeOf[e] = TypeOf[o] /\ IPOf[e] = IPOf[o]
                          /\ outcome[e] \in Accepted
      BY <2>1 DEF SuppressedHasTwin
  <2> QED
      BY <2>2 DEF Stands
<1> QED
    BY <1>1, <1>2

(* The event taken off the payload had no verdict, and the others keep     *)
(* theirs.                                                                 *)
LEMMA VerdictJudges ==
    ASSUME IInv, JInv, NEW r \in Requests, NEW o \in Occs, o \in todo[r],
           pc[r] = "loop", NEW result \in Outcomes,
           outcome' = [outcome EXCEPT ![o] = result]
    PROVE  /\ outcome[o] = "none" /\ outcome'[o] = result
           /\ \A e \in Occs : e # o => outcome'[e] = outcome[e]
           /\ \A e \in Occs : outcome[e] \in Accepted => e # o
BY DEF IInv, TypeOK, JInv, Judged, Ahead, Accepted

LEMMA VerdictTwins ==
    ASSUME IInv, JInv, NEW r \in Requests, NEW o \in Occs,
           \/ SkipUnknown(r, o) \/ SkipFiltered(r, o)
           \/ SkipDuplicate(r, o) \/ Admit(r, o)
    PROVE  (HotIsAccepted /\ SuppressedHasTwin)'
<1>1. o \in todo[r] /\ pc[r] = "loop"
    BY DEF SkipUnknown, SkipFiltered, SkipDuplicate, Drop, Admit
<1>2. ASSUME NEW result \in {"unknown", "filtered", "duplicate", "accepted"},
             outcome' = [outcome EXCEPT ![o] = result]
      PROVE  /\ outcome[o] = "none" /\ outcome'[o] = result
             /\ \A e \in Occs : e # o => outcome'[e] = outcome[e]
             /\ \A e \in Occs : outcome[e] \in Accepted => e # o
  <2>1. result \in Outcomes
      BY DEF Outcomes, Accepted
  <2> QED
      BY <1>1, <1>2, <2>1, VerdictJudges
<1>3. CASE SkipUnknown(r, o) \/ SkipFiltered(r, o)
  <2>1. PICK result \in {"unknown", "filtered"} :
            outcome' = [outcome EXCEPT ![o] = result] /\ hot' = hot
      BY <1>3 DEF SkipUnknown, SkipFiltered, Drop, envVars
  <2>2. HotIsAccepted'
      BY <1>2, <2>1 DEF JInv, HotIsAccepted, KeyOf
  <2>3. SuppressedHasTwin'
      BY <1>2, <2>1 DEF JInv, SuppressedHasTwin
  <2> QED
      BY <2>2, <2>3
<1>4. CASE SkipDuplicate(r, o)
  <2>1. outcome' = [outcome EXCEPT ![o] = "duplicate"] /\ hot' = hot
      BY <1>4 DEF SkipDuplicate, Drop, envVars
  <2>2. HotIsAccepted'
      BY <1>2, <2>1 DEF JInv, HotIsAccepted, KeyOf
  <2>3. PICK e \in Occs : KeyOf(e) = KeyOf(o) /\ outcome[e] \in Accepted
      BY <1>4 DEF SkipDuplicate, JInv, HotIsAccepted
  <2>4. TypeOf[e] = TypeOf[o] /\ IPOf[e] = IPOf[o] /\ e # o /\ outcome'[e] \in Accepted
      BY <1>2, <2>1, <2>3 DEF KeyOf
  <2>5. SuppressedHasTwin'
      BY <1>2, <2>1, <2>4 DEF JInv, SuppressedHasTwin
  <2> QED
      BY <2>2, <2>5
<1>5. CASE Admit(r, o)
  <2>1. /\ outcome' = [outcome EXCEPT ![o] = "accepted"]
        /\ hot' \subseteq hot \cup {KeyOf(o)}
      BY <1>5 DEF Admit
  <2>2. outcome'[o] \in Accepted
      BY <1>2, <2>1 DEF Accepted
  <2>3. HotIsAccepted'
      BY <1>2, <2>1, <2>2 DEF JInv, HotIsAccepted, KeyOf
  <2>4. SuppressedHasTwin'
      BY <1>2, <2>1 DEF JInv, SuppressedHasTwin, Accepted
  <2> QED
      BY <2>3, <2>4
<1> QED
    BY <1>3, <1>4, <1>5

LEMMA LookupStands ==
    ASSUME IInv, JInv, NEW r \in Requests,
           LookupFails(r) \/ FindNobody(r) \/ GetSubscribers(r)
    PROVE  Stands
<1>1. pc[r] \in Busy /\ cur[r] \in Occs /\ outcome[cur[r]] \in Accepted /\ hot' = hot
    BY DEF LookupFails, FindNobody, GetSubscribers, Busy, IInv, TypeOK, JInv, Judged,
           envVars
<1>2. PICK result \in Accepted : outcome' = [outcome EXCEPT ![cur[r]] = result]
    BY DEF LookupFails, FindNobody, GetSubscribers, Accepted
<1> QED
    BY <1>1, <1>2 DEF Stands, IInv, TypeOK

LEMMA OthersStand ==
    ASSUME \/ \E r \in Requests :
                 \/ Receive(r) \/ Respond(r) \/ Disconnect(r)
                 \/ StoreEvent(r) \/ StoreBlockedIP(r) \/ EnqueueGrouped(r)
                 \/ \E u \in Users : SendEvent(r, u)
           \/ \E t \in Types : TimerFires(t)
           \/ Flush
           \/ \E v \in Users, t \in Types : Subscribe(v, t) \/ Unsubscribe(v, t)
           \/ CoolDown \/ QuietEdge \/ Restart \/ UNCHANGED vars
    PROVE  outcome' = outcome /\ hot' \subseteq hot
BY DEF Receive, Respond, Disconnect, StoreEvent, StoreBlockedIP, EnqueueGrouped,
       SendEvent, TimerFires, Flush, SendGrouped, Subscribe, Unsubscribe, CoolDown,
       QuietEdge, Restart, envVars, vars

(* Steps that leave the verdicts alone, or move an accepted event on.      *)
LEMMA StandsJudged ==
    ASSUME IInv, JInv, [Next]_vars, Stands,
           \A s \in Requests : pc'[s] \in Busy => pc[s] \in Busy /\ cur'[s] = cur[s]
    PROVE  Judged'
<1>1. ASSUME NEW s \in Requests, NEW o \in Ahead(s)' PROVE outcome'[o] = "none"
  <2>1. o \in Ahead(s) /\ o \in Occs
      BY <1>1, AheadShrinks, PayloadFacts DEF IInv, RequestShape
  <2>2. outcome[o] = "none"
      BY <2>1 DEF JInv, Judged
  <2> QED
      BY <2>1, <2>2 DEF Stands, Accepted
<1>2. ASSUME NEW s \in Requests, pc'[s] \in Busy PROVE outcome'[cur'[s]] \in Accepted
  <2>1. pc[s] \in Busy /\ cur'[s] = cur[s] /\ cur[s] \in Occs
      BY <1>2, RequestsApart
  <2>2. outcome[cur[s]] \in Accepted
      BY <2>1 DEF JInv, Judged
  <2> QED
      BY <2>1, <2>2 DEF Stands
<1> QED
    BY <1>1, <1>2 DEF Judged

LEMMA KeepsWork ==
    ASSUME IInv,
           \/ \E r \in Requests :
                 \/ Receive(r) \/ Respond(r) \/ Disconnect(r)
                 \/ StoreEvent(r) \/ StoreBlockedIP(r)
                 \/ LookupFails(r) \/ FindNobody(r) \/ GetSubscribers(r)
                 \/ EnqueueGrouped(r)
                 \/ \E u \in Users : SendEvent(r, u)
           \/ \E t \in Types : TimerFires(t)
           \/ Flush
           \/ \E v \in Users, t \in Types : Subscribe(v, t) \/ Unsubscribe(v, t)
           \/ CoolDown \/ QuietEdge \/ Restart \/ UNCHANGED vars,
           NEW s \in Requests, pc'[s] \in Busy
    PROVE  pc[s] \in Busy /\ cur'[s] = cur[s]
<1>1. ASSUME NEW r \in Requests, Receive(r) \/ Respond(r) \/ Disconnect(r)
      PROVE  pc[s] \in Busy /\ cur'[s] = cur[s]
    BY <1>1 DEF IInv, TypeOK, Receive, Respond, Disconnect, Busy
<1>2. ASSUME NEW r \in Requests, StoreEvent(r) \/ StoreBlockedIP(r)
      PROVE  pc[s] \in Busy /\ cur'[s] = cur[s]
    BY <1>2 DEF IInv, TypeOK, StoreEvent, StoreBlockedIP, Busy
<1>3. ASSUME NEW r \in Requests, LookupFails(r) \/ FindNobody(r) \/ EnqueueGrouped(r)
      PROVE  pc[s] \in Busy /\ cur'[s] = cur[s]
    BY <1>3 DEF IInv, TypeOK, LookupFails, FindNobody, EnqueueGrouped, BackToLoop, Busy
<1>4. ASSUME NEW r \in Requests, GetSubscribers(r)
      PROVE  pc[s] \in Busy /\ cur'[s] = cur[s]
    BY <1>4 DEF IInv, TypeOK, GetSubscribers, Busy
<1>5. ASSUME NEW r \in Requests, NEW u \in Users, SendEvent(r, u)
      PROVE  pc[s] \in Busy /\ cur'[s] = cur[s]
    BY <1>5 DEF IInv, TypeOK, SendEvent, BackToLoop, Busy
<1>6. CASE \/ Flush \/ \E t \in Types : TimerFires(t)
           \/ \E v \in Users, t \in Types : Subscribe(v, t) \/ Unsubscribe(v, t)
           \/ CoolDown \/ QuietEdge \/ UNCHANGED vars
    BY <1>6 DEF Flush, SendGrouped, TimerFires, Subscribe, Unsubscribe,
                CoolDown, QuietEdge, reqVars, vars
<1>7. CASE Restart
    BY <1>7 DEF IInv, TypeOK, Restart, Busy
<1> QED
    BY <1>1, <1>2, <1>3, <1>4, <1>5, <1>6, <1>7

LEMMA VerdictJudged ==
    ASSUME IInv, JInv, [Next]_vars, NEW r \in Requests, NEW o \in Occs,
           \/ SkipUnknown(r, o) \/ SkipFiltered(r, o)
           \/ SkipDuplicate(r, o) \/ Admit(r, o)
    PROVE  Judged'
<1>1. /\ o \in todo[r] /\ pc[r] = "loop" /\ o \notin Ahead(r)'
      /\ \A s \in Requests : o \notin Ahead(s)'
  <2>1. o \in todo[r] /\ pc[r] = "loop" /\ o \notin Ahead(r)'
      BY DEF SkipUnknown, SkipFiltered, SkipDuplicate, Drop, Admit, Ahead, IInv, TypeOK
  <2>2. ASSUME NEW s \in Requests, s # r PROVE o \notin Ahead(s)
      BY <2>1, <2>2, PayloadFacts DEF IInv, RequestShape, Ahead
  <2> QED
      BY <2>1, <2>2, AheadShrinks
<1>2. /\ \A e \in Occs : e # o => outcome'[e] = outcome[e]
      /\ \A e \in Occs : outcome[e] \in Accepted => e # o
  <2>1. PICK result \in {"unknown", "filtered", "duplicate", "accepted"} :
            outcome' = [outcome EXCEPT ![o] = result]
      BY DEF SkipUnknown, SkipFiltered, SkipDuplicate, Drop, Admit
  <2>2. result \in Outcomes
      BY DEF Outcomes, Accepted
  <2> QED
      BY <1>1, <2>1, <2>2, VerdictJudges
<1>3. ASSUME NEW s \in Requests, NEW e \in Ahead(s)' PROVE outcome'[e] = "none"
  <2>1. e \in Ahead(s) /\ e \in Occs /\ e # o
      BY <1>1, <1>3, AheadShrinks, PayloadFacts DEF IInv, RequestShape
  <2> QED
      BY <1>2, <2>1 DEF JInv, Judged
<1>4. ASSUME NEW s \in Requests, pc'[s] \in Busy PROVE outcome'[cur'[s]] \in Accepted
  <2>1. CASE pc[s] \in Busy /\ cur'[s] = cur[s]
    <3>1. cur[s] \in Occs /\ outcome[cur[s]] \in Accepted
        BY <2>1, RequestsApart DEF JInv, Judged
    <3> QED
        BY <1>2, <2>1, <3>1
  <2>2. CASE ~(pc[s] \in Busy /\ cur'[s] = cur[s])
    <3>1. CASE Admit(r, o)
      <4>1. s = r /\ cur'[s] = o /\ outcome'[o] = "accepted"
          BY <1>4, <2>2, <3>1 DEF Admit, IInv, TypeOK
      <4> QED
          BY <4>1 DEF Accepted
    <3>2. CASE SkipUnknown(r, o) \/ SkipFiltered(r, o) \/ SkipDuplicate(r, o)
        BY <1>4, <2>2, <3>2 DEF SkipUnknown, SkipFiltered, SkipDuplicate, Drop
    <3> QED
        BY <3>1, <3>2
  <2> QED
      BY <2>1, <2>2
<1> QED
    BY <1>3, <1>4 DEF Judged

LEMMA InitJInv == Init => JInv
<1> SUFFICES ASSUME Init PROVE JInv
    OBVIOUS
<1>1. Judged
  <2>1. ASSUME NEW s \in Requests, NEW o \in Ahead(s) PROVE outcome[o] = "none"
    <3>1. o \in Occs
        BY <2>1, PayloadFacts DEF Init, Ahead
    <3> QED
        BY <3>1 DEF Init
  <2> QED
      BY <2>1 DEF Init, Judged, Busy
<1>2. HotIsAccepted /\ SuppressedHasTwin
    BY DEF Init, HotIsAccepted, SuppressedHasTwin
<1> QED
    BY <1>1, <1>2 DEF JInv

LEMMA NextJInv == IInv /\ JInv /\ [Next]_vars => JInv'
<1> SUFFICES ASSUME IInv, JInv, [Next]_vars PROVE JInv'
    OBVIOUS
<1>1. ASSUME NEW r \in Requests, NEW o \in Occs,
             \/ SkipUnknown(r, o) \/ SkipFiltered(r, o)
             \/ SkipDuplicate(r, o) \/ Admit(r, o)
      PROVE  JInv'
    BY <1>1, VerdictTwins, VerdictJudged DEF JInv
<1>2. ASSUME NEW r \in Requests, LookupFails(r) \/ FindNobody(r) \/ GetSubscribers(r)
      PROVE  JInv'
  <2>1. Stands
      BY <1>2, LookupStands
  <2>2. \A s \in Requests : pc'[s] \in Busy => pc[s] \in Busy /\ cur'[s] = cur[s]
      BY <1>2, KeepsWork
  <2>3. Judged' /\ HotIsAccepted' /\ SuppressedHasTwin'
      BY <2>1, <2>2, StandsJudged, StandsTwins DEF IInv, JInv
  <2> QED
      BY <2>3 DEF JInv
<1>3. CASE \/ \E r \in Requests :
                 \/ Receive(r) \/ Respond(r) \/ Disconnect(r)
                 \/ StoreEvent(r) \/ StoreBlockedIP(r) \/ EnqueueGrouped(r)
                 \/ \E u \in Users : SendEvent(r, u)
           \/ \E t \in Types : TimerFires(t)
           \/ Flush
           \/ \E v \in Users, t \in Types : Subscribe(v, t) \/ Unsubscribe(v, t)
           \/ CoolDown \/ QuietEdge \/ Restart \/ UNCHANGED vars
  <2>1. Stands
      BY <1>3, OthersStand DEF Stands
  <2>2. \A s \in Requests : pc'[s] \in Busy => pc[s] \in Busy /\ cur'[s] = cur[s]
      BY <1>3, KeepsWork
  <2>3. Judged' /\ HotIsAccepted' /\ SuppressedHasTwin'
      BY <2>1, <2>2, StandsJudged, StandsTwins DEF IInv, JInv
  <2> QED
      BY <2>3 DEF JInv
<1> QED
    BY <1>1, <1>2, <1>3 DEF Next, ProcessEvent

(* Whatever the interleaving of requests, an event is only refused as a    *)
(* duplicate when another event with its type and IP was let through       *)
(* (service.go:106-118).                                                   *)
THEOREM DuplicatesHaveTwins == Spec => []SuppressedHasTwin
<1>1. JInv => SuppressedHasTwin
    BY DEF JInv
<1> QED
    BY <1>1, InitJInv, NextJInv, Invariance, PTL DEF Spec
-----------------------------------------------------------------------------
(* Only subscribers are written to.                                        *)

(* Some lookup for type t returned u.                                      *)
FoundFor(u, t) == \E e \in Occs : TypeOf[e] = t /\ u \in audience[e]

Entitled(o, u) == IF grouping THEN FoundFor(u, TypeOf[o]) ELSE u \in audience[o]

(* Whether there are batches at all is decided by the setting.             *)
Paths ==
    /\ grouping => \A r \in Requests : pc[r] # "send"
    /\ ~grouping => /\ flushing = {}
                    /\ \A t \in Types : buffers[t] = NoBuffer
                    /\ \A r \in Requests : pc[r] # "enqueue"

(* An event has no audience before it is looked up.                        *)
Unlooked ==
    \A r \in Requests :
        /\ \A o \in Ahead(r) : audience[o] = {}
        /\ pc[r] \in {"store", "block", "lookup"} => audience[cur[r]] = {}

RecipientsFound == \A r \in Requests : \A u \in rcpt[r] : u \in audience[cur[r]]

BufferedFound == \A t \in Types : \A u \in buffers[t].users : FoundFor(u, t)

BatchesFound ==
    \A b \in flushing : \A o \in b.events : \A u \in b.users : FoundFor(u, TypeOf[o])

CopiesEntitled == \A o \in Occs, u \in Users : copies[<<o, u>>] > 0 => Entitled(o, u)

Found == RecipientsFound /\ BufferedFound /\ BatchesFound /\ CopiesEntitled

AInv == Paths /\ Unlooked /\ Found

LEMMA FoundIsEnough == IInv /\ AInv => NoStrangers
<1> SUFFICES ASSUME IInv, AInv, NEW o \in Occs, NEW u \in Users,
                    copies[<<o, u>>] > 0 \/ Due(o, u)
             PROVE  Entitled(o, u)
    BY DEF NoStrangers, Entitled, FoundFor
<1>1. CASE copies[<<o, u>>] > 0
    BY <1>1 DEF AInv, Found, CopiesEntitled
<1>2. ASSUME NEW r \in Requests, cur[r] = o, u \in rcpt[r]
      PROVE  Entitled(o, u)
    BY <1>2 DEF AInv, Found, RecipientsFound, Entitled, FoundFor
<1>3. ASSUME NEW t \in Types, o \in buffers[t].events, u \in buffers[t].users
      PROVE  Entitled(o, u)
  <2>1. grouping /\ TypeOf[o] = t /\ FoundFor(u, t)
      BY <1>3 DEF AInv, Paths, NoBuffer, IInv, TypeOK, Fresh, BufferedIsFresh, Found,
                  BufferedFound
  <2> QED
      BY <2>1 DEF Entitled
<1>4. ASSUME NEW b \in flushing, o \in b.events, u \in b.users
      PROVE  Entitled(o, u)
  <2>1. grouping /\ FoundFor(u, TypeOf[o])
      BY <1>4 DEF AInv, Paths, IInv, TypeOK, Found, BatchesFound
  <2> QED
      BY <2>1 DEF Entitled
<1> QED
    BY <1>1, <1>2, <1>3, <1>4 DEF Due

LEMMA InitAInv == Init => AInv
<1> SUFFICES ASSUME Init PROVE AInv
    OBVIOUS
<1>1. Paths
    BY DEF Init, Paths
<1>2. Unlooked
  <2>1. ASSUME NEW s \in Requests, NEW o \in Ahead(s) PROVE audience[o] = {}
    <3>1. o \in Occs
        BY <2>1, PayloadFacts DEF Init, Ahead
    <3> QED
        BY <3>1 DEF Init
  <2> QED
      BY <2>1 DEF Init, Unlooked
<1>3. Found
    BY DEF Init, Found, RecipientsFound, BufferedFound, BatchesFound, CopiesEntitled,
           NoBuffer, Pairs
<1> QED
    BY <1>1, <1>2, <1>3 DEF AInv

-----------------------------------------------------------------------------
(* No audience shrinks, so whoever was entitled to an event stays so.      *)

Widens ==
    /\ grouping' = grouping
    /\ \A o \in Occs : audience[o] \subseteq audience'[o]

LEMMA StaysFound ==
    ASSUME Widens, NEW u
    PROVE  /\ \A t : FoundFor(u, t) => FoundFor(u, t)'
           /\ \A o \in Occs : Entitled(o, u) => Entitled(o, u)'
BY DEF Widens, FoundFor, Entitled

(* Every step that is not a lookup leaves the audiences alone.             *)
LEMMA AudienceKept ==
    ASSUME [Next]_vars, \A r \in Requests : ~GetSubscribers(r)
    PROVE  audience' = audience
<1>1. ASSUME NEW r \in Requests, Receive(r) \/ Respond(r) \/ Disconnect(r)
      PROVE  audience' = audience
    BY <1>1 DEF Receive, Respond, Disconnect
<1>2. ASSUME NEW r \in Requests, ProcessEvent(r)
      PROVE  audience' = audience
    BY <1>2 DEF ProcessEvent, SkipUnknown, SkipFiltered, SkipDuplicate, Drop, Admit,
                StoreEvent, StoreBlockedIP, LookupFails, FindNobody, SendEvent,
                EnqueueGrouped
<1>3. CASE Flush \/ \E t \in Types : TimerFires(t)
    BY <1>3 DEF Flush, SendGrouped, TimerFires
<1>4. CASE \/ \E v \in Users, t \in Types : Subscribe(v, t) \/ Unsubscribe(v, t)
           \/ CoolDown \/ QuietEdge
    BY <1>4 DEF Subscribe, Unsubscribe, CoolDown, QuietEdge
<1>5. CASE Restart \/ UNCHANGED vars
    BY <1>5 DEF Restart, vars
<1> QED
    BY <1>1, <1>2, <1>3, <1>4, <1>5 DEF Next

LEMMA GroupingKept ==
    ASSUME [Next]_vars
    PROVE  grouping' = grouping
<1>1. ASSUME NEW r \in Requests, Receive(r) \/ Respond(r) \/ Disconnect(r)
      PROVE  grouping' = grouping
    BY <1>1 DEF Receive, Respond, Disconnect, envVars
<1>2. ASSUME NEW r \in Requests, ProcessEvent(r)
      PROVE  grouping' = grouping
    BY <1>2 DEF ProcessEvent, SkipUnknown, SkipFiltered, SkipDuplicate, Drop, Admit,
                StoreEvent, StoreBlockedIP, LookupFails, FindNobody, GetSubscribers,
                SendEvent, EnqueueGrouped, envVars
<1>3. CASE Flush \/ \E t \in Types : TimerFires(t)
    BY <1>3 DEF Flush, SendGrouped, TimerFires, envVars
<1>4. CASE \/ \E v \in Users, t \in Types : Subscribe(v, t) \/ Unsubscribe(v, t)
           \/ CoolDown \/ QuietEdge
    BY <1>4 DEF Subscribe, Unsubscribe, CoolDown, QuietEdge, envVars
<1>5. CASE Restart \/ UNCHANGED vars
    BY <1>5 DEF Restart, vars, envVars
<1> QED
    BY <1>1, <1>2, <1>3, <1>4, <1>5 DEF Next

(* A lookup is the only step that gives an event its audience.             *)
LEMMA LookupWidens ==
    ASSUME IInv, AInv, [Next]_vars, NEW r \in Requests, GetSubscribers(r)
    PROVE  /\ Widens
           /\ \A e \in Occs : e # cur[r] => audience'[e] = audience[e]
           /\ audience'[cur[r]] = rcpt'[r]
<1>1. audience[cur[r]] = {} /\ cur[r] \in Occs
    BY RequestsApart DEF GetSubscribers, AInv, Unlooked, Busy
<1>2. /\ audience' = [audience EXCEPT ![cur[r]] = Subscribers(TypeOf[cur[r]])]
      /\ rcpt' = [rcpt EXCEPT ![r] = Subscribers(TypeOf[cur[r]])]
    BY DEF GetSubscribers, Subscribers
<1> QED
    BY <1>1, <1>2, GroupingKept DEF Widens, IInv, TypeOK

LEMMA EveryStepWidens ==
    ASSUME IInv, AInv, [Next]_vars
    PROVE  Widens
<1>1. CASE \E r \in Requests : GetSubscribers(r)
    BY <1>1, LookupWidens
<1>2. CASE \A r \in Requests : ~GetSubscribers(r)
    BY <1>2, AudienceKept, GroupingKept DEF Widens
<1> QED
    BY <1>1, <1>2
-----------------------------------------------------------------------------
(* The parts of AInv, step by step.                                        *)

Early == {"store", "block", "lookup"}

(* An event that is not looked up yet was so before, or was ahead.         *)
LEMMA EarlyWork ==
    ASSUME IInv, [Next]_vars, NEW s \in Requests, pc'[s] \in Early
    PROVE  \/ pc[s] \in Early /\ cur'[s] = cur[s]
           \/ cur'[s] \in Ahead(s)
<1>1. ASSUME NEW r \in Requests, NEW o \in Occs, Admit(r, o)
      PROVE  \/ pc[s] \in Early /\ cur'[s] = cur[s]
             \/ cur'[s] \in Ahead(s)
    BY <1>1 DEF IInv, TypeOK, Admit, Ahead
<1>2. ASSUME NEW r \in Requests, NEW o \in Occs,
             SkipUnknown(r, o) \/ SkipFiltered(r, o) \/ SkipDuplicate(r, o)
      PROVE  pc[s] \in Early /\ cur'[s] = cur[s]
    BY <1>2 DEF SkipUnknown, SkipFiltered, SkipDuplicate, Drop
<1>3. CASE \/ \E r \in Requests :
                 \/ Receive(r) \/ Respond(r) \/ Disconnect(r)
                 \/ StoreEvent(r) \/ StoreBlockedIP(r)
                 \/ LookupFails(r) \/ FindNobody(r) \/ GetSubscribers(r)
                 \/ EnqueueGrouped(r)
                 \/ \E u \in Users : SendEvent(r, u)
           \/ \E t \in Types : TimerFires(t)
           \/ Flush
           \/ \E v \in Users, t \in Types : Subscribe(v, t) \/ Unsubscribe(v, t)
           \/ CoolDown \/ QuietEdge \/ Restart \/ UNCHANGED vars
  <2>1. pc[s] \in Busy /\ cur'[s] = cur[s]
      BY <1>3, KeepsWork DEF Early, Busy
  <2>2. pc[s] \notin {"send", "enqueue"}
    <3>1. ASSUME NEW r \in Requests, pc[s] \in {"send", "enqueue"},
                 \/ Receive(r) \/ Respond(r) \/ Disconnect(r)
                 \/ StoreEvent(r) \/ StoreBlockedIP(r)
                 \/ LookupFails(r) \/ FindNobody(r) \/ GetSubscribers(r)
                 \/ EnqueueGrouped(r)
          PROVE  FALSE
        BY <3>1 DEF Receive, Respond, Disconnect, StoreEvent, StoreBlockedIP,
                    LookupFails, FindNobody, GetSubscribers, EnqueueGrouped,
                    BackToLoop, Early, IInv, TypeOK
    <3>2. ASSUME NEW r \in Requests, NEW u \in Users, SendEvent(r, u),
                 pc[s] \in {"send", "enqueue"}
          PROVE  FALSE
        BY <3>2 DEF SendEvent, BackToLoop, Early, IInv, TypeOK
    <3>3. CASE \/ Flush \/ \E t \in Types : TimerFires(t)
               \/ \E v \in Users, t \in Types : Subscribe(v, t) \/ Unsubscribe(v, t)
               \/ CoolDown \/ QuietEdge \/ UNCHANGED vars
        BY <3>3 DEF Flush, SendGrouped, TimerFires, Subscribe, Unsubscribe,
                    CoolDown, QuietEdge, reqVars, vars, Early
    <3>4. CASE Restart
        BY <3>4 DEF Restart, Early, IInv, TypeOK
    <3> QED
        BY <1>3, <3>1, <3>2, <3>3, <3>4
  <2> QED
      BY <2>1, <2>2 DEF Early, Busy
<1> QED
    BY <1>1, <1>2, <1>3 DEF Next, ProcessEvent

LEMMA NextUnlooked ==
    ASSUME IInv, AInv, [Next]_vars
    PROVE  Unlooked'
<1>1. ASSUME NEW e \in Occs, audience'[e] # audience[e]
      PROVE  \E r \in Requests : GetSubscribers(r) /\ e = cur[r]
    BY <1>1, AudienceKept, LookupWidens
<1>2. ASSUME NEW r \in Requests, GetSubscribers(r)
      PROVE  pc[r] \in Busy /\ pc'[r] \notin Early
    BY <1>2 DEF GetSubscribers, Busy, Early, IInv, TypeOK
<1>3. ASSUME NEW s \in Requests, NEW o \in Ahead(s)' PROVE audience'[o] = {}
  <2>1. o \in Ahead(s) /\ o \in Occs
      BY <1>3, AheadShrinks, PayloadFacts DEF IInv, RequestShape
  <2>2. audience[o] = {}
      BY <2>1 DEF AInv, Unlooked
  <2> QED
      BY <1>1, <1>2, <2>1, <2>2, RequestsApart
<1>4. ASSUME NEW s \in Requests, pc'[s] \in Early PROVE audience'[cur'[s]] = {}
  <2>1. CASE pc[s] \in Early /\ cur'[s] = cur[s]
    <3>1. pc[s] \in Busy /\ cur[s] \in Occs /\ audience[cur[s]] = {}
        BY <2>1, RequestsApart DEF AInv, Unlooked, Early, Busy
    <3>2. \A r \in Requests : GetSubscribers(r) => cur[r] # cur[s]
        BY <1>2, <1>4, <3>1, RequestsApart
    <3> QED
        BY <1>1, <2>1, <3>1, <3>2
  <2>2. CASE cur'[s] \in Ahead(s)
    <3>1. cur'[s] \in Occs /\ audience[cur'[s]] = {}
        BY <2>2, PayloadFacts DEF AInv, Unlooked, IInv, RequestShape
    <3> QED
        BY <1>1, <1>2, <2>2, <3>1, RequestsApart
  <2> QED
      BY <1>4, <2>1, <2>2, EarlyWork
<1> QED
    BY <1>3, <1>4 DEF Unlooked, Early

LEMMA NextPaths ==
    ASSUME IInv, AInv, [Next]_vars
    PROVE  Paths'
<1>0. grouping' = grouping /\ Paths
    BY GroupingKept DEF AInv
<1>1. ASSUME NEW r \in Requests, Receive(r) \/ Respond(r) \/ Disconnect(r)
      PROVE  Paths'
    BY <1>0, <1>1 DEF IInv, TypeOK, Paths, Receive, Respond, Disconnect, bufVars
<1>2. ASSUME NEW r \in Requests, NEW o \in Occs,
             \/ SkipUnknown(r, o) \/ SkipFiltered(r, o)
             \/ SkipDuplicate(r, o) \/ Admit(r, o)
      PROVE  Paths'
    BY <1>0, <1>2 DEF IInv, TypeOK, Paths, SkipUnknown, SkipFiltered, SkipDuplicate,
                      Drop, Admit, bufVars
<1>3. ASSUME NEW r \in Requests,
             \/ StoreEvent(r) \/ StoreBlockedIP(r) \/ LookupFails(r)
             \/ FindNobody(r) \/ GetSubscribers(r)
      PROVE  Paths'
    BY <1>0, <1>3 DEF IInv, TypeOK, Paths, StoreEvent, StoreBlockedIP, LookupFails,
                      FindNobody, GetSubscribers, BackToLoop, bufVars
<1>4. ASSUME NEW r \in Requests, EnqueueGrouped(r)
      PROVE  Paths'
    BY <1>0, <1>4 DEF IInv, TypeOK, Paths, EnqueueGrouped, BackToLoop
<1>5. ASSUME NEW r \in Requests, NEW u \in Users, SendEvent(r, u)
      PROVE  Paths'
    BY <1>0, <1>5 DEF IInv, TypeOK, Paths, SendEvent, BackToLoop, bufVars
<1>6. ASSUME NEW t \in Types, TimerFires(t)
      PROVE  Paths'
  <2>1. /\ UNCHANGED pc
        /\ \A c \in Types : buffers'[c] = IF c = t THEN NoBuffer ELSE buffers[c]
      BY <1>6 DEF TimerFires, reqVars, IInv, TypeOK
  <2>2. ~grouping => flushing' = flushing
      BY <1>0, <1>6 DEF Paths, TimerFires, NoBuffer
  <2> QED
      BY <1>0, <2>1, <2>2 DEF Paths
<1>7. CASE Flush
    BY <1>0, <1>7 DEF Paths, Flush, SendGrouped, reqVars
<1>8. CASE \/ \E v \in Users, t \in Types : Subscribe(v, t) \/ Unsubscribe(v, t)
           \/ CoolDown \/ QuietEdge \/ UNCHANGED vars
    BY <1>0, <1>8 DEF Paths, Subscribe, Unsubscribe, CoolDown, QuietEdge, vars,
                      reqVars, bufVars
<1>9. CASE Restart
    BY <1>0, <1>9 DEF IInv, TypeOK, Paths, Restart
<1> QED
    BY <1>1, <1>2, <1>3, <1>4, <1>5, <1>6, <1>7, <1>8, <1>9 DEF Next, ProcessEvent

(* Steps that add no copy and hand no recipient to a buffer or a batch.    *)
LEMMA FoundKept ==
    ASSUME IInv, AInv, Widens, UNCHANGED <<buffers, flushing, copies>>,
           \A s \in Requests : \A u \in rcpt'[s] :
               \/ u \in rcpt[s] /\ cur'[s] = cur[s]
               \/ u \in audience'[cur'[s]]
    PROVE  Found'
<1>1. RecipientsFound'
  <2> SUFFICES ASSUME NEW s \in Requests, NEW u \in rcpt'[s], u \in rcpt[s],
                      cur'[s] = cur[s]
               PROVE  u \in audience'[cur'[s]]
      BY DEF RecipientsFound
  <2>1. pc[s] \in Busy /\ cur[s] \in Occs /\ u \in audience[cur[s]]
      BY RequestsApart DEF AInv, Found, RecipientsFound, IInv, RequestShape, Busy
  <2> QED
      BY <2>1 DEF Widens
<1>2. BufferedFound'
    BY StaysFound DEF AInv, Found, BufferedFound
<1>3. BatchesFound'
    BY StaysFound DEF AInv, Found, BatchesFound
<1>4. CopiesEntitled'
    BY StaysFound DEF AInv, Found, CopiesEntitled
<1> QED
    BY <1>1, <1>2, <1>3, <1>4 DEF Found

LEMMA RequestFound ==
    ASSUME IInv, AInv, Widens, NEW r \in Requests,
           \/ Receive(r) \/ Respond(r) \/ Disconnect(r)
           \/ StoreEvent(r) \/ StoreBlockedIP(r) \/ LookupFails(r) \/ FindNobody(r)
           \/ \E o \in Occs : \/ SkipUnknown(r, o) \/ SkipFiltered(r, o)
                              \/ SkipDuplicate(r, o) \/ Admit(r, o)
    PROVE  Found'
<1>1. UNCHANGED <<buffers, flushing, copies, rcpt>>
    BY DEF Receive, Respond, Disconnect, StoreEvent, StoreBlockedIP, LookupFails,
           FindNobody, SkipUnknown, SkipFiltered, SkipDuplicate, Drop, Admit,
           bufVars, ledgerVars
<1>2. ASSUME NEW s \in Requests, NEW u \in rcpt[s] PROVE cur'[s] = cur[s]
  <2>1. pc[s] \in {"send", "enqueue"}
      BY <1>2 DEF IInv, RequestShape
  <2> QED
      BY <2>1 DEF Receive, Respond, Disconnect, StoreEvent, StoreBlockedIP,
                  LookupFails, FindNobody, SkipUnknown, SkipFiltered, SkipDuplicate,
                  Drop, Admit, BackToLoop, IInv, TypeOK
<1> QED
    BY <1>1, <1>2, FoundKept

LEMMA LookupFound ==
    ASSUME IInv, AInv, [Next]_vars, NEW r \in Requests, GetSubscribers(r)
    PROVE  Found'
<1>1. /\ UNCHANGED <<buffers, flushing, copies, cur>>
      /\ \A s \in Requests : s # r => rcpt'[s] = rcpt[s]
    BY DEF GetSubscribers, bufVars, ledgerVars, IInv, TypeOK
<1>2. Widens /\ audience'[cur[r]] = rcpt'[r]
    BY LookupWidens
<1> QED
    BY <1>1, <1>2, FoundKept

LEMMA EnqueueFound ==
    ASSUME IInv, AInv, Widens, NEW r \in Requests, EnqueueGrouped(r)
    PROVE  Found'
<1>0. PICK o : o = cur[r]
    OBVIOUS
<1>1. PICK t \in Types : t = TypeOf[o] /\ o \in Occs
    BY <1>0 DEF EnqueueGrouped, IInv, TypeOK, Busy
<1>2. /\ UNCHANGED <<flushing, copies>>
      /\ rcpt' = [rcpt EXCEPT ![r] = {}] /\ cur' = [cur EXCEPT ![r] = NoOcc]
      /\ \A c \in Types : buffers'[c].users = IF c = t THEN buffers[c].users \cup rcpt[r]
                                                     ELSE buffers[c].users
    BY <1>0, <1>1 DEF EnqueueGrouped, BackToLoop, Extended, ledgerVars, IInv, TypeOK
<1>3. RecipientsFound'
  <2> SUFFICES ASSUME NEW s \in Requests, NEW u \in rcpt'[s]
               PROVE  u \in audience'[cur'[s]]
      BY DEF RecipientsFound
  <2>1. u \in rcpt[s] /\ cur'[s] = cur[s]
      BY <1>2 DEF IInv, TypeOK
  <2>2. pc[s] \in Busy /\ cur[s] \in Occs /\ u \in audience[cur[s]]
      BY <2>1, RequestsApart DEF AInv, Found, RecipientsFound, IInv, RequestShape, Busy
  <2> QED
      BY <2>1, <2>2 DEF Widens
<1>4. BufferedFound'
  <2> SUFFICES ASSUME NEW c \in Types, NEW u, u \in buffers'[c].users
               PROVE  FoundFor(u, c)'
      BY DEF BufferedFound
  <2>1. CASE u \in buffers[c].users
      BY <2>1, StaysFound DEF AInv, Found, BufferedFound
  <2>2. CASE c = t /\ u \in rcpt[r]
    <3>1. FoundFor(u, t)
        BY <1>0, <1>1, <2>2 DEF AInv, Found, RecipientsFound, FoundFor
    <3> QED
        BY <2>2, <3>1, StaysFound
  <2> QED
      BY <1>2, <2>1, <2>2
<1>5. BatchesFound'
    BY <1>2, StaysFound DEF AInv, Found, BatchesFound
<1>6. CopiesEntitled'
    BY <1>2, StaysFound DEF AInv, Found, CopiesEntitled
<1> QED
    BY <1>3, <1>4, <1>5, <1>6 DEF Found

LEMMA SendFound ==
    ASSUME IInv, AInv, Widens, NEW r \in Requests, NEW u \in Users, SendEvent(r, u)
    PROVE  Found'
<1>0. PICK o : o = cur[r]
    OBVIOUS
<1>1. PICK a \in Attempts(gone[r]) : Deliver({o}, u, a)
    BY <1>0 DEF SendEvent
<1>2. /\ \A e \in Occs, v \in Users : e # o \/ v # u => copies'[<<e, v>>] = copies[<<e, v>>]
      /\ UNCHANGED <<buffers, flushing>>
      /\ rcpt' = [rcpt EXCEPT ![r] = @ \ {u}]
      /\ \/ cur' = [cur EXCEPT ![r] = NoOcc] /\ rcpt'[r] = {}
         \/ cur' = cur
    BY <1>1, DeliverLedger DEF SendEvent, Remaining, BackToLoop, bufVars, IInv, Attempts
<1>3. /\ pc[r] = "send" /\ o \in Occs /\ u \in audience[o] /\ ~grouping
    BY <1>0, RequestsApart DEF SendEvent, Busy, AInv, Found, RecipientsFound, Paths,
                                IInv, TypeOK
<1>4. RecipientsFound'
  <2> SUFFICES ASSUME NEW s \in Requests, NEW v \in rcpt'[s]
               PROVE  v \in audience'[cur'[s]]
      BY DEF RecipientsFound
  <2>1. v \in rcpt[s] /\ cur'[s] = cur[s]
      BY <1>2 DEF IInv, TypeOK
  <2>2. pc[s] \in Busy /\ cur[s] \in Occs /\ v \in audience[cur[s]]
      BY <2>1, RequestsApart DEF AInv, Found, RecipientsFound, IInv, RequestShape, Busy
  <2> QED
      BY <2>1, <2>2 DEF Widens
<1>5. BufferedFound' /\ BatchesFound'
    BY <1>2, StaysFound DEF AInv, Found, BufferedFound, BatchesFound
<1>6. CopiesEntitled'
  <2> SUFFICES ASSUME NEW e \in Occs, NEW v \in Users, copies'[<<e, v>>] > 0
               PROVE  Entitled(e, v)'
      BY DEF CopiesEntitled
  <2>1. CASE e = o /\ v = u
      BY <1>3, <2>1, StaysFound DEF Entitled
  <2>2. CASE e # o \/ v # u
      BY <1>2, <2>2, StaysFound DEF AInv, Found, CopiesEntitled
  <2> QED
      BY <2>1, <2>2
<1> QED
    BY <1>4, <1>5, <1>6 DEF Found

LEMMA TimerFound ==
    ASSUME IInv, AInv, Widens, NEW t \in Types, TimerFires(t)
    PROVE  Found'
<1>1. /\ UNCHANGED <<cur, rcpt, copies>>
      /\ \A c \in Types : buffers'[c] = IF c = t THEN NoBuffer ELSE buffers[c]
      /\ flushing' \subseteq flushing \cup {buffers[t]}
    BY DEF TimerFires, reqVars, ledgerVars, IInv, TypeOK
<1>2. RecipientsFound'
  <2> SUFFICES ASSUME NEW s \in Requests, NEW v \in rcpt[s]
               PROVE  v \in audience'[cur[s]]
      BY <1>1 DEF RecipientsFound
  <2>1. pc[s] \in Busy /\ cur[s] \in Occs /\ v \in audience[cur[s]]
      BY RequestsApart DEF AInv, Found, RecipientsFound, IInv, RequestShape, Busy
  <2> QED
      BY <2>1 DEF Widens
<1>3. BufferedFound'
    BY <1>1, StaysFound DEF AInv, Found, BufferedFound, NoBuffer
<1>4. BatchesFound'
  <2> SUFFICES ASSUME NEW b \in flushing', NEW o \in b.events, NEW u \in b.users
               PROVE  FoundFor(u, TypeOf[o])'
      BY DEF BatchesFound
  <2>1. CASE b \in flushing
      BY <2>1, StaysFound DEF AInv, Found, BatchesFound
  <2>2. CASE b = buffers[t]
      BY <2>2, StaysFound DEF AInv, Found, BufferedFound, IInv, Fresh, BufferedIsFresh
  <2> QED
      BY <1>1, <2>1, <2>2
<1>5. CopiesEntitled'
    BY <1>1, StaysFound DEF AInv, Found, CopiesEntitled
<1> QED
    BY <1>2, <1>3, <1>4, <1>5 DEF Found

LEMMA FlushFound ==
    ASSUME IInv, AInv, Widens, NEW b \in flushing, NEW u \in Users, SendGrouped(b, u)
    PROVE  Found'
<1>1. PICK a \in Attempts(FALSE) : Deliver(b.events, u, a)
    BY DEF SendGrouped
<1>2. \A e \in Occs, v \in Users :
          e \notin b.events \/ v # u => copies'[<<e, v>>] = copies[<<e, v>>]
    BY <1>1, DeliverLedger DEF IInv, Attempts
<1>3. PICK rest : rest = [b EXCEPT !.users = @ \ {u}]
    OBVIOUS
<1>4. /\ u \in b.users /\ b \in Buffers
      /\ UNCHANGED <<cur, rcpt, buffers>>
      /\ flushing' \subseteq flushing \cup {rest}
    BY <1>3 DEF SendGrouped, Remaining, reqVars, IInv, TypeOK
<1>5. rest.events = b.events /\ rest.users \subseteq b.users
    BY <1>3, <1>4 DEF Buffers
<1>6. RecipientsFound'
  <2> SUFFICES ASSUME NEW s \in Requests, NEW v \in rcpt[s]
               PROVE  v \in audience'[cur[s]]
      BY <1>4 DEF RecipientsFound
  <2>1. pc[s] \in Busy /\ cur[s] \in Occs /\ v \in audience[cur[s]]
      BY RequestsApart DEF AInv, Found, RecipientsFound, IInv, RequestShape, Busy
  <2> QED
      BY <2>1 DEF Widens
<1>7. BufferedFound'
    BY <1>4, StaysFound DEF AInv, Found, BufferedFound
<1>8. BatchesFound'
    BY <1>4, <1>5, StaysFound DEF AInv, Found, BatchesFound
<1>9. CopiesEntitled'
  <2> SUFFICES ASSUME NEW e \in Occs, NEW v \in Users, copies'[<<e, v>>] > 0
               PROVE  Entitled(e, v)'
      BY DEF CopiesEntitled
  <2>1. CASE e \in b.events /\ v = u
    <3>1. grouping /\ FoundFor(u, TypeOf[e])
        BY <1>4, <2>1 DEF AInv, Paths, Found, BatchesFound, IInv, TypeOK
    <3> QED
        BY <2>1, <3>1, StaysFound DEF Entitled
  <2>2. CASE e \notin b.events \/ v # u
      BY <1>2, <2>2, StaysFound DEF AInv, Found, CopiesEntitled
  <2> QED
      BY <2>1, <2>2
<1> QED
    BY <1>6, <1>7, <1>8, <1>9 DEF Found

LEMMA RestartFound ==
    ASSUME IInv, AInv, Widens, Restart
    PROVE  Found'
<1>1. /\ rcpt' = [r \in Requests |-> {}] /\ flushing' = {}
      /\ buffers' = [t \in Types |-> NoBuffer]
    BY DEF Restart
<1>2. RecipientsFound' /\ BufferedFound' /\ BatchesFound'
    BY <1>1 DEF RecipientsFound, BufferedFound, BatchesFound, NoBuffer
<1>3. CopiesEntitled'
  <2> SUFFICES ASSUME NEW e \in Occs, NEW v \in Users, copies'[<<e, v>>] > 0
               PROVE  Entitled(e, v)'
      BY DEF CopiesEntitled
  <2>1. CASE copies'[<<e, v>>] = copies[<<e, v>>]
      BY <2>1, StaysFound DEF AInv, Found, CopiesEntitled
  <2>2. ASSUME NEW r \in Requests, pc[r] = "send", cur[r] = e, v \in rcpt[r]
        PROVE  Entitled(e, v)'
    <3>1. v \in audience[e] /\ ~grouping
        BY <2>2 DEF AInv, Found, RecipientsFound, Paths, IInv, TypeOK
    <3> QED
        BY <3>1, StaysFound DEF Entitled
  <2>3. ASSUME NEW b \in flushing, e \in b.events, v \in b.users
        PROVE  Entitled(e, v)'
    <3>1. grouping /\ FoundFor(v, TypeOf[e])
        BY <2>3 DEF AInv, Paths, Found, BatchesFound, IInv, TypeOK
    <3> QED
        BY <3>1, StaysFound DEF Entitled
  <2>4. CASE copies'[<<e, v>>] # copies[<<e, v>>]
      BY <2>2, <2>3, <2>4, RestartArrives
  <2> QED
      BY <2>1, <2>4
<1> QED
    BY <1>2, <1>3 DEF Found

LEMMA NextAInv == IInv /\ AInv /\ [Next]_vars => AInv'
<1> SUFFICES ASSUME IInv, AInv, [Next]_vars PROVE Found'
    BY NextPaths, NextUnlooked DEF AInv
<1>0. Widens
    BY EveryStepWidens
<1>1. ASSUME NEW r \in Requests, Receive(r) \/ Respond(r) \/ Disconnect(r)
      PROVE  Found'
    BY <1>0, <1>1, RequestFound
<1>2. ASSUME NEW r \in Requests, ProcessEvent(r)
      PROVE  Found'
    BY <1>0, <1>2, RequestFound, LookupFound, EnqueueFound, SendFound DEF ProcessEvent
<1>3. ASSUME NEW t \in Types, TimerFires(t)
      PROVE  Found'
    BY <1>0, <1>3, TimerFound
<1>4. CASE Flush
    BY <1>0, <1>4, FlushFound DEF Flush
<1>5. CASE \/ \E v \in Users, t \in Types : Subscribe(v, t) \/ Unsubscribe(v, t)
           \/ CoolDown \/ QuietEdge \/ UNCHANGED vars
  <2>1. UNCHANGED <<buffers, flushing, copies, cur, rcpt>>
      BY <1>5 DEF Subscribe, Unsubscribe, CoolDown, QuietEdge, vars, reqVars, bufVars,
                  ledgerVars
  <2> QED
      BY <1>0, <2>1, FoundKept
<1>6. CASE Restart
    BY <1>0, <1>6, RestartFound
<1> QED
    BY <1>1, <1>2, <1>3, <1>4, <1>5, <1>6 DEF Next

(* Nobody gets an event, or is about to, that no lookup returned him for:  *)
(* for any users, events and subscriptions that come and go meanwhile      *)
(* (service.go:76-102, 142-181).                                           *)
THEOREM OnlyTheAudience == Spec => []NoStrangers
<1> QED
    BY FoundIsEnough, InitAInv, NextAInv, Invariance, PTL DEF Spec

-----------------------------------------------------------------------------
(* The counters agree with what happened.                                  *)
(*                                                                         *)
(* An event is counted as received when its request arrives, and is judged,*)
(* looked up and delivered only afterwards: what a request is ahead of or  *)
(* at work on was received since the process started.  A counter moves by  *)
(* one exactly when one event or one pair gets the fate it counts.         *)

Skipped == {"filtered", "duplicate", "nobody"}

SkippedEvents == {o \in since : outcome[o] \in Skipped}

Counted(result) == {p \in Pairs : p[1] \in since /\ reported[p] = result}

SinceInv ==
    /\ IsFiniteSet(since)
    /\ \A r \in Requests :
        /\ pc[r] = "idle" => Payload[r] \cap since = {}
        /\ pc[r] # "idle" => todo[r] \subseteq since
        /\ pc[r] \in Busy => cur[r] \in since
        /\ pc[r] \in Early => outcome[cur[r]] = "accepted"

ReceivedAgree == metrics["webhook_events_received"] = Cardinality(since)

SkippedAgree == metrics["events_skipped"] = Cardinality(SkippedEvents)

SentAgree ==
    ~grouping =>
        /\ IsFiniteSet(Counted("sent")) /\ IsFiniteSet(Counted("failed"))
        /\ metrics["notifications_sent"] = Cardinality(Counted("sent"))
        /\ metrics["notifications_failed"] = Cardinality(Counted("failed"))

CInv == SinceInv /\ ReceivedAgree /\ SkippedAgree /\ SentAgree

LEMMA InitCInv == Init => CInv
<1> SUFFICES ASSUME Init PROVE CInv
    OBVIOUS
<1>1. since = {} /\ SkippedEvents = {} /\ Counted("sent") = {} /\ Counted("failed") = {}
    BY DEF Init, SkippedEvents, Counted
<1>2. IsFiniteSet({}) /\ Cardinality({}) = 0
    BY FS_EmptySet
<1>3. \A c \in Counters : metrics[c] = 0
    BY DEF Init, NoMetrics
<1>4. SinceInv
    BY <1>1, <1>2 DEF Init, SinceInv, Busy, Early
<1> QED
    BY <1>1, <1>2, <1>3, <1>4 DEF CInv, ReceivedAgree, SkippedAgree, SentAgree, Counters

(* A message moves one counter, that of its result.                        *)
LEMMA DeliverInc ==
    ASSUME TypeOK, NEW evs, NEW u, NEW a \in [ok : BOOLEAN, landed : BOOLEAN],
           Deliver(evs, u, a)
    PROVE  /\ metrics'["webhook_events_received"] = metrics["webhook_events_received"]
           /\ metrics'["events_skipped"] = metrics["events_skipped"]
           /\ metrics'["notifications_sent"] =
                  metrics["notifications_sent"] + (IF a.ok THEN 1 ELSE 0)
           /\ metrics'["notifications_failed"] =
                  metrics["notifications_failed"] + (IF a.ok THEN 0 ELSE 1)
<1>1. Inc(IF a.ok THEN "notifications_sent" ELSE "notifications_failed", 1)
    BY DEF Deliver
<1>2. CASE a.ok
    BY <1>1, <1>2 DEF Inc, TypeOK, Counters
<1>3. CASE ~a.ok
    BY <1>1, <1>3 DEF Inc, TypeOK, Counters
<1> QED
    BY <1>2, <1>3

(* Nothing is received but by Receive.                                     *)
LEMMA SinceKept ==
    ASSUME IInv, [Next]_vars, \A r \in Requests : ~Receive(r), ~Restart
    PROVE  /\ since' = since
           /\ \A s \in Requests : pc'[s] = "idle" <=> pc[s] = "idle"
           /\ metrics'["webhook_events_received"] = metrics["webhook_events_received"]
<1> DEFINE Kept ==
        /\ since' = since
        /\ \A s \in Requests : pc'[s] = "idle" <=> pc[s] = "idle"
        /\ metrics'["webhook_events_received"] = metrics["webhook_events_received"]
<1>1. ASSUME NEW r \in Requests, Respond(r) \/ Disconnect(r)
      PROVE  Kept
    BY <1>1 DEF IInv, TypeOK, Respond, Disconnect
<1>2. ASSUME NEW r \in Requests, NEW o \in Occs,
             \/ SkipUnknown(r, o) \/ SkipFiltered(r, o)
             \/ SkipDuplicate(r, o) \/ Admit(r, o)
      PROVE  Kept
    BY <1>2 DEF IInv, TypeOK, SkipUnknown, SkipFiltered, SkipDuplicate, Drop, Admit,
                Inc, Counters
<1>3. ASSUME NEW r \in Requests,
             \/ StoreEvent(r) \/ StoreBlockedIP(r) \/ LookupFails(r)
             \/ FindNobody(r) \/ GetSubscribers(r) \/ EnqueueGrouped(r)
      PROVE  Kept
    BY <1>3 DEF IInv, TypeOK, StoreEvent, StoreBlockedIP, LookupFails, FindNobody,
                GetSubscribers, EnqueueGrouped, BackToLoop, Inc, Counters
<1>4. ASSUME NEW r \in Requests, NEW u \in Users, SendEvent(r, u)
      PROVE  Kept
  <2>0. PICK o : o = cur[r]
      OBVIOUS
  <2>1. PICK a \in Attempts(gone[r]) : Deliver({o}, u, a)
      BY <1>4, <2>0 DEF SendEvent
  <2>2. metrics'["webhook_events_received"] = metrics["webhook_events_received"]
      BY <2>1, DeliverInc DEF IInv, Attempts
  <2> QED
      BY <1>4, <2>2 DEF SendEvent, BackToLoop, IInv, TypeOK
<1>5. CASE Flush
  <2>1. PICK b \in flushing, u \in Users : SendGrouped(b, u)
      BY <1>5 DEF Flush
  <2>2. PICK a \in Attempts(FALSE) : Deliver(b.events, u, a)
      BY <2>1 DEF SendGrouped
  <2>3. metrics'["webhook_events_received"] = metrics["webhook_events_received"]
      BY <2>2, DeliverInc DEF IInv, Attempts
  <2> QED
      BY <1>5, <2>3 DEF Flush, SendGrouped, reqVars
<1>6. CASE \/ \E t \in Types : TimerFires(t)
           \/ \E v \in Users, t \in Types : Subscribe(v, t) \/ Unsubscribe(v, t)
           \/ CoolDown \/ QuietEdge \/ UNCHANGED vars
    BY <1>6 DEF TimerFires, Subscribe, Unsubscribe, CoolDown, QuietEdge, reqVars, vars
<1> QED
    BY <1>1, <1>2, <1>3, <1>4, <1>5, <1>6 DEF Next, ProcessEvent

(* What a request is ahead of or at work on stays received.                *)
LEMMA WorkReceived ==
    ASSUME IInv, JInv, SinceInv, [Next]_vars, since' = since,
           \A s \in Requests : pc'[s] = "idle" <=> pc[s] = "idle"
    PROVE  \A s \in Requests :
             /\ pc'[s] = "idle" => Payload[s] \cap since' = {}
             /\ pc'[s] # "idle" => todo'[s] \subseteq since'
             /\ pc'[s] \in Busy => cur'[s] \in since'
<1> TAKE s \in Requests
<1>1. pc'[s] # "idle" => todo'[s] \subseteq since'
  <2>1. Ahead(s)' \subseteq Ahead(s)
      BY AheadShrinks
  <2> QED
      BY <2>1 DEF Ahead, SinceInv
<1>2. ASSUME pc'[s] \in Busy PROVE cur'[s] \in since'
  <2>1. ASSUME NEW r \in Requests, NEW o \in Occs,
               \/ SkipUnknown(r, o) \/ SkipFiltered(r, o) \/ SkipDuplicate(r, o)
        PROVE  cur'[s] \in since'
      BY <1>2, <2>1 DEF SkipUnknown, SkipFiltered, SkipDuplicate, Drop, SinceInv
  <2>2. ASSUME NEW r \in Requests, NEW o \in Occs, Admit(r, o)
        PROVE  cur'[s] \in since'
    <3>1. o \in since
        BY <2>2 DEF Admit, SinceInv
    <3> QED
        BY <1>2, <2>2, <3>1 DEF Admit, SinceInv, IInv, TypeOK
  <2>3. CASE \/ \E r \in Requests :
                   \/ Receive(r) \/ Respond(r) \/ Disconnect(r)
                   \/ StoreEvent(r) \/ StoreBlockedIP(r)
                   \/ LookupFails(r) \/ FindNobody(r) \/ GetSubscribers(r)
                   \/ EnqueueGrouped(r)
                   \/ \E u \in Users : SendEvent(r, u)
             \/ \E t \in Types : TimerFires(t)
             \/ Flush
             \/ \E v \in Users, t \in Types : Subscribe(v, t) \/ Unsubscribe(v, t)
             \/ CoolDown \/ QuietEdge \/ Restart \/ UNCHANGED vars
      BY <1>2, <2>3, KeepsWork DEF SinceInv
  <2> QED
      BY <2>1, <2>2, <2>3 DEF Next, ProcessEvent
<1> QED
    BY <1>1, <1>2 DEF SinceInv

(* An event keeps its first verdict until its subscribers are looked up.   *)
LEMMA EarlyAccepted ==
    ASSUME IInv, JInv, SinceInv, [Next]_vars, NEW s \in Requests, pc'[s] \in Early
    PROVE  outcome'[cur'[s]] = "accepted"
<1>1. CASE \E r \in Requests, o \in Occs :
             \/ SkipUnknown(r, o) \/ SkipFiltered(r, o)
             \/ SkipDuplicate(r, o) \/ Admit(r, o)
  <2>1. PICK r \in Requests, o \in Occs :
            \/ SkipUnknown(r, o) \/ SkipFiltered(r, o)
            \/ SkipDuplicate(r, o) \/ Admit(r, o)
      BY <1>1
  <2>2. PICK result \in {"unknown", "filtered", "duplicate", "accepted"} :
            /\ outcome' = [outcome EXCEPT ![o] = result]
            /\ o \in todo[r] /\ pc[r] = "loop"
      BY <2>1 DEF SkipUnknown, SkipFiltered, SkipDuplicate, Drop, Admit
  <2>3. result \in Outcomes
      BY DEF Outcomes, Accepted
  <2>4. outcome[o] = "none" /\ \A e \in Occs : e # o => outcome'[e] = outcome[e]
      BY <2>2, <2>3, VerdictJudges
  <2>5. CASE pc[s] \in Early /\ cur'[s] = cur[s]
    <3>1. outcome[cur[s]] = "accepted" /\ cur[s] \in Occs
        BY <2>5, RequestsApart DEF SinceInv, Early, Busy
    <3> QED
        BY <2>4, <2>5, <3>1
  <2>6. CASE ~(pc[s] \in Early /\ cur'[s] = cur[s])
    <3>1. Admit(r, o)
        BY <2>1, <2>6 DEF SkipUnknown, SkipFiltered, SkipDuplicate, Drop
    <3> QED
        BY <2>6, <3>1 DEF Admit, IInv, TypeOK
  <2> QED
      BY <2>5, <2>6
<1>2. CASE \E r \in Requests : LookupFails(r) \/ FindNobody(r) \/ GetSubscribers(r)
  <2>1. PICK r \in Requests : LookupFails(r) \/ FindNobody(r) \/ GetSubscribers(r)
      BY <1>2
  <2>2. pc[r] \in Busy /\ pc'[r] \notin Early
      BY <2>1 DEF LookupFails, FindNobody, GetSubscribers, BackToLoop, Busy, Early,
                  IInv, TypeOK
  <2>3. \A e \in Occs : e # cur[r] => outcome'[e] = outcome[e]
      BY <2>1 DEF LookupFails, FindNobody, GetSubscribers, IInv, TypeOK
  <2>4. s # r /\ pc[s] \in Early /\ cur'[s] = cur[s]
      BY <2>1, <2>2 DEF LookupFails, FindNobody, GetSubscribers, BackToLoop, IInv, TypeOK
  <2>5. outcome[cur[s]] = "accepted" /\ cur[s] \in Occs /\ cur[s] # cur[r]
      BY <2>2, <2>4, RequestsApart DEF SinceInv, Early, Busy
  <2> QED
      BY <2>3, <2>4, <2>5
<1>3. CASE \/ \E r \in Requests :
                 \/ Receive(r) \/ Respond(r) \/ Disconnect(r)
                 \/ StoreEvent(r) \/ StoreBlockedIP(r) \/ EnqueueGrouped(r)
                 \/ \E u \in Users : SendEvent(r, u)
           \/ \E t \in Types : TimerFires(t)
           \/ Flush
           \/ \E v \in Users, t \in Types : Subscribe(v, t) \/ Unsubscribe(v, t)
           \/ CoolDown \/ QuietEdge \/ Restart \/ UNCHANGED vars
  <2>1. outcome' = outcome
      BY <1>3, OthersStand
  <2>2. pc[s] \in Busy /\ cur'[s] = cur[s]
      BY <1>3, KeepsWork DEF Early, Busy
  <2>3. cur'[s] \notin Ahead(s)
      BY <2>2, RequestsApart
  <2>4. pc[s] \in Early
      BY <2>3, EarlyWork
  <2> QED
      BY <2>1, <2>2, <2>4 DEF SinceInv
<1> QED
    BY <1>1, <1>2, <1>3 DEF Next, ProcessEvent

LEMMA NextSince ==
    ASSUME IInv, JInv, SinceInv, [Next]_vars
    PROVE  SinceInv'
<1>1. \A s \in Requests : pc'[s] \in Early => outcome'[cur'[s]] = "accepted"
    BY EarlyAccepted
<1>2. ASSUME NEW r \in Requests, Receive(r)
      PROVE  SinceInv'
  <2>1. since' = since \cup Payload[r] /\ IsFiniteSet(Payload[r])
      BY <1>2 DEF Receive
  <2>2. IsFiniteSet(since')
      BY <2>1, FS_Union DEF SinceInv
  <2>3. ASSUME NEW s \in Requests
        PROVE  /\ pc'[s] = "idle" => Payload[s] \cap since' = {}
               /\ pc'[s] # "idle" => todo'[s] \subseteq since'
               /\ pc'[s] \in Busy => cur'[s] \in since'
      BY <1>2, <2>1, PayloadFacts DEF Receive, SinceInv, IInv, TypeOK, Busy
  <2> QED
      BY <1>1, <2>2, <2>3 DEF SinceInv
<1>3. CASE Restart
  <2>1. /\ since' = {} /\ \A s \in Requests : todo'[s] = {}
        /\ \A s \in Requests : pc'[s] \notin Busy
      BY <1>3 DEF Restart, IInv, TypeOK, Busy
  <2>2. IsFiniteSet(since')
      BY <2>1, FS_EmptySet
  <2> QED
      BY <1>1, <2>1, <2>2 DEF SinceInv
<1>4. CASE (\A r \in Requests : ~Receive(r)) /\ ~Restart
  <2>1. since' = since /\ \A s \in Requests : pc'[s] = "idle" <=> pc[s] = "idle"
      BY <1>4, SinceKept
  <2>2. \A s \in Requests :
             /\ pc'[s] = "idle" => Payload[s] \cap since' = {}
             /\ pc'[s] # "idle" => todo'[s] \subseteq since'
             /\ pc'[s] \in Busy => cur'[s] \in since'
      BY <2>1, WorkReceived
  <2> QED
      BY <1>1, <2>1, <2>2 DEF SinceInv
<1> QED
    BY <1>2, <1>3, <1>4

-----------------------------------------------------------------------------
(* The counters, one after the other.                                      *)

LEMMA ReceiveCounts ==
    ASSUME IInv, JInv, CInv, NEW r \in Requests, Receive(r)
    PROVE  (ReceivedAgree /\ SkippedAgree /\ SentAgree)'
<1>1. /\ since' = since \cup Payload[r] /\ IsFiniteSet(Payload[r])
      /\ Payload[r] \cap since = {} /\ Payload[r] \subseteq Occs
      /\ outcome' = outcome /\ reported' = reported /\ grouping' = grouping
    BY PayloadFacts DEF Receive, CInv, SinceInv, envVars, ledgerVars
<1>2. \A o \in Payload[r] :
          /\ outcome[o] = "none"
          /\ \A u \in Users : reported[<<o, u>>] = "none"
  <2>1. Ahead(r) = Payload[r]
      BY DEF Receive, Ahead
  <2> QED
      BY <2>1 DEF JInv, Judged, IInv, Fresh, AheadIsFresh, Untouched
<1>3. PICK n \in Nat : n = Cardinality(Payload[r])
    BY <1>1, FS_CardinalityType
<1>4. /\ metrics'["webhook_events_received"] = metrics["webhook_events_received"] + n
      /\ \A c \in {"notifications_sent", "notifications_failed", "events_skipped"} :
            metrics'[c] = metrics[c]
    BY <1>3 DEF Receive, IInv, TypeOK, Counters
<1>5. ReceivedAgree'
  <2>1. Cardinality(since \cup Payload[r]) =
            Cardinality(since) + Cardinality(Payload[r]) - Cardinality(since \cap Payload[r])
      BY <1>1, FS_Union DEF CInv, SinceInv
  <2>2. Cardinality(since \cap Payload[r]) = 0
    <3>1. since \cap Payload[r] = {}
        BY <1>1
    <3> QED
        BY <3>1, FS_EmptySet
  <2>3. PICK k \in Nat : k = Cardinality(since)
      BY FS_CardinalityType DEF CInv, SinceInv
  <2>4. Cardinality(since') = k + n
      BY <1>1, <1>3, <2>1, <2>2, <2>3
  <2>5. metrics["webhook_events_received"] = k
      BY <2>3 DEF CInv, ReceivedAgree
  <2> QED
      BY <1>4, <2>4, <2>5 DEF ReceivedAgree
<1>6. SkippedAgree'
  <2>1. SkippedEvents' = SkippedEvents
      BY <1>1, <1>2 DEF SkippedEvents, Skipped
  <2> QED
      BY <1>4, <2>1 DEF CInv, SkippedAgree
<1>7. SentAgree'
  <2>1. Counted("sent")' = Counted("sent") /\ Counted("failed")' = Counted("failed")
      BY <1>1, <1>2 DEF Counted, Pairs
  <2> QED
      BY <1>1, <1>4, <2>1 DEF CInv, SentAgree
<1> QED
    BY <1>5, <1>6, <1>7

LEMMA RestartCounts ==
    ASSUME Restart
    PROVE  (ReceivedAgree /\ SkippedAgree /\ SentAgree)'
<1>1. since' = {} /\ \A c \in Counters : metrics'[c] = 0
    BY DEF Restart, NoMetrics
<1>2. SkippedEvents' = {} /\ Counted("sent")' = {} /\ Counted("failed")' = {}
    BY <1>1 DEF SkippedEvents, Counted
<1>3. IsFiniteSet({}) /\ Cardinality({}) = 0
    BY FS_EmptySet
<1> QED
    BY <1>1, <1>2, <1>3 DEF ReceivedAgree, SkippedAgree, SentAgree, Counters

(* Steps that count nothing: no event becomes skipped, no pair is counted. *)
LEMMA UncountedKeeps ==
    ASSUME CInv, UNCHANGED <<since, metrics, reported, grouping>>,
           \A o \in since : outcome'[o] \in Skipped <=> outcome[o] \in Skipped
    PROVE  (ReceivedAgree /\ SkippedAgree /\ SentAgree)'
<1>1. SkippedEvents' = SkippedEvents
    BY DEF SkippedEvents
<1>2. Counted("sent")' = Counted("sent") /\ Counted("failed")' = Counted("failed")
    BY DEF Counted
<1> QED
    BY <1>1, <1>2 DEF CInv, ReceivedAgree, SkippedAgree, SentAgree

(* One more event is skipped, and counted so.                              *)
LEMMA SkipCounts ==
    ASSUME IInv, CInv, UNCHANGED <<since, reported, grouping>>,
           NEW o \in since, outcome[o] \notin Skipped,
           NEW result \in Skipped, outcome' = [outcome EXCEPT ![o] = result],
           Inc("events_skipped", 1)
    PROVE  (ReceivedAgree /\ SkippedAgree /\ SentAgree)'
<1>1. /\ metrics'["events_skipped"] = metrics["events_skipped"] + 1
      /\ \A c \in {"notifications_sent", "notifications_failed",
                   "webhook_events_received"} : metrics'[c] = metrics[c]
    BY DEF Inc, IInv, TypeOK, Counters
<1>2. SkippedAgree'
  <2>1. PICK S, T : S = SkippedEvents /\ T = SkippedEvents'
      OBVIOUS
  <2>2. T = S \cup {o} /\ o \notin S
      BY <2>1 DEF SkippedEvents, IInv, TypeOK
  <2>3. IsFiniteSet(S)
      BY <2>1, FS_Subset DEF SkippedEvents, CInv, SinceInv
  <2>4. Cardinality(T) = Cardinality(S) + 1
      BY <2>2, <2>3, FS_AddElement
  <2> QED
      BY <1>1, <2>1, <2>4 DEF CInv, SkippedAgree
<1>3. Counted("sent")' = Counted("sent") /\ Counted("failed")' = Counted("failed")
    BY DEF Counted
<1> QED
    BY <1>1, <1>2, <1>3 DEF CInv, ReceivedAgree, SentAgree

(* One pair more is counted, once and with the result of the attempt.      *)
LEMMA PairCounts ==
    ASSUME TypeOK, since' = since, grouping' = grouping, NEW p \in Pairs, p[1] \in since,
           reported[p] = "none", NEW result \in {"sent", "failed"},
           \A q \in Pairs : reported'[q] = IF q = p THEN result ELSE reported[q],
           IsFiniteSet(Counted("sent")), IsFiniteSet(Counted("failed"))
    PROVE  \A c \in {"sent", "failed"} :
             /\ IsFiniteSet(Counted(c)')
             /\ Cardinality(Counted(c)') =
                    Cardinality(Counted(c)) + (IF c = result THEN 1 ELSE 0)
<1> TAKE c \in {"sent", "failed"}
<1>1. PICK S, T : S = Counted(c) /\ T = Counted(c)'
    OBVIOUS
<1>2. IsFiniteSet(S) /\ Cardinality(S) \in Nat
    BY <1>1, FS_CardinalityType
<1>3. CASE c = result
  <2>1. T = S \cup {p} /\ p \notin S
      BY <1>1, <1>3 DEF Counted
  <2>2. IsFiniteSet(T) /\ Cardinality(T) = Cardinality(S) + 1
      BY <1>2, <2>1, FS_AddElement
  <2> QED
      BY <1>1, <1>3, <2>2
<1>4. CASE c # result
  <2>1. T = S
      BY <1>1, <1>4 DEF Counted
  <2> QED
      BY <1>1, <1>2, <1>4, <2>1
<1> QED
    BY <1>3, <1>4

LEMMA SendCounts ==
    ASSUME IInv, AInv, CInv, NEW r \in Requests, NEW u \in Users, SendEvent(r, u)
    PROVE  (ReceivedAgree /\ SkippedAgree /\ SentAgree)'
<1>0. PICK o : o = cur[r]
    OBVIOUS
<1>1. PICK a \in Attempts(gone[r]) : Deliver({o}, u, a)
    BY <1>0 DEF SendEvent
<1>2. a \in [ok : BOOLEAN, landed : BOOLEAN]
    BY DEF Attempts
<1>3. /\ pc[r] = "send" /\ u \in rcpt[r] /\ ~grouping
      /\ UNCHANGED <<since, outcome, grouping>>
    BY DEF SendEvent, envVars, AInv, Paths, IInv, TypeOK
<1>4. /\ o \in Occs /\ o \in since /\ reported[<<o, u>>] = "none"
      /\ <<o, u>> \in Pairs
    BY <1>0, <1>3, RequestsApart DEF CInv, SinceInv, Busy, IInv, Fresh, CurIsFresh,
                                     MayGet, Untouched, Pairs
<1>5. PICK result \in {"sent", "failed"} : result = IF a.ok THEN "sent" ELSE "failed"
    OBVIOUS
<1>6. \A q \in Pairs : reported'[q] = IF q = <<o, u>> THEN result ELSE reported[q]
    BY <1>1, <1>5 DEF Deliver, Pairs
<1>7. /\ IsFiniteSet(Counted("sent")) /\ IsFiniteSet(Counted("failed"))
      /\ metrics["notifications_sent"] = Cardinality(Counted("sent"))
      /\ metrics["notifications_failed"] = Cardinality(Counted("failed"))
    BY <1>3 DEF CInv, SentAgree
<1>8. \A c \in {"sent", "failed"} :
          /\ IsFiniteSet(Counted(c)')
          /\ Cardinality(Counted(c)') =
                 Cardinality(Counted(c)) + (IF c = result THEN 1 ELSE 0)
  <2>1. PICK p \in Pairs : p = <<o, u>> /\ p[1] \in since /\ reported[p] = "none"
      BY <1>4
  <2>2. \A q \in Pairs : reported'[q] = IF q = p THEN result ELSE reported[q]
      BY <1>6, <2>1
  <2>3. TypeOK
      BY DEF IInv
  <2> QED
      BY <1>3, <1>7, <2>1, <2>2, <2>3, PairCounts
<1>9. /\ metrics'["webhook_events_received"] = metrics["webhook_events_received"]
      /\ metrics'["events_skipped"] = metrics["events_skipped"]
      /\ metrics'["notifications_sent"] =
             metrics["notifications_sent"] + (IF a.ok THEN 1 ELSE 0)
      /\ metrics'["notifications_failed"] =
             metrics["notifications_failed"] + (IF a.ok THEN 0 ELSE 1)
    BY <1>1, <1>2, DeliverInc DEF IInv
<1>10. SentAgree'
  <2>1. CASE a.ok
      BY <1>5, <1>7, <1>8, <1>9, <2>1 DEF SentAgree
  <2>2. CASE ~a.ok
      BY <1>5, <1>7, <1>8, <1>9, <2>2 DEF SentAgree
  <2> QED
      BY <2>1, <2>2
<1>11. SkippedEvents' = SkippedEvents
    BY <1>3 DEF SkippedEvents
<1> QED
    BY <1>3, <1>9, <1>10, <1>11 DEF CInv, ReceivedAgree, SkippedAgree

LEMMA FlushCounts ==
    ASSUME IInv, CInv, AInv, Flush
    PROVE  (ReceivedAgree /\ SkippedAgree /\ SentAgree)'
<1>1. PICK b \in flushing, u \in Users : SendGrouped(b, u)
    BY DEF Flush
<1>2. PICK a \in Attempts(FALSE) : Deliver(b.events, u, a)
    BY <1>1 DEF SendGrouped
<1>3. /\ metrics'["webhook_events_received"] = metrics["webhook_events_received"]
      /\ metrics'["events_skipped"] = metrics["events_skipped"]
    BY <1>2, DeliverInc DEF IInv, Attempts
<1>4. UNCHANGED <<since, outcome, grouping>> /\ grouping
    BY <1>1 DEF SendGrouped, envVars, AInv, Paths, IInv, TypeOK
<1>5. SkippedEvents' = SkippedEvents
    BY <1>4 DEF SkippedEvents
<1> QED
    BY <1>3, <1>4, <1>5 DEF CInv, ReceivedAgree, SkippedAgree, SentAgree

LEMMA VerdictCounts ==
    ASSUME IInv, JInv, CInv, NEW r \in Requests, NEW o \in Occs,
           \/ SkipUnknown(r, o) \/ SkipFiltered(r, o)
           \/ SkipDuplicate(r, o) \/ Admit(r, o)
    PROVE  (ReceivedAgree /\ SkippedAgree /\ SentAgree)'
<1>1. /\ o \in todo[r] /\ pc[r] = "loop" /\ o \in since
      /\ UNCHANGED <<since, reported, grouping>>
    BY DEF SkipUnknown, SkipFiltered, SkipDuplicate, Drop, Admit, CInv, SinceInv,
           envVars, ledgerVars
<1>2. outcome[o] = "none"
    BY <1>1 DEF JInv, Judged, Ahead
<1>3. CASE SkipUnknown(r, o) \/ Admit(r, o)
  <2>1. PICK result \in {"unknown", "accepted"} :
            outcome' = [outcome EXCEPT ![o] = result] /\ metrics' = metrics
      BY <1>3 DEF SkipUnknown, Drop, Admit
  <2>2. \A e \in since : outcome'[e] \in Skipped <=> outcome[e] \in Skipped
      BY <1>2, <2>1 DEF Skipped, IInv, TypeOK
  <2> QED
      BY <1>1, <2>1, <2>2, UncountedKeeps
<1>4. CASE SkipFiltered(r, o) \/ SkipDuplicate(r, o)
  <2>1. PICK result \in Skipped :
            outcome' = [outcome EXCEPT ![o] = result] /\ Inc("events_skipped", 1)
      BY <1>4 DEF SkipFiltered, SkipDuplicate, Drop, Skipped
  <2>2. outcome[o] \notin Skipped
      BY <1>2 DEF Skipped
  <2> QED
      BY <1>1, <2>1, <2>2, SkipCounts
<1> QED
    BY <1>3, <1>4

LEMMA LookupCounts ==
    ASSUME IInv, CInv, NEW r \in Requests,
           LookupFails(r) \/ FindNobody(r) \/ GetSubscribers(r)
    PROVE  (ReceivedAgree /\ SkippedAgree /\ SentAgree)'
<1>0. PICK o : o = cur[r]
    OBVIOUS
<1>1. /\ o \in since /\ outcome[o] = "accepted"
      /\ UNCHANGED <<since, reported, grouping>>
    BY <1>0 DEF LookupFails, FindNobody, GetSubscribers, CInv, SinceInv, Busy, Early,
                envVars, ledgerVars
<1>2. CASE LookupFails(r) \/ GetSubscribers(r)
  <2>1. PICK result \in {"unresolved", "notified"} :
            outcome' = [outcome EXCEPT ![o] = result] /\ metrics' = metrics
      BY <1>0, <1>2 DEF LookupFails, GetSubscribers
  <2>2. \A e \in since : outcome'[e] \in Skipped <=> outcome[e] \in Skipped
      BY <1>1, <2>1 DEF Skipped, IInv, TypeOK
  <2> QED
      BY <1>1, <2>1, <2>2, UncountedKeeps
<1>3. CASE FindNobody(r)
  <2>1. PICK result \in Skipped :
            outcome' = [outcome EXCEPT ![o] = result] /\ Inc("events_skipped", 1)
      BY <1>0, <1>3 DEF FindNobody, Skipped
  <2>2. outcome[o] \notin Skipped
      BY <1>1 DEF Skipped
  <2> QED
      BY <1>1, <2>1, <2>2, SkipCounts
<1> QED
    BY <1>2, <1>3

LEMMA NextCInv == IInv /\ JInv /\ AInv /\ CInv /\ [Next]_vars => CInv'
<1> SUFFICES ASSUME IInv, JInv, AInv, CInv, [Next]_vars
             PROVE  (ReceivedAgree /\ SkippedAgree /\ SentAgree)'
    BY NextSince DEF CInv
<1>1. ASSUME NEW r \in Requests, Receive(r)
      PROVE  (ReceivedAgree /\ SkippedAgree /\ SentAgree)'
    BY <1>1, ReceiveCounts
<1>2. CASE Restart
    BY <1>2, RestartCounts
<1>3. ASSUME NEW r \in Requests, NEW o \in Occs,
             \/ SkipUnknown(r, o) \/ SkipFiltered(r, o)
             \/ SkipDuplicate(r, o) \/ Admit(r, o)
      PROVE  (ReceivedAgree /\ SkippedAgree /\ SentAgree)'
    BY <1>3, VerdictCounts
<1>4. ASSUME NEW r \in Requests, LookupFails(r) \/ FindNobody(r) \/ GetSubscribers(r)
      PROVE  (ReceivedAgree /\ SkippedAgree /\ SentAgree)'
    BY <1>4, LookupCounts
<1>5. ASSUME NEW r \in Requests, NEW u \in Users, SendEvent(r, u)
      PROVE  (ReceivedAgree /\ SkippedAgree /\ SentAgree)'
    BY <1>5, SendCounts
<1>6. CASE Flush
    BY <1>6, FlushCounts
<1>7. CASE \/ \E r \in Requests :
                 \/ Respond(r) \/ Disconnect(r) \/ StoreEvent(r)
                 \/ StoreBlockedIP(r) \/ EnqueueGrouped(r)
           \/ \E t \in Types : TimerFires(t)
           \/ \E v \in Users, t \in Types : Subscribe(v, t) \/ Unsubscribe(v, t)
           \/ CoolDown \/ QuietEdge \/ UNCHANGED vars
  <2>1. UNCHANGED <<since, metrics, reported, grouping, outcome>>
      BY <1>7 DEF Respond, Disconnect, StoreEvent, StoreBlockedIP, EnqueueGrouped,
                  TimerFires, Subscribe, Unsubscribe, CoolDown, QuietEdge, vars,
                  envVars, ledgerVars
  <2> QED
      BY <2>1, UncountedKeeps
<1> QED
    BY <1>1, <1>2, <1>3, <1>4, <1>5, <1>6, <1>7 DEF Next, ProcessEvent

(* The counters of /metrics agree with what happened since the process     *)
(* started: for any payloads, users, settings and interleaving             *)
(* (server.go:99-100; service.go:65-101).                                  *)
THEOREM CountersAgree == Spec => []MetricsAgree
<1>1. CInv => MetricsAgree
    BY DEF CInv, ReceivedAgree, SkippedAgree, SentAgree, SkippedEvents, Skipped,
           Counted, MetricsAgree
<1> QED
    BY <1>1, InitCInv, NextCInv, InitJInv, NextJInv, InitAInv, NextAInv, Invariance,
       PTL DEF Spec

-----------------------------------------------------------------------------
(***************************************************************************)
(* The fourth part: what a filter, the deduplicator or a failed lookup     *)
(* stopped is stopped for good, and what is counted as sent has arrived.   *)
(***************************************************************************)

Late == {"send", "enqueue"}

InWork(o) == \E r \in Requests : pc[r] \in Late /\ cur[r] = o

(* Somebody holds o in order to send it, or has sent it.                   *)
Touched(o) ==
    \/ InWork(o) \/ InBuffer(o) \/ InFlight(o)
    \/ \E u \in Users : copies[<<o, u>>] # 0 \/ reported[<<o, u>>] # "none"

TouchedIsNotified == \A o \in Occs : Touched(o) => outcome[o] = "notified"

OnlyNotifiedIsSent ==
    \A o \in Occs, u \in Users :
        outcome[o] # "notified" =>
            /\ copies[<<o, u>>] = 0 /\ reported[<<o, u>>] = "none"
            /\ ~Due(o, u)

(* Whose subscribers were found keeps that verdict: no request looks at    *)
(* the event again, or looks its subscribers up again.                     *)
LEMMA NotifiedStays ==
    ASSUME IInv, JInv, SinceInv, [Next]_vars, NEW o \in Occs, outcome[o] = "notified"
    PROVE  outcome'[o] = "notified"
<1>1. ASSUME NEW r \in Requests, NEW e \in Occs,
             \/ SkipUnknown(r, e) \/ SkipFiltered(r, e)
             \/ SkipDuplicate(r, e) \/ Admit(r, e)
      PROVE  outcome'[o] = "notified"
  <2>1. PICK result \in {"unknown", "filtered", "duplicate", "accepted"} :
            /\ outcome' = [outcome EXCEPT ![e] = result]
            /\ e \in todo[r] /\ pc[r] = "loop"
      BY <1>1 DEF SkipUnknown, SkipFiltered, SkipDuplicate, Drop, Admit
  <2>2. outcome[e] = "none"
      BY <2>1 DEF JInv, Judged, Ahead
  <2>3. e # o => outcome'[o] = outcome[o]
      BY <2>1 DEF IInv, TypeOK
  <2> QED
      BY <2>2, <2>3
<1>2. ASSUME NEW r \in Requests, LookupFails(r) \/ FindNobody(r) \/ GetSubscribers(r)
      PROVE  outcome'[o] = "notified"
  <2>1. outcome[cur[r]] = "accepted"
      BY <1>2 DEF LookupFails, FindNobody, GetSubscribers, SinceInv, Early
  <2>2. \A e \in Occs : e # cur[r] => outcome'[e] = outcome[e]
      BY <1>2 DEF LookupFails, FindNobody, GetSubscribers, IInv, TypeOK
  <2> QED
      BY <2>1, <2>2
<1>3. CASE \/ \E r \in Requests :
                 \/ Receive(r) \/ Respond(r) \/ Disconnect(r)
                 \/ StoreEvent(r) \/ StoreBlockedIP(r) \/ EnqueueGrouped(r)
                 \/ \E u \in Users : SendEvent(r, u)
           \/ \E t \in Types : TimerFires(t)
           \/ Flush
           \/ \E v \in Users, t \in Types : Subscribe(v, t) \/ Unsubscribe(v, t)
           \/ CoolDown \/ QuietEdge \/ Restart \/ UNCHANGED vars
    BY <1>3, OthersStand
<1> QED
    BY <1>1, <1>2, <1>3 DEF Next, ProcessEvent

(* Steps that move requests about touch nothing.                           *)
LEMMA MovesTouch ==
    ASSUME Moves, NEW o \in Occs,
           \A s \in Requests : pc'[s] \in Late => pc[s] \in Late /\ cur'[s] = cur[s]
    PROVE  Touched(o)' => Touched(o)
<1>1. UNCHANGED <<buffers, flushing, reported, copies>>
    BY DEF Moves
<1>2. InWork(o)' => InWork(o)
    BY DEF InWork
<1>3. (InBuffer(o)' <=> InBuffer(o)) /\ (InFlight(o)' <=> InFlight(o))
    BY <1>1 DEF InBuffer, InFlight
<1> QED
    BY <1>1, <1>2, <1>3 DEF Touched

LEMMA RequestTouch ==
    ASSUME IInv, NEW r \in Requests, NEW o \in Occs,
           \/ Receive(r) \/ Respond(r) \/ Disconnect(r)
           \/ StoreEvent(r) \/ StoreBlockedIP(r) \/ LookupFails(r) \/ FindNobody(r)
           \/ \E e \in Occs : \/ SkipUnknown(r, e) \/ SkipFiltered(r, e)
                              \/ SkipDuplicate(r, e) \/ Admit(r, e)
    PROVE  Touched(o)' => Touched(o)
<1>1. Moves
    BY RequestMoves, VerdictMoves, StoreMoves, LookupMoves
<1>2. ASSUME NEW s \in Requests, pc'[s] \in Late
      PROVE  pc[s] \in Late /\ cur'[s] = cur[s]
  <2>1. CASE Receive(r) \/ Respond(r) \/ Disconnect(r)
      BY <1>2, <2>1 DEF Receive, Respond, Disconnect, Late, IInv, TypeOK
  <2>2. CASE StoreEvent(r) \/ StoreBlockedIP(r)
      BY <1>2, <2>2 DEF StoreEvent, StoreBlockedIP, Late, IInv, TypeOK
  <2>3. CASE LookupFails(r) \/ FindNobody(r)
      BY <1>2, <2>3 DEF LookupFails, FindNobody, BackToLoop, Late, IInv, TypeOK
  <2>4. ASSUME NEW e \in Occs, SkipUnknown(r, e) \/ SkipFiltered(r, e) \/ SkipDuplicate(r, e)
        PROVE  pc[s] \in Late /\ cur'[s] = cur[s]
      BY <1>2, <2>4 DEF SkipUnknown, SkipFiltered, SkipDuplicate, Drop
  <2>5. ASSUME NEW e \in Occs, Admit(r, e)
        PROVE  pc[s] \in Late /\ cur'[s] = cur[s]
      BY <1>2, <2>5 DEF Admit, Late, IInv, TypeOK
  <2> QED
      BY <2>1, <2>2, <2>3, <2>4, <2>5
<1> QED
    BY <1>1, <1>2, MovesTouch

LEMMA LookupTouch ==
    ASSUME IInv, NEW r \in Requests, NEW o \in Occs, GetSubscribers(r)
    PROVE  Touched(o)' => Touched(o) \/ outcome'[o] = "notified"
<1>1. CASE o = cur[r]
    BY <1>1 DEF GetSubscribers, IInv, TypeOK
<1>2. CASE o # cur[r]
  <2>1. InWork(o)' => InWork(o)
      BY <1>2 DEF GetSubscribers, InWork, IInv, TypeOK
  <2>2. UNCHANGED <<buffers, flushing, reported, copies>>
      BY DEF GetSubscribers, bufVars, ledgerVars
  <2>3. (InBuffer(o)' <=> InBuffer(o)) /\ (InFlight(o)' <=> InFlight(o))
      BY <2>2 DEF InBuffer, InFlight
  <2> QED
      BY <2>1, <2>2, <2>3 DEF Touched
<1> QED
    BY <1>1, <1>2

LEMMA SendTouch ==
    ASSUME IInv, NEW r \in Requests, NEW v \in Users, SendEvent(r, v), NEW o \in Occs
    PROVE  Touched(o)' => Touched(o)
<1>1. PICK e : e = cur[r]
    OBVIOUS
<1>2. PICK a \in Attempts(gone[r]) : Deliver({e}, v, a)
    BY <1>1 DEF SendEvent
<1>3. o # e => \A u \in Users : /\ copies'[<<o, u>>] = copies[<<o, u>>]
                                /\ reported'[<<o, u>>] = reported[<<o, u>>]
    BY <1>2, DeliverLedger DEF IInv, Attempts
<1>4. InWork(e)
    BY <1>1 DEF SendEvent, InWork, Late
<1>5. InWork(o)' => InWork(o)
    BY DEF SendEvent, BackToLoop, InWork, Late, IInv, TypeOK
<1>6. (InBuffer(o)' <=> InBuffer(o)) /\ (InFlight(o)' <=> InFlight(o))
    BY DEF SendEvent, bufVars, InBuffer, InFlight
<1> QED
    BY <1>3, <1>4, <1>5, <1>6 DEF Touched

LEMMA EnqueueTouch ==
    ASSUME IInv, NEW r \in Requests, EnqueueGrouped(r), NEW o \in Occs
    PROVE  Touched(o)' => Touched(o)
<1>1. PICK t \in Types : t = TypeOf[cur[r]]
    BY DEF EnqueueGrouped, IInv, TypeOK, Busy
<1>2. /\ buffers' = [buffers EXCEPT
                       ![t] = [events |-> @.events \cup {cur[r]},
                               users |-> @.users \cup rcpt[r]]]
      /\ pc[r] = "enqueue"
    BY <1>1 DEF EnqueueGrouped, Extended
<1>3. InBuffer(o)' => InBuffer(o) \/ o = cur[r]
    BY <1>2 DEF InBuffer, IInv, TypeOK
<1>4. InWork(cur[r])
    BY <1>2 DEF InWork, Late
<1>5. InWork(o)' => InWork(o)
    BY DEF EnqueueGrouped, BackToLoop, InWork, Late, IInv, TypeOK
<1>6. (InFlight(o)' <=> InFlight(o)) /\ UNCHANGED <<copies, reported>>
    BY DEF EnqueueGrouped, ledgerVars, InFlight
<1> QED
    BY <1>3, <1>4, <1>5, <1>6 DEF Touched

LEMMA TimerTouch ==
    ASSUME IInv, NEW t \in Types, TimerFires(t), NEW o \in Occs
    PROVE  Touched(o)' => Touched(o)
<1>1. InFlight(o)' => InFlight(o) \/ InBuffer(o)
    BY DEF TimerFires, InFlight, InBuffer
<1>2. InBuffer(o)' => InBuffer(o)
    BY DEF TimerFires, InBuffer, NoBuffer, IInv, TypeOK
<1>3. (InWork(o)' <=> InWork(o)) /\ UNCHANGED <<copies, reported>>
    BY DEF TimerFires, reqVars, ledgerVars, InWork
<1> QED
    BY <1>1, <1>2, <1>3 DEF Touched

LEMMA FlushTouch ==
    ASSUME IInv, NEW b \in flushing, NEW v \in Users, SendGrouped(b, v), NEW o \in Occs
    PROVE  Touched(o)' => Touched(o)
<1>1. PICK a \in Attempts(FALSE) :
          /\ Deliver(b.events, v, a)
          /\ flushing' = (flushing \ {b}) \cup
               {c \in {[b EXCEPT !.users = Remaining(@, v, a.ok)]} : c.users # {}}
    BY DEF SendGrouped
<1>2. o \notin b.events =>
          \A u \in Users : /\ copies'[<<o, u>>] = copies[<<o, u>>]
                           /\ reported'[<<o, u>>] = reported[<<o, u>>]
    BY <1>1, DeliverLedger DEF IInv, Attempts
<1>3. o \in b.events => InFlight(o)
    BY DEF InFlight
<1>4. InFlight(o)' => InFlight(o)
  <2>1. b \in Buffers
      BY DEF IInv, TypeOK
  <2> QED
      BY <1>1, <2>1 DEF InFlight, Buffers
<1>5. (InWork(o)' <=> InWork(o)) /\ (InBuffer(o)' <=> InBuffer(o))
    BY DEF SendGrouped, reqVars, InWork, InBuffer
<1> QED
    BY <1>2, <1>3, <1>4, <1>5 DEF Touched

LEMMA RestTouch ==
    ASSUME IInv, NEW o \in Occs,
           \/ \E u \in Users, t \in Types : Subscribe(u, t) \/ Unsubscribe(u, t)
           \/ CoolDown \/ QuietEdge \/ Restart \/ UNCHANGED vars
    PROVE  Touched(o)' => Touched(o)
<1>1. CASE Restart
  <2>1. ~InWork(o)' /\ ~InBuffer(o)' /\ ~InFlight(o)' /\ UNCHANGED reported
      BY <1>1 DEF Restart, InWork, Late, InBuffer, InFlight, NoBuffer
  <2>2. ASSUME NEW u \in Users, copies'[<<o, u>>] # copies[<<o, u>>]
        PROVE  InWork(o) \/ InFlight(o)
      BY <1>1, <2>2, RestartArrives DEF InWork, InFlight, Late
  <2> QED
      BY <2>1, <2>2 DEF Touched
<1>2. CASE ~Restart
  <2>1. UNCHANGED <<pc, cur, buffers, flushing, copies, reported>>
      BY <1>2 DEF Subscribe, Unsubscribe, CoolDown, QuietEdge, reqVars, bufVars, ledgerVars,
                  vars
  <2> QED
      BY <2>1 DEF Touched, InWork, InBuffer, InFlight
<1> QED
    BY <1>1, <1>2

LEMMA NextTouched ==
    ASSUME IInv, JInv, SinceInv, TouchedIsNotified, [Next]_vars
    PROVE  TouchedIsNotified'
<1>1. ASSUME NEW o \in Occs
      PROVE  Touched(o)' => Touched(o) \/ outcome'[o] = "notified"
    BY RequestTouch, LookupTouch, SendTouch, EnqueueTouch, TimerTouch, FlushTouch, RestTouch
    DEF Next, ProcessEvent, Flush
<1> QED
    BY <1>1, NotifiedStays DEF TouchedIsNotified

(* What a filter or the deduplicator stopped, what found nobody or could   *)
(* not be looked up, is never sent, counted as a notification or held by   *)
(* anybody: for any number of requests, users, buffers and restarts only   *)
(* an event whose subscribers were found reaches anybody                   *)
(* (service.go:61-103).                                                    *)
THEOREM StoppedIsNotSent == Spec => []OnlyNotifiedIsSent
<1>1. Init => TouchedIsNotified
  <2> SUFFICES ASSUME Init, NEW o \in Occs PROVE ~Touched(o)
      BY DEF TouchedIsNotified
  <2>1. ~InWork(o) /\ ~InBuffer(o) /\ ~InFlight(o)
      BY DEF Init, InWork, Late, InBuffer, InFlight, NoBuffer
  <2> QED
      BY <2>1 DEF Init, Touched, Pairs
<1>2. IInv /\ TouchedIsNotified => OnlyNotifiedIsSent
  <2> SUFFICES ASSUME IInv, TouchedIsNotified, NEW o \in Occs, NEW u \in Users,
                      outcome[o] # "notified"
               PROVE  /\ copies[<<o, u>>] = 0 /\ reported[<<o, u>>] = "none"
                      /\ ~Due(o, u)
      BY DEF OnlyNotifiedIsSent
  <2>1. ~Touched(o)
      BY DEF TouchedIsNotified
  <2>2. Due(o, u) => InWork(o) \/ InBuffer(o) \/ InFlight(o)
      BY DEF Due, InWork, InBuffer, InFlight, Late, IInv, RequestShape
  <2> QED
      BY <2>1, <2>2 DEF Touched
<1>3. CInv => SinceInv
    BY DEF CInv
<1> QED
    BY <1>1, <1>2, <1>3, NextTouched, InitCInv, NextCInv, InitJInv, NextJInv, InitAInv,
       NextAInv, Invariance, PTL DEF Spec

(* What a request or a buffer still has before it has lost nobody.         *)
Held(o) ==
    \/ \E r \in Requests : \/ o \in Ahead(r)
                           \/ pc[r] \in Busy /\ cur[r] = o
    \/ InBuffer(o) \/ InFlight(o)

NothingLostYet == \A o \in Occs : Held(o) => \A u \in Users : <<o, u>> \notin lost

(* No step takes an event up that nobody held.                             *)
LEMMA HeldIsOld ==
    ASSUME IInv, [Next]_vars, ~Restart, NEW o \in Occs
    PROVE  Held(o)' => Held(o)
<1>1. ASSUME Moves PROVE Held(o)' => Held(o)
    BY <1>1 DEF Moves, Held, Ahead, InBuffer, InFlight
<1>2. ASSUME NEW r \in Requests, \/ Receive(r) \/ Respond(r) \/ Disconnect(r)
                                 \/ StoreEvent(r) \/ StoreBlockedIP(r)
                                 \/ LookupFails(r) \/ FindNobody(r) \/ GetSubscribers(r)
      PROVE  Moves
    BY <1>2, RequestMoves, StoreMoves, LookupMoves
<1>3. ASSUME NEW r \in Requests, NEW e \in Occs,
             \/ SkipUnknown(r, e) \/ SkipFiltered(r, e)
             \/ SkipDuplicate(r, e) \/ Admit(r, e)
      PROVE  Moves
    BY <1>3, VerdictMoves
<1>4. ASSUME NEW r \in Requests, EnqueueGrouped(r) PROVE Held(o)' => Held(o)
  <2>1. PICK t \in Types : t = TypeOf[cur[r]]
      BY <1>4 DEF EnqueueGrouped, IInv, TypeOK, Busy
  <2>2. InBuffer(o)' => InBuffer(o) \/ o = cur[r]
      BY <1>4, <2>1 DEF EnqueueGrouped, Extended, InBuffer, IInv, TypeOK
  <2>3. /\ \A s \in Requests : Ahead(s)' = Ahead(s)
        /\ \A s \in Requests : pc'[s] \in Busy => pc[s] \in Busy /\ cur'[s] = cur[s]
        /\ pc[r] \in Busy /\ flushing' = flushing
      BY <1>4 DEF EnqueueGrouped, BackToLoop, Ahead, Busy, IInv, TypeOK
  <2> QED
      BY <2>2, <2>3 DEF Held, Ahead, InFlight
<1>5. ASSUME NEW r \in Requests, NEW u \in Users, SendEvent(r, u)
      PROVE  Held(o)' => Held(o)
  <2>1. /\ \A s \in Requests : Ahead(s)' = Ahead(s)
        /\ \A s \in Requests : pc'[s] \in Busy => pc[s] \in Busy /\ cur'[s] = cur[s]
        /\ UNCHANGED <<buffers, flushing>>
      BY <1>5 DEF SendEvent, BackToLoop, bufVars, Ahead, Busy, IInv, TypeOK
  <2> QED
      BY <2>1 DEF Held, Ahead, InBuffer, InFlight
<1>6. ASSUME NEW t \in Types, TimerFires(t) PROVE Held(o)' => Held(o)
  <2>1. InFlight(o)' => InFlight(o) \/ InBuffer(o)
      BY <1>6 DEF TimerFires, InFlight, InBuffer
  <2>2. InBuffer(o)' => InBuffer(o)
      BY <1>6 DEF TimerFires, InBuffer, NoBuffer, IInv, TypeOK
  <2>3. UNCHANGED <<pc, todo, cur>>
      BY <1>6 DEF TimerFires, reqVars
  <2> QED
      BY <2>1, <2>2, <2>3 DEF Held, Ahead
<1>7. ASSUME NEW b \in flushing, NEW u \in Users, SendGrouped(b, u)
      PROVE  Held(o)' => Held(o)
  <2>1. b \in Buffers
      BY DEF IInv, TypeOK
  <2>2. InFlight(o)' => InFlight(o)
      BY <1>7, <2>1 DEF SendGrouped, InFlight, Buffers
  <2>3. UNCHANGED <<pc, todo, cur, buffers>>
      BY <1>7 DEF SendGrouped, reqVars
  <2> QED
      BY <2>2, <2>3 DEF Held, Ahead, InBuffer
<1>8. CASE \/ \E u \in Users, t \in Types : Subscribe(u, t) \/ Unsubscribe(u, t)
           \/ CoolDown \/ QuietEdge \/ UNCHANGED vars
  <2>1. UNCHANGED <<pc, todo, cur, buffers, flushing>>
      BY <1>8 DEF Subscribe, Unsubscribe, CoolDown, QuietEdge, reqVars, bufVars, vars
  <2> QED
      BY <2>1 DEF Held, Ahead, InBuffer, InFlight
<1> QED
    BY <1>1, <1>2, <1>3, <1>4, <1>5, <1>6, <1>7, <1>8 DEF Next, ProcessEvent, Flush

LEMMA DeliverIsTrue ==
    ASSUME TypeOK, AtMostOnce', ArrivedIsCounted, NEW evs, NEW u,
           NEW a \in Attempts(FALSE) \cup Attempts(TRUE),
           Deliver(evs, u, a)
    PROVE  ArrivedIsCounted' /\ lost' = lost
<1>1. a.ok => a.landed
    BY DEF Attempts
<1>2. lost' = lost
    BY DEF Deliver
<1>3. ASSUME NEW p \in Pairs
      PROVE  /\ reported'[p] = "sent" => copies'[p] = 1
             /\ Uncounted(p)' => Uncounted(p)
  <2>1. /\ copies[p] \in Nat /\ copies'[p] <= 1
        /\ reported[p] = "sent" => copies[p] = 1
      BY DEF TypeOK, AtMostOnce, ArrivedIsCounted
  <2>2. /\ copies'[p] = IF p[1] \in evs /\ p[2] = u /\ a.landed
                        THEN copies[p] + 1 ELSE copies[p]
        /\ reported'[p] = IF p[1] \in evs /\ p[2] = u
                          THEN IF a.ok THEN "sent" ELSE "failed" ELSE reported[p]
      BY DEF Deliver
  <2> QED
      BY <1>1, <2>1, <2>2 DEF Uncounted
<1> QED
    BY <1>2, <1>3 DEF ArrivedIsCounted, Pairs

(* Of the users of one event at most one gets a message that the end of    *)
(* the process keeps from being counted: the event is at one place, and    *)
(* whoever writes from there writes to one user after the other.           *)
LEMMA RestartArrivesOnce ==
    ASSUME IInv, Restart, NEW o \in Occs, NEW u \in Users, NEW v \in Users,
           copies'[<<o, u>>] # copies[<<o, u>>], copies'[<<o, v>>] # copies[<<o, v>>]
    PROVE  u = v
<1>1. PICK messages \in SUBSET Sending : OneEach(messages) /\ Arrive(messages)
    BY DEF Restart
<1>2. PICK m \in messages : o \in m[1] /\ u = m[2]
    BY <1>1 DEF Arrive, Pairs
<1>3. PICK n \in messages : o \in n[1] /\ v = n[2]
    BY <1>1 DEF Arrive, Pairs
<1>4. ASSUME NEW k \in messages, o \in k[1]
      PROVE  \/ k[1] = {o} /\ ~InFlight(o)
             \/ \E b \in flushing : o \in b.events /\ k[1] = b.events
  <2>1. \/ \E r \in Requests : pc[r] = "send" /\ k[1] = {cur[r]}
        \/ \E b \in flushing : k[1] = b.events
      BY <1>1 DEF Sending
  <2>2. \A r \in Requests : pc[r] = "send" => ~InFlight(cur[r])
      BY DEF IInv, Fresh, CurIsFresh, Busy
  <2>3. ASSUME NEW r \in Requests, pc[r] = "send", k[1] = {cur[r]}
        PROVE  k[1] = {o} /\ ~InFlight(o)
    <3>1. o = cur[r]
        BY <1>4, <2>3
    <3> QED
        BY <2>2, <2>3, <3>1
  <2> QED
      BY <1>4, <2>1, <2>3
<1>5. m[1] = n[1]
  <2>1. CASE InFlight(o)
    <3>1. PICK b \in flushing : o \in b.events /\ m[1] = b.events
        BY <1>2, <1>4, <2>1
    <3>2. PICK c \in flushing : o \in c.events /\ n[1] = c.events
        BY <1>3, <1>4, <2>1
    <3>3. b = c
        BY <3>1, <3>2 DEF IInv, Fresh, BatchesAreApart
    <3> QED
        BY <3>1, <3>2, <3>3
  <2>2. CASE ~InFlight(o)
    <3>1. m[1] = {o} /\ n[1] = {o}
        BY <1>2, <1>3, <1>4, <2>2 DEF InFlight
    <3> QED
        BY <3>1
  <2> QED
      BY <2>1, <2>2
<1> QED
    BY <1>1, <1>2, <1>3, <1>5 DEF OneEach

LEMMA RestartIsTrue ==
    ASSUME IInv, ArrivedIsCounted, NothingLostYet, Restart
    PROVE  ArrivedIsCounted'
<1>1. /\ reported' = reported
      /\ lost' = lost \cup {p \in Pairs : Due(p[1], p[2])}
    BY DEF Restart
<1>2. ASSUME NEW o \in Occs, NEW u \in Users, copies'[<<o, u>>] # copies[<<o, u>>]
      PROVE  /\ reported[<<o, u>>] = "none" /\ <<o, u>> \in lost'
             /\ Held(o)
  <2>1. Due(o, u) /\ Held(o)
      BY <1>2, RestartArrives DEF Due, Held, InFlight, Busy
  <2> QED
      BY <1>1, <1>2, <2>1, RestartArrives DEF Pairs
<1>3. ASSUME NEW o \in Occs, NEW u \in Users
      PROVE  /\ reported'[<<o, u>>] = "sent" => copies'[<<o, u>>] = 1
             /\ Uncounted(<<o, u>>)' => <<o, u>> \in lost'
  <2>1. CASE copies'[<<o, u>>] = copies[<<o, u>>]
      BY <1>1, <2>1 DEF ArrivedIsCounted, Uncounted, Pairs
  <2>2. CASE copies'[<<o, u>>] # copies[<<o, u>>]
      BY <1>1, <1>2, <2>2
  <2> QED
      BY <2>1, <2>2
<1>4. ASSUME NEW o \in Occs, NEW u \in Users, NEW v \in Users,
             Uncounted(<<o, u>>)', Uncounted(<<o, v>>)'
      PROVE  u = v
  <2>1. ASSUME NEW w \in Users, Uncounted(<<o, w>>)',
               copies'[<<o, w>>] = copies[<<o, w>>]
        PROVE  Uncounted(<<o, w>>) /\ <<o, w>> \in lost
      BY <1>1, <2>1 DEF ArrivedIsCounted, Uncounted, Pairs
  <2>2. CASE /\ copies'[<<o, u>>] = copies[<<o, u>>]
             /\ copies'[<<o, v>>] = copies[<<o, v>>]
      BY <1>4, <2>1, <2>2 DEF ArrivedIsCounted
  <2>3. CASE /\ copies'[<<o, u>>] # copies[<<o, u>>]
             /\ copies'[<<o, v>>] # copies[<<o, v>>]
      BY <2>3, RestartArrivesOnce
  <2>4. CASE \/ /\ copies'[<<o, u>>] # copies[<<o, u>>]
                /\ copies'[<<o, v>>] = copies[<<o, v>>]
             \/ /\ copies'[<<o, u>>] = copies[<<o, u>>]
                /\ copies'[<<o, v>>] # copies[<<o, v>>]
      BY <1>2, <1>4, <2>1, <2>4 DEF NothingLostYet
  <2> QED
      BY <2>2, <2>3, <2>4
<1> QED
    BY <1>3, <1>4 DEF ArrivedIsCounted, Pairs

ArrivedInv == ArrivedIsCounted /\ NothingLostYet

LEMMA NextArrived ==
    ASSUME IInv, IInv', ArrivedInv, [Next]_vars
    PROVE  ArrivedInv'
<1>1. ASSUME ~Restart, ArrivedIsCounted', lost' = lost PROVE ArrivedInv'
    BY <1>1, HeldIsOld DEF ArrivedInv, NothingLostYet
<1>2. ASSUME NEW r \in Requests, NEW u \in Users, SendEvent(r, u), ~Restart
      PROVE  ArrivedInv'
  <2>1. PICK e : e = cur[r]
      OBVIOUS
  <2>2. PICK a \in Attempts(gone[r]) : Deliver({e}, u, a)
      BY <1>2, <2>1 DEF SendEvent
  <2>3. a \in Attempts(FALSE) \cup Attempts(TRUE)
      BY <2>2 DEF IInv, TypeOK
  <2> QED
      BY <1>1, <1>2, <2>2, <2>3, DeliverIsTrue DEF IInv, ArrivedInv
<1>3. ASSUME NEW b \in flushing, NEW u \in Users, SendGrouped(b, u), ~Restart
      PROVE  ArrivedInv'
  <2>1. PICK a \in Attempts(FALSE) : Deliver(b.events, u, a)
      BY <1>3 DEF SendGrouped
  <2> QED
      BY <1>1, <1>3, <2>1, DeliverIsTrue DEF IInv, ArrivedInv
<1>4. CASE Restart
  <2>1. ArrivedIsCounted'
      BY <1>4, RestartIsTrue DEF ArrivedInv
  <2>2. ASSUME NEW o \in Occs, Held(o)' PROVE \A u \in Users : <<o, u>> \notin lost'
    <3>1. \A r \in Requests : pc'[r] \notin Busy
        BY <1>4 DEF Restart, Busy
    <3>2. ~InBuffer(o)' /\ ~InFlight(o)'
        BY <1>4 DEF Restart, InBuffer, InFlight, NoBuffer
    <3>3. \E r \in Requests : o \in Ahead(r)'
        BY <2>2, <3>1, <3>2 DEF Held
    <3> QED
        BY <3>3 DEF IInv, Fresh, AheadIsFresh, Untouched
  <2> QED
      BY <2>1, <2>2 DEF ArrivedInv, NothingLostYet
<1>5. ASSUME UNCHANGED <<copies, reported, lost>>, ~Restart
      PROVE  ArrivedInv'
    BY <1>1, <1>5 DEF ArrivedInv, ArrivedIsCounted, Uncounted
<1>6. ASSUME NEW r \in Requests, Receive(r) \/ Respond(r) \/ Disconnect(r)
      PROVE  UNCHANGED <<copies, reported, lost>>
    BY <1>6 DEF Receive, Respond, Disconnect, ledgerVars
<1>7. ASSUME NEW r \in Requests, ProcessEvent(r), \A u \in Users : ~SendEvent(r, u)
      PROVE  UNCHANGED <<copies, reported, lost>>
    BY <1>7 DEF ProcessEvent, SkipUnknown, SkipFiltered, SkipDuplicate, Drop, Admit,
                StoreEvent, StoreBlockedIP, LookupFails, FindNobody, GetSubscribers,
                EnqueueGrouped, ledgerVars
<1>8. CASE \/ \E t \in Types : TimerFires(t)
           \/ \E u \in Users, t \in Types : Subscribe(u, t) \/ Unsubscribe(u, t)
           \/ CoolDown \/ QuietEdge \/ UNCHANGED vars
  <2>1. UNCHANGED <<copies, reported, lost>>
      BY <1>8 DEF TimerFires, Subscribe, Unsubscribe, CoolDown, QuietEdge, ledgerVars, vars
  <2> QED
      BY <1>4, <1>5, <2>1
<1> QED
    BY <1>2, <1>3, <1>4, <1>5, <1>6, <1>7, <1>8 DEF Next, Flush

(* A notification that is counted as sent has reached its user exactly     *)
(* once.  One that reached its user is counted, as sent or, when the       *)
(* answer of Telegram was lost, as failed, unless the process ended        *)
(* between the two; and of one event that befalls one user at the most:    *)
(* for any number of requests, users, buffers and restarts                 *)
(* (service.go:95-102, 127-140, 171-180).                                  *)
THEOREM CountsAreHonest == Spec => []ArrivedIsCounted
<1>1. Init => ArrivedInv
  <2> SUFFICES ASSUME Init PROVE ArrivedInv
      OBVIOUS
  <2>1. /\ \A p \in Pairs : reported[p] = "none" /\ copies[p] = 0
        /\ lost = {}
      BY DEF Init
  <2> QED
      BY <2>1 DEF ArrivedInv, ArrivedIsCounted, Uncounted, NothingLostYet, Pairs
<1>2. ArrivedInv => ArrivedIsCounted
    BY DEF ArrivedInv
<1> QED
    BY <1>1, <1>2, NextArrived, Invariance, PTL DEF Spec

-----------------------------------------------------------------------------
(***************************************************************************)
(* The fifth part: what RequestsAnswered and DueIsSettled rest on besides  *)
(* fairness.  A request at work can always go on, and every step of it     *)
(* brings it nearer to its answer; whoever is due is held by somebody who  *)
(* can go on.                                                              *)
(***************************************************************************)

AtWork(r) == pc[r] \in Busy \cup {"loop"}

(* Some event of the payload has a verdict to come, or none is left.       *)
LoopReady(r) ==
    \/ todo[r] = {}
    \/ \E o \in Occs \cap todo[r] :
          \/ ~IsSupported(TypeOf[o])
          \/ IsSupported(TypeOf[o]) /\ Filtered(o)
          \/ IsSupported(TypeOf[o]) /\ ~Filtered(o) /\ (Dedup => KeyOf(o) \notin hot)
          \/ IsSupported(TypeOf[o]) /\ ~Filtered(o) /\ Dedup /\ KeyOf(o) \in hot

(* The guards of ProcessEvent(r) and Respond(r).                           *)
RequestReady(r) ==
    \/ pc[r] = "loop" /\ LoopReady(r)
    \/ pc[r] \in {"store", "block"} /\ (MayWrite(r) \/ MayFail(r))
    \/ /\ pc[r] = "lookup"
       /\ \/ Faults \/ gone[r]
          \/ ~gone[r] /\ Subscribers(TypeOf[cur[r]]) = {}
          \/ ~gone[r] /\ Subscribers(TypeOf[cur[r]]) # {}
    \/ pc[r] = "send" /\ Users \cap rcpt[r] # {} /\ Attempts(gone[r]) # {}
    \/ pc[r] = "enqueue"

(* Somebody who holds the pair can go on.                                  *)
HolderReady(o, u) ==
    \/ \E r \in Requests : cur[r] = o /\ u \in rcpt[r] /\ RequestReady(r)
    \/ \E t \in timers : o \in buffers[t].events /\ u \in buffers[t].users
    \/ \E b \in flushing : /\ o \in b.events /\ u \in b.users
                           /\ Attempts(FALSE) # {}

NothingIsStuck ==
    /\ \A r \in Requests : AtWork(r) => RequestReady(r)
    /\ \A o \in Occs, u \in Users : Due(o, u) => HolderReady(o, u)

(* Nobody is left in a loop over no users.                                 *)
SomeoneToServe == \A r \in Requests : pc[r] = "send" => rcpt[r] # {}

LEMMA SomeAttempt ==
    ASSUME NEW c \in BOOLEAN
    PROVE  Attempts(c) # {}
<1>1. c => [ok |-> FALSE, landed |-> FALSE] \in Attempts(c)
    BY DEF Attempts
<1>2. ~c => [ok |-> TRUE, landed |-> TRUE] \in Attempts(c)
    BY DEF Attempts
<1> QED
    BY <1>1, <1>2

LEMMA ReadyAtWork ==
    ASSUME TypeOK, SomeoneToServe, NEW r \in Requests, AtWork(r)
    PROVE  RequestReady(r)
<1>1. CASE pc[r] = "loop"
  <2>1. todo[r] = {} \/ \E o \in Occs \cap todo[r] : TRUE
      BY DEF TypeOK
  <2>2. LoopReady(r)
      BY <2>1 DEF LoopReady
  <2> QED
      BY <1>1, <2>2 DEF RequestReady
<1>2. CASE pc[r] \in {"store", "block"}
    BY <1>2 DEF RequestReady, MayWrite, MayFail
<1>3. CASE pc[r] \in {"lookup", "enqueue"}
    BY <1>3 DEF RequestReady
<1>4. CASE pc[r] = "send"
  <2>1. gone[r] \in BOOLEAN /\ rcpt[r] \subseteq Users /\ rcpt[r] # {}
      BY <1>4 DEF TypeOK, SomeoneToServe
  <2>2. Attempts(gone[r]) # {}
      BY <2>1, SomeAttempt
  <2> QED
      BY <1>4, <2>1, <2>2 DEF RequestReady
<1> QED
    BY <1>1, <1>2, <1>3, <1>4 DEF AtWork, Busy

LEMMA ReadyHolders ==
    ASSUME TypeOK, RequestShape, SomeoneToServe, TimerArmed,
           NEW o \in Occs, NEW u \in Users, Due(o, u)
    PROVE  HolderReady(o, u)
<1>1. ASSUME NEW r \in Requests, cur[r] = o, u \in rcpt[r]
      PROVE  HolderReady(o, u)
  <2>1. AtWork(r)
      BY <1>1 DEF RequestShape, AtWork, Busy
  <2> QED
      BY <1>1, <2>1, ReadyAtWork DEF HolderReady
<1>2. ASSUME NEW t \in Types, o \in buffers[t].events, u \in buffers[t].users
      PROVE  HolderReady(o, u)
    BY <1>2 DEF TimerArmed, HolderReady
<1>3. ASSUME NEW b \in flushing, o \in b.events, u \in b.users
      PROVE  HolderReady(o, u)
    BY <1>3, SomeAttempt DEF HolderReady
<1> QED
    BY <1>1, <1>2, <1>3 DEF Due

LEMMA NextServes ==
    ASSUME TypeOK, SomeoneToServe, [Next]_vars
    PROVE  SomeoneToServe'
<1> SUFFICES ASSUME NEW s \in Requests, pc'[s] = "send" PROVE rcpt'[s] # {}
    BY DEF SomeoneToServe
<1>1. ASSUME NEW r \in Requests, Receive(r) \/ Respond(r) \/ Disconnect(r)
      PROVE  rcpt'[s] # {}
    BY <1>1 DEF Receive, Respond, Disconnect, TypeOK, SomeoneToServe
<1>2. ASSUME NEW r \in Requests, NEW o \in Occs,
             SkipUnknown(r, o) \/ SkipFiltered(r, o) \/ SkipDuplicate(r, o)
      PROVE  rcpt'[s] # {}
    BY <1>2 DEF SkipUnknown, SkipFiltered, SkipDuplicate, Drop, SomeoneToServe
<1>3. ASSUME NEW r \in Requests, NEW o \in Occs, Admit(r, o)
      PROVE  rcpt'[s] # {}
    BY <1>3 DEF Admit, TypeOK, SomeoneToServe
<1>4. ASSUME NEW r \in Requests, StoreEvent(r) \/ StoreBlockedIP(r)
      PROVE  rcpt'[s] # {}
    BY <1>4 DEF StoreEvent, StoreBlockedIP, TypeOK, SomeoneToServe
<1>5. ASSUME NEW r \in Requests, LookupFails(r) \/ FindNobody(r)
      PROVE  rcpt'[s] # {}
    BY <1>5 DEF LookupFails, FindNobody, BackToLoop, TypeOK, SomeoneToServe
<1>6. ASSUME NEW r \in Requests, GetSubscribers(r)
      PROVE  rcpt'[s] # {}
    BY <1>6 DEF GetSubscribers, TypeOK, SomeoneToServe
<1>7. ASSUME NEW r \in Requests, EnqueueGrouped(r)
      PROVE  rcpt'[s] # {}
    BY <1>7 DEF EnqueueGrouped, BackToLoop, TypeOK, SomeoneToServe
<1>8. ASSUME NEW r \in Requests, NEW u \in Users, SendEvent(r, u)
      PROVE  rcpt'[s] # {}
    BY <1>8 DEF SendEvent, BackToLoop, TypeOK, SomeoneToServe
<1>9. CASE \/ Flush \/ \E t \in Types : TimerFires(t)
           \/ \E v \in Users, t \in Types : Subscribe(v, t) \/ Unsubscribe(v, t)
           \/ CoolDown \/ QuietEdge \/ UNCHANGED vars
    BY <1>9 DEF Flush, SendGrouped, TimerFires, Subscribe, Unsubscribe,
                CoolDown, QuietEdge, reqVars, vars, SomeoneToServe
<1>10. CASE Restart
    BY <1>10 DEF Restart
<1> QED
    BY <1>1, <1>2, <1>3, <1>4, <1>5, <1>6, <1>7, <1>8, <1>9, <1>10 DEF Next, ProcessEvent

(* At any moment a request at work has a next step, whatever failed and    *)
(* whether or not its client is still there, and whoever is due is held by *)
(* a request that can go on, by a buffer whose timer runs or by a batch    *)
(* that can be sent: nobody waits for anybody (server.go:102-115,          *)
(* service.go:61-181).                                                     *)
THEOREM NobodyIsStuck == Spec => []NothingIsStuck
<1>1. Init => SomeoneToServe
    BY DEF Init, SomeoneToServe
<1>2. IInv /\ SomeoneToServe /\ TimerArmed => NothingIsStuck
    BY ReadyAtWork, ReadyHolders DEF NothingIsStuck, IInv
<1> QED
    BY <1>1, <1>2, NextServes, TypeCorrect, Invariance, BuffersAreTimed, PTL DEF Spec

(* How many stages of one event a request has before it.                   *)
StagesLeft(s) ==
    CASE s = "store" -> 4 [] s = "block" -> 3 [] s = "lookup" -> 2
      [] s \in {"send", "enqueue"} -> 1
      [] s = "loop" -> 0

(* A request gets on: it is answered, or takes an event off its payload,   *)
(* or comes to a later stage of the event it is at, or serves a user.      *)
GetsOn(r) ==
    \/ pc'[r] = "done"
    \/ todo'[r] \subseteq todo[r] /\ todo'[r] # todo[r]
    \/ /\ todo'[r] = todo[r]
       /\ \/ StagesLeft(pc'[r]) < StagesLeft(pc[r])
          \/ /\ pc'[r] = pc[r] /\ cur'[r] = cur[r]
             /\ rcpt'[r] \subseteq rcpt[r] /\ rcpt'[r] # rcpt[r]

(* Nobody else sets it back, but for the end of the process.               *)
LeftAlone(r) ==
    /\ UNCHANGED <<pc[r], todo[r], cur[r], rcpt[r]>>
    /\ gone[r] => gone'[r]

RequestsGetOn ==
    \A r \in Requests :
        AtWork(r) => \/ GetsOn(r) /\ (AtWork(r)' \/ pc'[r] = "done")
                     \/ LeftAlone(r) /\ ~ProcessEvent(r) /\ ~Respond(r)
                     \/ pc'[r] = "dead"

LEMMA OwnStepGetsOn ==
    ASSUME TypeOK, RequestShape, NEW r \in Requests, AtWork(r), ProcessEvent(r) \/ Respond(r)
    PROVE  GetsOn(r) /\ (AtWork(r)' \/ pc'[r] = "done")
<1>1. CASE Respond(r)
    BY <1>1 DEF Respond, GetsOn, TypeOK
<1>2. ASSUME NEW o \in Occs, SkipUnknown(r, o) \/ SkipFiltered(r, o) \/ SkipDuplicate(r, o)
      PROVE  GetsOn(r) /\ AtWork(r)'
    BY <1>2 DEF SkipUnknown, SkipFiltered, SkipDuplicate, Drop, GetsOn, AtWork, TypeOK
<1>3. ASSUME NEW o \in Occs, Admit(r, o)
      PROVE  GetsOn(r) /\ AtWork(r)'
    BY <1>3 DEF Admit, GetsOn, AtWork, Busy, TypeOK
<1>4. CASE StoreEvent(r)
    BY <1>4 DEF StoreEvent, GetsOn, StagesLeft, AtWork, Busy, TypeOK
<1>5. CASE StoreBlockedIP(r)
    BY <1>5 DEF StoreBlockedIP, GetsOn, StagesLeft, AtWork, Busy, TypeOK
<1>6. CASE LookupFails(r) \/ FindNobody(r) \/ GetSubscribers(r)
    BY <1>6 DEF LookupFails, FindNobody, GetSubscribers, BackToLoop, GetsOn, StagesLeft,
                AtWork, Busy, TypeOK
<1>7. CASE EnqueueGrouped(r)
    BY <1>7 DEF EnqueueGrouped, BackToLoop, GetsOn, StagesLeft, AtWork, TypeOK
<1>8. ASSUME NEW u \in Users, SendEvent(r, u)
      PROVE  GetsOn(r) /\ AtWork(r)'
  <2>1. /\ pc[r] = "send" /\ u \in rcpt[r] /\ rcpt'[r] = rcpt[r] \ {u} /\ todo'[r] = todo[r]
        /\ \/ pc'[r] = "loop"
           \/ pc'[r] = "send" /\ cur'[r] = cur[r]
      BY <1>8 DEF SendEvent, BackToLoop, Remaining, TypeOK
  <2> QED
      BY <2>1 DEF GetsOn, StagesLeft, AtWork, Busy
<1> QED
    BY <1>1, <1>2, <1>3, <1>4, <1>5, <1>6, <1>7, <1>8 DEF ProcessEvent

LEMMA OthersLeaveAlone ==
    ASSUME TypeOK, NEW s \in Requests, AtWork(s),
           \/ \E r \in Requests : Receive(r) \/ Disconnect(r)
           \/ \E r \in Requests \ {s} : ProcessEvent(r) \/ Respond(r)
           \/ Flush \/ \E t \in Types : TimerFires(t)
           \/ \E u \in Users, t \in Types : Subscribe(u, t) \/ Unsubscribe(u, t)
           \/ CoolDown \/ QuietEdge \/ UNCHANGED vars
    PROVE  LeftAlone(s)
<1>1. ASSUME NEW r \in Requests, Receive(r) \/ Disconnect(r)
      PROVE  LeftAlone(s)
    BY <1>1 DEF Receive, Disconnect, LeftAlone, AtWork, Busy, TypeOK
<1>2. ASSUME NEW r \in Requests \ {s}, NEW o \in Occs,
             \/ SkipUnknown(r, o) \/ SkipFiltered(r, o)
             \/ SkipDuplicate(r, o) \/ Admit(r, o)
      PROVE  LeftAlone(s)
    BY <1>2 DEF SkipUnknown, SkipFiltered, SkipDuplicate, Drop, Admit, LeftAlone, TypeOK
<1>3. ASSUME NEW r \in Requests \ {s},
             \/ Respond(r) \/ StoreEvent(r) \/ StoreBlockedIP(r)
             \/ LookupFails(r) \/ FindNobody(r) \/ GetSubscribers(r) \/ EnqueueGrouped(r)
      PROVE  LeftAlone(s)
    BY <1>3 DEF Respond, StoreEvent, StoreBlockedIP, LookupFails, FindNobody,
                GetSubscribers, EnqueueGrouped, BackToLoop, LeftAlone, TypeOK
<1>4. ASSUME NEW r \in Requests \ {s}, NEW u \in Users, SendEvent(r, u)
      PROVE  LeftAlone(s)
    BY <1>4 DEF SendEvent, BackToLoop, LeftAlone, TypeOK
<1>5. CASE \/ Flush \/ \E t \in Types : TimerFires(t)
           \/ \E u \in Users, t \in Types : Subscribe(u, t) \/ Unsubscribe(u, t)
           \/ CoolDown \/ QuietEdge \/ UNCHANGED vars
    BY <1>5 DEF Flush, SendGrouped, TimerFires, Subscribe, Unsubscribe, CoolDown,
                QuietEdge, reqVars, vars, LeftAlone
<1> QED
    BY <1>1, <1>2, <1>3, <1>4, <1>5 DEF ProcessEvent

(* Every step of a request brings it nearer to its answer: an event is     *)
(* taken off the payload once, its stages are passed in one direction, and *)
(* every recipient is tried once; a failure or a client that hangs up does *)
(* not set it back, and no other request, timer, bot command or change of  *)
(* the clock touches it.  Payloads and user lists being finite, a request  *)
(* that is run comes to its answer unless the process ends                 *)
(* (server.go:102-115, service.go:61-103).                                 *)
THEOREM RequestsComeNearer == Spec => [][RequestsGetOn]_vars
<1>1. ASSUME TypeOK, RequestShape, [Next]_vars
      PROVE  [RequestsGetOn]_vars
  <2> SUFFICES ASSUME ~UNCHANGED vars, NEW s \in Requests, AtWork(s)
               PROVE  \/ GetsOn(s) /\ (AtWork(s)' \/ pc'[s] = "done")
                      \/ LeftAlone(s) /\ ~ProcessEvent(s) /\ ~Respond(s)
                      \/ pc'[s] = "dead"
      BY DEF RequestsGetOn
  <2>1. CASE ProcessEvent(s) \/ Respond(s)
      BY <1>1, <2>1, OwnStepGetsOn
  <2>2. CASE Restart
      BY <2>2 DEF Restart, AtWork, Busy, TypeOK
  <2>3. CASE ~(ProcessEvent(s) \/ Respond(s)) /\ ~Restart
    <3>1. LeftAlone(s)
        BY <1>1, <2>3, OthersLeaveAlone DEF Next
    <3> QED
        BY <2>3, <3>1
  <2> QED
      BY <2>1, <2>2, <2>3
<1>2. IInv => TypeOK /\ RequestShape
    BY DEF IInv
<1> QED
    BY <1>1, <1>2, Invariance, PTL DEF Spec
=============================================================================
