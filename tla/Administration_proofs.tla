------------------------ MODULE Administration_proofs ------------------------
(***************************************************************************)
(* Proofs about the figures of the admin commands for any events, users,   *)
(* retention and clock.                                                    *)
(*                                                                         *)
(* CountsMissNothing is not inductive: it follows from the rows that are   *)
(* gone being older than the retention, which the clock only makes truer.  *)
(* DayWithinTotal is about the moment the third figure is there; between   *)
(* the second and that moment the rows without the arrivals are no more    *)
(* than the total was.                                                     *)
(*                                                                         *)
(* ListedAddUp holds because every row has a type that is listed, which    *)
(* each insertion keeps.  It compares a count with a sum over the types, a *)
(* fold.  The number of events with a type in T satisfies the equation of  *)
(* the fold, for every set T of types, and no two functions satisfy it:    *)
(* they would differ at a set with as few types as possible, and agree at  *)
(* the next smaller one.                                                   *)
(***************************************************************************)
EXTENDS Administration, FiniteSetTheorems, TLAPS

(* Where a command is among its statements.                                *)
Progress ==
    \A h \in Handlers :
        /\ command[h] = None => figures[h] = <<>>
        /\ command[h] # None => Len(figures[h]) <= Len(Statements(command[h].kind))

Finite ==
    /\ IsFiniteSet(rows)
    /\ \A h \in Handlers : IsFiniteSet(arrivals[h])

(* What is not in the table any more is older than the retention.          *)
GoneIsExpired ==
    /\ rows \subseteq everStored
    /\ \A e \in everStored \ rows : retention > 0 /\ e[2] < today - retention

(* The rows of the total are those that did not arrive since, or fewer.    *)
TotalBounds ==
    \A h \in Handlers :
        command[h].kind = "stats" /\ Len(figures[h]) = 2 /\ ~dropped[h] =>
            Cardinality(rows \ arrivals[h]) <= figures[h][2]

(* What is stored is of a type that is listed.                             *)
StoredAreListed == \A e \in rows : TypeOf[e[1]] \in SupportedTypes

IInv ==
    /\ TypeOK /\ Progress /\ Finite
    /\ GoneIsExpired /\ TotalBounds /\ DayWithinTotal /\ StoredAreListed

-----------------------------------------------------------------------------

LEMMA StatementsShape ==
    ASSUME NEW c \in Commands
    PROVE  /\ Len(Statements(c.kind)) = IF c.kind = "stats" THEN 3 ELSE 1
           /\ c.kind = "stats" => Statements(c.kind) = <<"subscribers", "events", "events_24h">>
           /\ c.kind = "status" => Statements(c.kind)[1] = "subscribers"
           /\ c.kind \notin {"stats", "status"} => Statements(c.kind)[1] = c.kind
           /\ c # None /\ c.kind \in Kinds
BY DEF Commands, Kinds, Statements, None, NoArg

LEMMA SinceIsFinite ==
    ASSUME Finite, NEW days
    PROVE  /\ Since(days) \subseteq rows
           /\ IsFiniteSet(Since(days)) /\ Cardinality(Since(days)) \in Nat
<1>1. Since(days) \subseteq rows
    BY DEF Since
<1> QED BY <1>1, FS_Subset, FS_CardinalityType DEF Finite

LEMMA LimitIsBounded ==
    ASSUME NEW arg \in Asked \cup {NoArg}
    PROVE  Limit(arg) \in 1..500
BY NumberAssumption DEF Limit, NoArg

(* A statement returns a natural number, /blocked's no more than 500.      *)
LEMMA ResultIsNat ==
    ASSUME TypeOK, Finite, NEW h \in Handlers, Pending(h)
    PROVE  /\ Result(Current(h), command[h].arg) \in Nat
           /\ Current(h) = "blocked" => Result(Current(h), command[h].arg) <= 500
<1> DEFINE arg == command[h].arg
<1>0. command[h] \in Commands /\ arg \in Asked \cup {NoArg}
    BY DEF TypeOK, Pending, Commands
<1>1. Current(h) \in {"subscribers", "events", "events_24h", "users",
                      "events_count", "blocked"}
    <2>1. Len(figures[h]) \in Nat
        BY DEF TypeOK
    <2>2. Len(figures[h]) < Len(Statements(command[h].kind))
        BY DEF Pending
    <2>3. CASE command[h].kind = "stats"
        BY <1>0, <2>1, <2>2, <2>3, StatementsShape DEF Current
    <2>4. CASE command[h].kind # "stats"
        <3>1. Len(figures[h]) + 1 = 1
            BY <1>0, <2>1, <2>2, <2>4, StatementsShape
        <3> QED BY <1>0, <3>1, <2>4, StatementsShape DEF Current, Kinds
    <2> QED BY <2>3, <2>4
<1>2. SubscribersCount \in Nat /\ Cardinality(DOMAIN UsersWithSubscriptionCount) \in Nat
    <2>1. {s[1] : s \in subs} \subseteq Users
        BY DEF TypeOK
    <2>2. Cardinality({s[1] : s \in subs}) \in Nat
        BY <2>1, FS_Subset, FS_CardinalityType, UserAssumption
    <2> QED BY <2>2 DEF SubscribersCount, UsersWithSubscriptionCount
<1>3. EventsCount(0) \in Nat /\ EventsCount(1) \in Nat
    BY SinceIsFinite DEF EventsCount
<1>4. \A days : Cardinality(DOMAIN EventLines(days)) \in Nat
    <2> TAKE days
    <2>1. DOMAIN EventLines(days) \subseteq SupportedTypes
        BY DEF EventLines
    <2> QED BY <2>1, FS_Subset, FS_CardinalityType, EventAssumption
<1>5. Min({Limit(arg), Blocked}) \in 0..500
    <2> DEFINE S == {Limit(arg), Blocked}
    <2>1. Limit(arg) \in 1..500 /\ Blocked \in Nat
        BY <1>0, LimitIsBounded, NumberAssumption
    <2>2. \E x \in S : \A y \in S : x =< y
        BY <2>1
    <2>3. Min(S) \in S /\ \A y \in S : Min(S) =< y
        BY <2>2 DEF Min
    <2> QED BY <2>1, <2>3
<1> QED
    BY <1>1, <1>2, <1>3, <1>4, <1>5 DEF Result

LEMMA AppendLength ==
    ASSUME NEW s \in Seq(Nat), NEW n \in Nat, NEW t, t = Append(s, n)
    PROVE  /\ Len(t) = Len(s) + 1 /\ Len(s) \in Nat
           /\ Len(t) = 2 => Len(s) = 1
           /\ Len(t) = 3 => Len(s) = 2
<1>1. Len(t) = Len(s) + 1 /\ Len(s) \in Nat
    OBVIOUS
<1>2. PICK k \in Nat : Len(s) = k
    BY <1>1
<1>3. PICK l : Len(t) = l
    OBVIOUS
<1>4. l = k + 1
    BY <1>1, <1>2, <1>3
<1>5. (l = 2 => k = 1) /\ (l = 3 => k = 2)
    BY <1>4
<1> QED BY <1>1, <1>2, <1>3, <1>5

-----------------------------------------------------------------------------
(* Types and progress.                                                     *)

LEMMA TypeInit == Init => TypeOK /\ Progress /\ Finite
<1> SUFFICES ASSUME Init PROVE TypeOK /\ Progress /\ Finite
    OBVIOUS
<1>1. TypeOK
    BY NumberAssumption DEF Init, TypeOK, None
<1>2. Progress /\ Finite
    BY FS_EmptySet DEF Init, Progress, Finite
<1> QED BY <1>1, <1>2

LEMMA ShowsKeeps ==
    ASSUME TypeOK, Progress, Finite, NEW h \in Handlers, NEW n \in Nat, Pending(h),
           Shows(h, n), Current(h) = "blocked" => n <= 500,
           dropped' \in [Handlers -> BOOLEAN]
    PROVE  TypeOK' /\ Progress' /\ Finite'
<1>1. command[h] \in Commands /\ figures[h] \in Seq(Nat) /\ command' = command
    BY DEF TypeOK, Pending, Shows
<1>2. /\ figures'[h] = Append(figures[h], n)
      /\ \A g \in Handlers \ {h} : figures'[g] = figures[g]
      /\ figures' = [figures EXCEPT ![h] = Append(figures[h], n)]
    BY DEF TypeOK, Shows
<1>3. Len(figures'[h]) = Len(figures[h]) + 1 /\ figures'[h] \in Seq(Nat)
    BY <1>1, <1>2
<1>4. Len(figures'[h]) <= Len(Statements(command[h].kind))
    BY <1>1, <1>3, StatementsShape DEF Pending
<1>5. command[h].kind = "blocked" => figures'[h] = <<n>> /\ n <= 500
    <2> HAVE command[h].kind = "blocked"
    <2>1. Len(figures[h]) = 0
        BY <1>1, <1>3, <1>4, StatementsShape
    <2>2. Current(h) = "blocked"
        BY <1>1, <2>1, StatementsShape DEF Current
    <2>3. figures[h] = <<>>
        BY <1>1, <2>1
    <2>4. figures'[h] = <<n>>
        BY <1>2, <2>3
    <2> QED BY <2>2, <2>4
<1>6. arrivals' \in [Handlers -> SUBSET Rows] /\ \A g \in Handlers : IsFiniteSet(arrivals'[g])
    BY FS_EmptySet DEF TypeOK, Finite, Shows
<1>7. TypeOK'
    <2>1. figures' \in [Handlers -> Seq(Nat)]
        BY <1>2, <1>3 DEF TypeOK
    <2>2. \A g \in Handlers : Len(figures'[g]) <= 3
        BY <1>1, <1>2, <1>4, StatementsShape DEF TypeOK
    <2>3. \A g \in Handlers :
            command[g].kind = "blocked" /\ figures'[g] # <<>> => figures'[g][1] <= 500
        <3> TAKE g \in Handlers
        <3>1. CASE g = h
            BY <3>1, <1>5
        <3>2. CASE g # h
            BY <3>2, <1>2 DEF TypeOK
        <3> QED BY <3>1, <3>2
    <2> QED BY <1>1, <1>6, <2>1, <2>2, <2>3 DEF TypeOK, Shows, tables
<1>8. Progress'
    BY <1>1, <1>2, <1>4, StatementsShape DEF Progress
<1>9. Finite'
    BY <1>6 DEF Finite, Shows, tables
<1> QED BY <1>7, <1>8, <1>9

LEMMA TypeStep ==
    ASSUME TypeOK, Progress, Finite, [Next]_vars
    PROVE  TypeOK' /\ Progress' /\ Finite'
<1>1. ASSUME NEW h \in Handlers, Begin(h)
      PROVE  TypeOK' /\ Progress' /\ Finite'
    <2>1. PICK c \in Commands : command' = [command EXCEPT ![h] = c]
        BY <1>1 DEF Begin
    <2>2. figures[h] = <<>>
        BY <1>1 DEF Begin, Progress
    <2>3. TypeOK'
        BY <1>1, <2>1, <2>2 DEF TypeOK, Begin, tables
    <2>4. Len(<<>>) <= Len(Statements(c.kind)) /\ c # None
        BY StatementsShape
    <2>5. Progress'
        BY <1>1, <2>1, <2>2, <2>4 DEF TypeOK, Progress, Begin
    <2> QED BY <1>1, <2>3, <2>5 DEF Begin, Finite, tables
<1>2. ASSUME NEW h \in Handlers, Count(h)
      PROVE  TypeOK' /\ Progress' /\ Finite'
    BY <1>2, ResultIsNat, ShowsKeeps DEF Count, TypeOK
<1>3. ASSUME NEW h \in Handlers, DropError(h)
      PROVE  TypeOK' /\ Progress' /\ Finite'
    <2>1. dropped' \in [Handlers -> BOOLEAN]
        BY <1>3 DEF DropError, TypeOK
    <2> QED BY <1>3, <2>1, ShowsKeeps DEF DropError
<1>4. ASSUME NEW h \in Handlers, Return(h)
      PROVE  TypeOK' /\ Progress' /\ Finite'
    <2>1. TypeOK'
        BY <1>4 DEF TypeOK, Return, None, tables
    <2>2. Progress' /\ Finite'
        BY <1>4, FS_EmptySet DEF TypeOK, Progress, Finite, Return, tables
    <2> QED BY <2>1, <2>2
<1>5. CASE StoreEvent
    <2>1. PICK i \in Ids, day \in 0..MaxDay :
            /\ \A e \in rows : e[1] # i
            /\ rows' = rows \cup {<<i, day>>}
            /\ everStored' = everStored \cup {<<i, day>>}
            /\ arrivals' = [h \in Handlers |-> IF command[h] = None THEN {}
                                               ELSE arrivals[h] \cup {<<i, day>>}]
        BY <1>5 DEF StoreEvent
    <2>2. <<i, day>> \in Rows
        BY NumberAssumption DEF Rows
    <2>3. TypeOK'
        <3>1. rows' \subseteq Rows /\ everStored' \subseteq Rows
            BY <2>1, <2>2 DEF TypeOK
        <3>2. \A e, f \in rows' : e[1] = f[1] => e = f
            BY <2>1 DEF TypeOK
        <3>3. arrivals' \in [Handlers -> SUBSET Rows]
            BY <2>1, <2>2 DEF TypeOK
        <3>4. UNCHANGED <<today, retention, subs, command, figures, dropped>>
            BY <1>5 DEF StoreEvent
        <3> QED BY <3>1, <3>2, <3>3, <3>4 DEF TypeOK
    <2>4. Progress'
        BY <1>5 DEF Progress, StoreEvent
    <2>5. Finite'
        BY <2>1, FS_AddElement, FS_EmptySet DEF Finite
    <2> QED BY <2>3, <2>4, <2>5
<1>6. CASE PurgeOldEvents
    <2>1. TypeOK' /\ Progress'
        BY <1>6 DEF TypeOK, Progress, PurgeOldEvents
    <2>2. Finite'
        BY <1>6, FS_Subset DEF Finite, PurgeOldEvents
    <2> QED BY <2>1, <2>2
<1>7. CASE Tick
    <2>1. today' \in 0..MaxDay
        <3>1. today \in 0..MaxDay /\ today < MaxDay /\ today' = today + 1
            BY <1>7 DEF TypeOK, Tick
        <3>2. MaxDay \in Nat
            BY NumberAssumption
        <3> QED BY <3>1, <3>2
    <2>2. UNCHANGED <<retention, rows, subs, everStored, command, figures, dropped, arrivals>>
        BY <1>7 DEF Tick, tables
    <2> QED BY <2>1, <2>2 DEF TypeOK, Progress, Finite
<1>8. CASE UNCHANGED vars
    BY <1>8 DEF TypeOK, Progress, Finite, vars, tables
<1> QED
    BY <1>1, <1>2, <1>3, <1>4, <1>5, <1>6, <1>7, <1>8 DEF Next, GiveUp, Answer

-----------------------------------------------------------------------------
(* Rows that are gone.                                                     *)

LEMMA GoneStep ==
    ASSUME TypeOK, GoneIsExpired, [Next]_vars
    PROVE  GoneIsExpired'
<1>1. today \in Int /\ retention \in Nat
    BY NumberAssumption DEF TypeOK
<1>2. \A e \in everStored : e[2] \in Int
    BY DEF TypeOK, Rows
<1>3. CASE StoreEvent
    BY <1>3 DEF GoneIsExpired, StoreEvent
<1>4. CASE PurgeOldEvents
    BY <1>4 DEF GoneIsExpired, PurgeOldEvents, Expired
<1>5. CASE Tick
    BY <1>1, <1>2, <1>5 DEF GoneIsExpired, Tick, tables
<1>6. CASE UNCHANGED <<rows, everStored, today, retention>>
    BY <1>6 DEF GoneIsExpired
<1>7. ASSUME NEW h \in Handlers,
             Begin(h) \/ Count(h) \/ DropError(h) \/ GiveUp(h) \/ Answer(h)
      PROVE  UNCHANGED <<rows, everStored, today, retention>>
    BY <1>7 DEF Begin, Count, DropError, GiveUp, Answer, Shows, Return, tables
<1> QED
    BY <1>3, <1>4, <1>5, <1>6, <1>7 DEF Next, vars, tables

LEMMA NothingMissed ==
    ASSUME TypeOK, GoneIsExpired
    PROVE  CountsMissNothing
<1> SUFFICES ASSUME NEW days \in 0..MaxDay, retention = 0 \/ days \in 1..retention
             PROVE  Since(days) = {e \in everStored : days > 0 => e[2] >= today - days}
    BY DEF CountsMissNothing
<1>1. today \in Int /\ retention \in Nat /\ \A e \in everStored : e[2] \in Int
    BY NumberAssumption DEF TypeOK, Rows
<1>2. ASSUME NEW e \in everStored, days > 0 => e[2] >= today - days
      PROVE  e \in rows
    BY <1>1, <1>2 DEF GoneIsExpired
<1> QED BY <1>1, <1>2 DEF GoneIsExpired, Since

-----------------------------------------------------------------------------
(* The total and the last day.                                             *)

(* The rows without the arrivals, and the arrivals, as numbers.            *)
LEMMA Numbers ==
    ASSUME Finite, NEW h \in Handlers
    PROVE  /\ Cardinality(rows \ arrivals[h]) \in Nat
           /\ Cardinality(arrivals[h]) \in Nat
           /\ Cardinality(rows) <= Cardinality(rows \ arrivals[h]) + Cardinality(arrivals[h])
<1>1. IsFiniteSet(rows \ arrivals[h]) /\ IsFiniteSet(arrivals[h])
    BY FS_Subset DEF Finite
<1>2. /\ IsFiniteSet((rows \ arrivals[h]) \cup arrivals[h])
      /\ Cardinality((rows \ arrivals[h]) \cup arrivals[h])
           = Cardinality(rows \ arrivals[h]) + Cardinality(arrivals[h])
    <2>1. (rows \ arrivals[h]) \cap arrivals[h] = {}
        OBVIOUS
    <2>2. /\ Cardinality(rows \ arrivals[h]) \in Nat
          /\ Cardinality(arrivals[h]) \in Nat
        BY <1>1, FS_CardinalityType
    <2>3. PICK S, T : S = rows \ arrivals[h] /\ T = arrivals[h]
        OBVIOUS
    <2>4. /\ IsFiniteSet(S \cup T)
          /\ Cardinality(S \cup T) = Cardinality(S) + Cardinality(T) - Cardinality(S \cap T)
        BY <1>1, <2>3, FS_Union
    <2>5. Cardinality(S \cap T) = 0
        BY <2>1, <2>3, FS_EmptySet
    <2>6. Cardinality(S) \in Nat /\ Cardinality(T) \in Nat
        BY <2>2, <2>3
    <2>7. Cardinality(S \cup T) = Cardinality(S) + Cardinality(T)
        BY <2>4, <2>5, <2>6
    <2> QED BY <2>3, <2>4, <2>7
<1>3. rows \subseteq (rows \ arrivals[h]) \cup arrivals[h]
    OBVIOUS
<1> QED BY <1>1, <1>2, <1>3, FS_Subset, FS_CardinalityType

(* Of a handler that no statement has returned to, the bounds are kept by  *)
(* rows that go and by rows that come and are counted as arrivals.         *)
LEMMA BoundsKept ==
    ASSUME TypeOK, Finite, Finite', TotalBounds, DayWithinTotal, NEW h \in Handlers,
           command'[h] = command[h], figures'[h] = figures[h], dropped'[h] = dropped[h],
           rows' \ arrivals'[h] \subseteq rows \ arrivals[h],
           arrivals[h] \subseteq arrivals'[h]
    PROVE  /\ command'[h].kind = "stats" /\ Len(figures'[h]) = 2 /\ ~dropped'[h] =>
                Cardinality(rows' \ arrivals'[h]) <= figures'[h][2]
           /\ Len(figures'[h]) = 3 /\ ~dropped'[h] =>
                figures'[h][3] <= figures'[h][2] + Cardinality(arrivals'[h])
<1>1. /\ IsFiniteSet(rows \ arrivals[h]) /\ IsFiniteSet(rows' \ arrivals'[h])
      /\ IsFiniteSet(arrivals[h]) /\ IsFiniteSet(arrivals'[h])
    BY FS_Subset DEF Finite
<1>2. /\ Cardinality(rows' \ arrivals'[h]) \in Nat
      /\ Cardinality(rows \ arrivals[h]) \in Nat
      /\ Cardinality(arrivals[h]) \in Nat /\ Cardinality(arrivals'[h]) \in Nat
      /\ Cardinality(rows' \ arrivals'[h]) <= Cardinality(rows \ arrivals[h])
      /\ Cardinality(arrivals[h]) <= Cardinality(arrivals'[h])
    BY <1>1, FS_Subset, FS_CardinalityType
<1>3. /\ Len(figures[h]) >= 2 => figures[h][2] \in Nat
      /\ Len(figures[h]) = 3 => figures[h][3] \in Nat
    BY DEF TypeOK
<1> QED BY <1>2, <1>3 DEF TotalBounds, DayWithinTotal

LEMMA TotalStep ==
    ASSUME IInv, [Next]_vars, TypeOK', Progress', Finite'
    PROVE  TotalBounds' /\ DayWithinTotal'
<1> DEFINE Bounds(h) ==
        /\ command[h].kind = "stats" /\ Len(figures[h]) = 2 /\ ~dropped[h] =>
             Cardinality(rows \ arrivals[h]) <= figures[h][2]
        /\ Len(figures[h]) = 3 /\ ~dropped[h] =>
             figures[h][3] <= figures[h][2] + Cardinality(arrivals[h])
<1> SUFFICES ASSUME NEW g \in Handlers PROVE Bounds(g)'
    BY DEF TotalBounds, DayWithinTotal
<1> USE DEF IInv
<1>1. ASSUME command'[g] = command[g], figures'[g] = figures[g],
             dropped'[g] = dropped[g], rows' \ arrivals'[g] \subseteq rows \ arrivals[g],
             arrivals[g] \subseteq arrivals'[g]
      PROVE  Bounds(g)'
    BY <1>1, BoundsKept
<1>2. ASSUME Len(figures'[g]) \notin {2, 3}
      PROVE  Bounds(g)'
    BY <1>2
<1>3. ASSUME NEW h \in Handlers, h # g,
             Begin(h) \/ Count(h) \/ DropError(h) \/ GiveUp(h) \/ Answer(h)
      PROVE  Bounds(g)'
    <2>1. /\ command'[g] = command[g] /\ figures'[g] = figures[g]
          /\ dropped'[g] = dropped[g] /\ arrivals'[g] = arrivals[g] /\ rows' = rows
        BY <1>3 DEF TypeOK, Begin, Count, DropError, GiveUp, Answer, Shows, Return, tables
    <2> QED BY <2>1, <1>1
<1>4. CASE Begin(g)
    <2>1. figures'[g] = <<>>
        BY <1>4 DEF Begin, Progress
    <2> QED BY <2>1, <1>2
<1>5. CASE Return(g)
    <2>1. figures'[g] = <<>>
        BY <1>5 DEF Return, TypeOK
    <2> QED BY <2>1, <1>2
<1>6. CASE Count(g) \/ DropError(g)
    <2>1. PICK n \in Nat : Shows(g, n)
        BY <1>6, ResultIsNat DEF Count, DropError
    <2>2. /\ command[g] \in Commands /\ command' = command /\ rows' = rows
          /\ figures[g] \in Seq(Nat) /\ figures'[g] = Append(figures[g], n)
        BY <1>6, <2>1 DEF TypeOK, Count, DropError, Pending, Shows, tables
    <2>3. /\ Len(figures'[g]) = Len(figures[g]) + 1 /\ Len(figures[g]) \in Nat
          /\ Len(figures'[g]) = 2 => Len(figures[g]) = 1
          /\ Len(figures'[g]) = 3 => Len(figures[g]) = 2
        BY <2>2, AppendLength
    <2>4. ASSUME Len(figures'[g]) \in {2, 3}
          PROVE  command[g].kind = "stats"
        BY <2>2, <2>4, StatementsShape DEF Progress, None, Commands
    <2>5. CASE Len(figures'[g]) = 2
        <3>1. Current(g) = "events" /\ Len(figures[g]) = 1
            <4>1. Len(figures[g]) = 1
                BY <2>3, <2>5
            <4>2. Statements(command[g].kind) = <<"subscribers", "events", "events_24h">>
                BY <2>2, <2>4, <2>5, StatementsShape
            <4> QED BY <4>1, <4>2 DEF Current
        <3>2. arrivals'[g] = {}
            BY <2>1, <3>1 DEF TypeOK, Shows
        <3>3. CASE Count(g)
            <4>1. figures'[g][2] = EventsCount(0)
                BY <3>1, <3>3, <2>2, <2>3 DEF Count, Shows, Result, TypeOK
            <4>2. EventsCount(0) = Cardinality(rows)
                BY DEF EventsCount, Since
            <4>3. Cardinality(rows) \in Nat /\ rows' \ arrivals'[g] = rows
                BY <2>2, <3>2, FS_CardinalityType DEF Finite
            <4> QED BY <2>5, <4>1, <4>2, <4>3
        <3>4. CASE DropError(g)
            <4>1. dropped'[g]
                BY <3>1, <3>4 DEF DropError, TypeOK
            <4> QED BY <2>5, <4>1
        <3> QED BY <1>6, <3>3, <3>4
    <2>6. CASE Len(figures'[g]) = 3
        <3>1. Current(g) = "events_24h" /\ Len(figures[g]) = 2
            <4>1. Len(figures[g]) = 2
                BY <2>3, <2>6
            <4>2. Statements(command[g].kind) = <<"subscribers", "events", "events_24h">>
                BY <2>2, <2>4, <2>6, StatementsShape
            <4> QED BY <4>1, <4>2 DEF Current
        <3>2. arrivals'[g] = arrivals[g] /\ dropped'[g] = dropped[g]
            BY <1>6, <2>1, <3>1 DEF TypeOK, Count, DropError, Shows
        <3>3. figures'[g][2] = figures[g][2] /\ figures[g][2] \in Nat /\ figures'[g][3] = n
            BY <2>2, <3>1
        <3>4. ~dropped[g] => Cardinality(rows \ arrivals[g]) <= figures[g][2]
            BY <2>4, <2>6, <3>1 DEF TotalBounds
        <3>5. /\ Cardinality(rows \ arrivals[g]) \in Nat
              /\ Cardinality(arrivals[g]) \in Nat
              /\ Cardinality(rows) <= Cardinality(rows \ arrivals[g]) + Cardinality(arrivals[g])
            BY Numbers
        <3>6. n <= Cardinality(rows) /\ Cardinality(rows) \in Nat
            <4>1. CASE Count(g)
                <5>1. n = EventsCount(1)
                    BY <2>2, <3>1, <3>3, <4>1 DEF Count, Shows, Result, TypeOK
                <5> QED
                    BY <5>1, SinceIsFinite, FS_Subset, FS_CardinalityType
                        DEF EventsCount, Finite
            <4>2. CASE DropError(g)
                <5>1. n = 0
                    BY <2>2, <3>1, <3>3, <4>2 DEF DropError, Shows, TypeOK
                <5> QED BY <5>1, FS_CardinalityType DEF Finite
            <4> QED BY <1>6, <4>1, <4>2
        <3> QED BY <2>6, <3>2, <3>3, <3>4, <3>5, <3>6
    <2> QED BY <2>5, <2>6, <1>2
<1>7. CASE StoreEvent
    <2>1. PICK i \in Ids, day \in 0..MaxDay :
            /\ rows' = rows \cup {<<i, day>>}
            /\ arrivals' = [h \in Handlers |-> IF command[h] = None THEN {}
                                               ELSE arrivals[h] \cup {<<i, day>>}]
            /\ UNCHANGED <<command, figures, dropped>>
        BY <1>7 DEF StoreEvent
    <2>2. CASE command[g] = None
        BY <2>1, <2>2, <1>2 DEF Progress
    <2>3. CASE command[g] # None
        BY <2>1, <2>3, <1>1
    <2> QED BY <2>2, <2>3
<1>8. CASE PurgeOldEvents
    BY <1>8, <1>1 DEF PurgeOldEvents
<1>9. CASE Tick
    BY <1>9, <1>1 DEF Tick, tables
<1>10. CASE UNCHANGED vars
    BY <1>10, <1>1 DEF vars, tables
<1> QED
    BY <1>3, <1>4, <1>5, <1>6, <1>7, <1>8, <1>9, <1>10 DEF Next, GiveUp, Answer

-----------------------------------------------------------------------------
(* The lines of /events_count add up.  SumFunction is a fold, whose        *)
(* recursion goes through the subsets and takes one element away at a      *)
(* time.  IsSum says that g is the function it defines.                    *)

Any(T) == CHOOSE x \in T : TRUE

IsSum(g, f, S) ==
    g = [T \in SUBSET S |-> IF T = {} THEN 0 ELSE f[Any(T)] + g[T \ {Any(T)}]]

(* A set of numbers has a least one.                                       *)
LEMMA Least ==
    ASSUME NEW B \in SUBSET Nat, B # {}
    PROVE  \E n \in B : \A m \in B : ~(m < n)
<1>1. PICK n \in B : \A m \in B : ~(<<m, n>> \in OpToRel(<, Nat))
    BY WFMin, NatLessThanWellFounded
<1> QED BY <1>1 DEF OpToRel

(* No more than one function is defined: two would differ at a subset      *)
(* with as few elements as possible, and agree on the next smaller one.    *)
LEMMA SumUnique ==
    ASSUME NEW f, NEW S, IsFiniteSet(S), NEW g, NEW h, IsSum(g, f, S), IsSum(h, f, S)
    PROVE  g[S] = h[S]
<1> DEFINE Bad == {T \in SUBSET S : g[T] # h[T]}
           Sizes == {Cardinality(T) : T \in Bad}
<1> SUFFICES ASSUME S \in Bad PROVE FALSE
    OBVIOUS
<1>1. \A T \in SUBSET S : IsFiniteSet(T) /\ Cardinality(T) \in Nat
    BY FS_Subset, FS_CardinalityType
<1>2. Sizes \in SUBSET Nat /\ Sizes # {}
    BY <1>1
<1>3. PICK n \in Sizes : \A m \in Sizes : ~(m < n)
    <2> HIDE DEF Sizes
    <2> QED BY <1>2, Least
<1>4. PICK T \in Bad : Cardinality(T) = n
    OBVIOUS
<1>5. T \in SUBSET S
    OBVIOUS
<1>6. g[T] = IF T = {} THEN 0 ELSE f[Any(T)] + g[T \ {Any(T)}]
    BY <1>5, Zenon DEF IsSum
<1>7. h[T] = IF T = {} THEN 0 ELSE f[Any(T)] + h[T \ {Any(T)}]
    BY <1>5, Zenon DEF IsSum
<1>8. PICK x \in T : x = Any(T)
    BY <1>6, <1>7 DEF Any
<1>9. T \ {x} \in Bad
    BY <1>6, <1>7, <1>8
<1>10. Cardinality(T \ {x}) < n
    <2>1. Cardinality(T \ {x}) = Cardinality(T) - 1
        BY <1>1, <1>5, FS_RemoveElement
    <2> QED BY <1>1, <1>4, <1>5, <2>1
<1> QED
    BY <1>3, <1>9, <1>10

(* The lines' numbers, summed over the types in T, count the events with a *)
(* type in T.                                                              *)
LEMMA LinesAddUp ==
    ASSUME TypeOK, Finite, NEW days
    PROVE  EventsCount(days) = SumFunction(EventsCountByType(days))
<1> DEFINE S == Since(days)
           D == {TypeOf[e[1]] : e \in S}
           f == EventsCountByType(days)
           Of(T) == {e \in S : TypeOf[e[1]] \in T}
           c(T) == Cardinality(Of(T))
           g == [T \in SUBSET D |-> c(T)]
<1>1. IsFiniteSet(S) /\ \A T : IsFiniteSet(Of(T)) /\ Cardinality(Of(T)) \in Nat
    BY SinceIsFinite, FS_Subset, FS_CardinalityType
<1>2. IsFiniteSet(D)
    <2>1. D \subseteq Types
        BY SinceIsFinite, EventAssumption DEF TypeOK, Rows
    <2> QED BY <2>1, EventAssumption, FS_Subset
<1>3. DOMAIN f = D /\ \A t \in D : f[t] = Cardinality({e \in S : TypeOf[e[1]] = t})
    BY DEF EventsCountByType
<1>4. ASSUME NEW T \in SUBSET D
      PROVE  c(T) = IF T = {} THEN 0 ELSE f[Any(T)] + g[T \ {Any(T)}]
    <2>1. CASE T = {}
        <3>1. Of(T) = {}
            BY <2>1
        <3> QED BY <2>1, <3>1, FS_EmptySet
    <2>2. CASE T # {}
        <3>1. PICK t \in T : t = Any(T)
            BY <2>2 DEF Any
        <3>2. PICK A : A = {e \in S : TypeOf[e[1]] = t}
            OBVIOUS
        <3>3. PICK B : B = Of(T \ {t})
            OBVIOUS
        <3>4. Of(T) = A \cup B /\ A \cap B = {}
            BY <3>1, <3>2, <3>3
        <3>5. IsFiniteSet(A) /\ IsFiniteSet(B)
            BY <1>1, <3>2, <3>3, FS_Subset
        <3>6. Cardinality(A \cup B) = Cardinality(A) + Cardinality(B)
            <4>1. /\ Cardinality(A \cup B) =
                        Cardinality(A) + Cardinality(B) - Cardinality(A \cap B)
                  /\ Cardinality(A) \in Nat /\ Cardinality(B) \in Nat
                BY <3>5, FS_Union, FS_CardinalityType
            <4>2. Cardinality(A \cap B) = 0
                BY <3>4, FS_EmptySet
            <4> QED BY <4>1, <4>2
        <3>7. f[t] = Cardinality(A) /\ g[T \ {t}] = Cardinality(B)
            BY <1>3, <3>2, <3>3
        <3> QED BY <2>2, <3>1, <3>4, <3>6, <3>7
    <2> QED BY <2>1, <2>2
<1>5. g = [T \in SUBSET D |-> IF T = {} THEN 0 ELSE f[Any(T)] + g[T \ {Any(T)}]]
    <2>1. \A T \in SUBSET D : c(T) = IF T = {} THEN 0 ELSE f[Any(T)] + g[T \ {Any(T)}]
        BY <1>4
    <2> HIDE DEF c, D, f
    <2> QED BY <2>1
<1>6. IsSum(g, f, D)
    BY <1>5, Zenon DEF IsSum
<1> DEFINE h == CHOOSE s : IsSum(s, f, D)
<1>7. IsSum(h, f, D)
    BY <1>6
<1>8. SumFunction(f) = h[D]
    <2>1. SumFunctionOnSet(f, D) = h[D]
        BY DEF SumFunctionOnSet, FoldFunctionOnSet, MapThenFoldSet, IsSum, Any
    <2> QED BY <1>3, <2>1 DEF SumFunction
<1>9. h[D] = g[D]
    <2> HIDE DEF g, h, f, D
    <2> QED BY <1>2, <1>6, <1>7, SumUnique
<1>10. g[D] = EventsCount(days)
    <2>1. Of(D) = S
        OBVIOUS
    <2> QED BY <2>1 DEF EventsCount
<1> QED
    BY <1>8, <1>9, <1>10

(* No line is left out when every row has a type that is listed.           *)
LEMMA AllAreListed ==
    ASSUME StoredAreListed, Finite, NEW days
    PROVE  EventLines(days) = EventsCountByType(days)
<1>1. PICK counts : counts = EventsCountByType(days)
    OBVIOUS
<1>2. DOMAIN counts \subseteq SupportedTypes
    BY <1>1, SinceIsFinite DEF StoredAreListed, EventsCountByType
<1>3. counts = [t \in DOMAIN counts |-> counts[t]]
    BY <1>1 DEF EventsCountByType
<1> QED
    BY <1>1, <1>2, <1>3 DEF EventLines

LEMMA ListedStep ==
    ASSUME StoredAreListed, [Next]_vars
    PROVE  StoredAreListed'
<1>1. CASE StoreEvent
    BY <1>1 DEF StoreEvent, StoredAreListed, IsSupported
<1>2. ASSUME rows' \subseteq rows
      PROVE  StoredAreListed'
    BY <1>2 DEF StoredAreListed
<1> QED
    BY <1>1, <1>2 DEF Next, PurgeOldEvents, Tick, Begin, Count, DropError, GiveUp, Answer,
                      Shows, Return, tables, vars

-----------------------------------------------------------------------------

(* The invariant holds of the whole behaviour.                             *)
THEOREM Invariance == Spec => []IInv
<1>1. Init => IInv
    <2>1. Init => GoneIsExpired /\ TotalBounds /\ DayWithinTotal /\ StoredAreListed
        BY DEF Init, GoneIsExpired, TotalBounds, DayWithinTotal, StoredAreListed
    <2> QED BY <2>1, TypeInit DEF IInv
<1>2. IInv /\ [Next]_vars => IInv'
    <2> SUFFICES ASSUME IInv, [Next]_vars PROVE IInv'
        OBVIOUS
    <2>1. TypeOK' /\ Progress' /\ Finite'
        BY TypeStep DEF IInv
    <2>2. GoneIsExpired'
        BY GoneStep DEF IInv
    <2>3. TotalBounds' /\ DayWithinTotal'
        BY <2>1, TotalStep
    <2>4. StoredAreListed'
        BY ListedStep DEF IInv
    <2> QED BY <2>1, <2>2, <2>3, <2>4 DEF IInv
<1> QED BY <1>1, <1>2, PTL DEF Spec

(* The figures are well typed, and no answer lists more than 500 blocked   *)
(* addresses (postgres.go:324-327).                                        *)
THEOREM TypeCorrect == Spec => []TypeOK
<1>1. IInv => TypeOK
    BY DEF IInv
<1> QED BY <1>1, Invariance, PTL

(* The purge never takes a row that a count over no more days than the     *)
(* retention would still have found.                                       *)
THEOREM NothingIsMissed == Spec => []CountsMissNothing
<1>1. IInv => CountsMissNothing
    BY NothingMissed DEF IInv
<1> QED BY <1>1, Invariance, PTL

(* The last day's figure of /stats exceeds the total only by what was      *)
(* stored between the two statements.                                      *)
THEOREM LastDayFits == Spec => []DayWithinTotal
<1>1. IInv => DayWithinTotal
    BY DEF IInv
<1> QED BY <1>1, Invariance, PTL

(* For any events, types, retention and order of inserts and purges the    *)
(* lines that /events_count prints add up to the events it has counted:    *)
(* no row has a type that the handler would leave out (service.go:62-64,   *)
(* handler.go:390-394).                                                    *)
THEOREM LinesAccountForAll == Spec => []ListedAddUp
<1>1. IInv => ListedAddUp
  <2> SUFFICES ASSUME IInv, NEW days \in 0..MaxDay
               PROVE  SumFunction(EventLines(days)) = EventsCount(days)
      BY DEF ListedAddUp
  <2> QED
      BY AllAreListed, LinesAddUp DEF IInv
<1> QED BY <1>1, Invariance, PTL
=============================================================================
