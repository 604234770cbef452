------------------------ MODULE Deduplicator_proofs ------------------------
(***************************************************************************)
(* Proofs about Deduplicator for every set of keys, every window setting   *)
(* and any bound on the clock.  SeenIsRecentHistory, the statement that    *)
(* the swept map still holds all that a refusal depends on, is inductive   *)
(* together with TypeOK and PastOnly; the other results follow from it.    *)
(***************************************************************************)
EXTENDS Deduplicator, TLAPS

(* No recorded time lies in the future.                                    *)
PastOnly ==
    /\ \A k \in Keys : lastYes[k] <= now
    /\ verdict # NoVerdict => verdict.at <= now
    /\ ~enabled => \A k \in Keys : seen[k] = Absent

(* A refusal stays justified for as long as it is the last answer.         *)
IInv == TypeOK /\ PastOnly /\ SeenIsRecentHistory /\ SuppressedWithinWindow

USE SettingsAssumption, MaxTimeAssumption, NoVerdictAssumption

(* NewWindow makes every setting a positive window (dedup.go:19-21).       *)
LEMMA NewWindowPositive ==
    ASSUME NEW w \in Int
    PROVE  NewWindow(w) \in Nat \ {0}
BY DEF NewWindow

(* The sweep keeps the map a map, and never touches a recent entry.        *)
LEMMA SweepKeeps ==
    ASSUME NEW map \in [Keys -> Nat \cup {Absent}], now \in Nat, window \in Nat
    PROVE  /\ Sweep(map) \in [Keys -> Nat \cup {Absent}]
           /\ \A k \in Keys : Sweep(map)[k] \in {map[k], Absent}
           /\ \A k \in Keys : map[k] # Absent /\ Sweep(map)[k] = Absent
                                => now - map[k] > window
BY DEF Sweep, Absent

LEMMA InitIInv == Init => IInv
<1> SUFFICES ASSUME Init PROVE IInv
    OBVIOUS
<1>1. window \in Nat \ {0}
    BY NewWindowPositive DEF Init
<1> QED
    BY <1>1 DEF Init, IInv, TypeOK, PastOnly, SeenIsRecentHistory,
                SuppressedWithinWindow, Absent

LEMMA TickIInv == IInv /\ Tick => IInv'
<1> SUFFICES ASSUME IInv, Tick PROVE IInv'
    OBVIOUS
<1>1. now' \in Nat /\ now' > now
    BY DEF IInv, TypeOK, Tick
<1> QED
    BY <1>1 DEF IInv, TypeOK, PastOnly, SeenIsRecentHistory,
                SuppressedWithinWindow, Tick, Absent

LEMMA PassThroughIInv == \A k \in Keys : IInv /\ PassThrough(k) => IInv'
<1> SUFFICES ASSUME NEW k \in Keys, IInv, PassThrough(k) PROVE IInv'
    OBVIOUS
<1>1. verdict' \in [key : Keys, ok : BOOLEAN, at : Nat]
    BY DEF PassThrough, Answer, IInv, TypeOK
<1> QED
    BY <1>1 DEF IInv, TypeOK, PastOnly, SeenIsRecentHistory,
                SuppressedWithinWindow, PassThrough, Answer, Absent

LEMMA SuppressIInv == \A k \in Keys : IInv /\ Suppress(k) => IInv'
<1> SUFFICES ASSUME NEW k \in Keys, IInv, Suppress(k) PROVE IInv'
    OBVIOUS
<1>1. verdict' = [key |-> k, ok |-> FALSE, at |-> now]
    BY DEF Suppress, Answer
<1>2. seen[k] = lastYes[k] /\ lastYes[k] # Absent /\ now - lastYes[k] < window
    BY DEF Suppress, Recent, IInv, SeenIsRecentHistory, TypeOK
<1> QED
    BY <1>1, <1>2 DEF IInv, TypeOK, PastOnly, SeenIsRecentHistory,
                SuppressedWithinWindow, Suppress, Absent

LEMMA AcceptIInv == \A k \in Keys : IInv /\ Accept(k) => IInv'
<1> SUFFICES ASSUME NEW k \in Keys, IInv, Accept(k) PROVE IInv'
    OBVIOUS
<1> DEFINE stored == [seen EXCEPT ![k] = now]
<1>1. verdict' = [key |-> k, ok |-> TRUE, at |-> now]
    BY DEF Accept, Answer
<1>2. stored \in [Keys -> Nat \cup {Absent}]
    BY DEF IInv, TypeOK
<1>3. /\ seen' \in [Keys -> Nat \cup {Absent}]
      /\ \A j \in Keys : seen'[j] \in {stored[j], Absent}
      /\ \A j \in Keys : stored[j] # Absent /\ seen'[j] = Absent
                           => now - stored[j] > window
    BY <1>2, SweepKeeps DEF Accept, IInv, TypeOK
<1>4. lastYes' = [lastYes EXCEPT ![k] = now] /\ UNCHANGED <<enabled, window, now>>
    BY DEF Accept
<1>5. TypeOK'
    BY <1>1, <1>3, <1>4 DEF IInv, TypeOK
<1>6. PastOnly'
    BY <1>1, <1>4 DEF IInv, TypeOK, PastOnly, Accept
<1>7. SeenIsRecentHistory'
    BY <1>3, <1>4 DEF IInv, TypeOK, SeenIsRecentHistory, Absent
<1>8. SuppressedWithinWindow'
    BY <1>1 DEF SuppressedWithinWindow
<1> QED
    BY <1>5, <1>6, <1>7, <1>8 DEF IInv

LEMMA NextIInv == IInv /\ [Next]_vars => IInv'
<1> SUFFICES ASSUME IInv, [Next]_vars PROVE IInv'
    OBVIOUS
<1>1. CASE Tick
    BY <1>1, TickIInv
<1>2. ASSUME NEW k \in Keys, ShouldNotify(k) PROVE IInv'
    BY <1>2, PassThroughIInv, SuppressIInv, AcceptIInv DEF ShouldNotify
<1>3. CASE UNCHANGED vars
    BY <1>3 DEF vars, IInv, TypeOK, PastOnly, SeenIsRecentHistory,
                SuppressedWithinWindow
<1> QED
    BY <1>1, <1>2, <1>3 DEF Next

THEOREM Invariance == Spec => []IInv
<1> QED
    BY InitIInv, NextIInv, PTL DEF Spec

(* The deduplicator's state always has its type.                           *)
THEOREM TypeCorrect == Spec => []TypeOK
<1>1. IInv => TypeOK
    BY DEF IInv
<1> QED
    BY <1>1, Invariance, PTL

(* The swept map is the recent part of the history of accepted keys, for   *)
(* any number of keys and any window (dedup.go:46-53).                     *)
THEOREM MapIsRecentHistory == Spec => []SeenIsRecentHistory
<1>1. IInv => SeenIsRecentHistory
    BY DEF IInv
<1> QED
    BY <1>1, Invariance, PTL

(* An event is refused only within a window of an accepted one with the    *)
(* same key (dedup.go:43-45).                                              *)
THEOREM RefusalsAreJustified == Spec => []SuppressedWithinWindow
<1>1. IInv => SuppressedWithinWindow
    BY DEF IInv
<1> QED
    BY <1>1, Invariance, PTL

(* Two accepted events with the same key are a window apart, whatever was  *)
(* swept between them (dedup.go:42-53).                                    *)
THEOREM AcceptedAreSpaced == Spec => SpacedByWindow
<1>1. IInv /\ [Next]_vars => [LetThroughSpacing]_vars
  <2> SUFFICES ASSUME IInv, Next PROVE LetThroughSpacing
      BY DEF vars
  <2>1. CASE Tick
      BY <2>1 DEF Tick, LetThroughSpacing
  <2>2. ASSUME NEW k \in Keys, PassThrough(k) \/ Suppress(k) PROVE LetThroughSpacing
      BY <2>2 DEF PassThrough, Suppress, LetThroughSpacing
  <2>3. ASSUME NEW k \in Keys, Accept(k) PROVE LetThroughSpacing
    <3>1. lastYes' = [lastYes EXCEPT ![k] = now] /\ ~Recent(k)
        BY <2>3 DEF Accept
    <3> QED
        BY <3>1 DEF LetThroughSpacing, Recent, IInv, TypeOK, PastOnly,
                    SeenIsRecentHistory, Absent
  <2> QED
      BY <2>1, <2>2, <2>3 DEF Next, ShouldNotify
<1> QED
    BY <1>1, Invariance, PTL DEF Spec, SpacedByWindow

(* After a call that lets an event through no entry of the map is older    *)
(* than a window: what is kept is bounded by the recent calls, not by the  *)
(* history (dedup.go:48-53).                                               *)
THEOREM MapIsSwept == Spec => []SweptAfterAccept
<1>1. Init => SweptAfterAccept
    BY DEF Init, SweptAfterAccept
<1>2. ASSUME IInv, SweptAfterAccept, [Next]_vars
      PROVE  SweptAfterAccept'
  <2>1. CASE Tick \/ UNCHANGED vars
      BY <1>2, <2>1 DEF Tick, vars, SweptAfterAccept
  <2>2. ASSUME NEW k \in Keys, PassThrough(k)
        PROVE  SweptAfterAccept'
    <3>1. ~enabled'
        BY <2>2 DEF PassThrough
    <3> QED
        BY <3>1 DEF SweptAfterAccept
  <2>3. ASSUME NEW k \in Keys, Suppress(k)
        PROVE  SweptAfterAccept'
    <3>1. verdict' = [key |-> k, ok |-> FALSE, at |-> now]
        BY <2>3 DEF Suppress, Answer
    <3>2. ~verdict'.ok
        BY <3>1
    <3> QED
        BY <3>2 DEF SweptAfterAccept
  <2>4. ASSUME NEW k \in Keys, Accept(k)
        PROVE  SweptAfterAccept'
    <3>1. PICK map : map = [seen EXCEPT ![k] = now]
        OBVIOUS
    <3>2. /\ map \in [Keys -> Nat \cup {Absent}]
          /\ seen' = Sweep(map) /\ window' = window
          /\ verdict' = [key |-> k, ok |-> TRUE, at |-> now]
        BY <1>2, <2>4, <3>1 DEF Accept, Answer, IInv, TypeOK
    <3>3. \A j \in Keys : Sweep(map)[j] # Absent => now - Sweep(map)[j] <= window
        BY <1>2, <3>2 DEF Sweep, IInv, TypeOK, Absent
    <3> QED
        BY <3>2, <3>3 DEF SweptAfterAccept
  <2> QED
      BY <1>2, <2>1, <2>2, <2>3, <2>4 DEF Next, ShouldNotify
<1> QED
    BY <1>1, <1>2, Invariance, PTL DEF Spec
-----------------------------------------------------------------------------
(* The refinement of SuppressionWindow.                                    *)

LEMMA AnswerIsLastAnswer ==
    ASSUME NEW k \in Keys, NEW ok \in BOOLEAN, now \in Nat, Answer(k, ok)
    PROVE  LastAnswer' = [key |-> k, ok |-> ok]
<1>1. verdict' = [key |-> k, ok |-> ok, at |-> now]
    BY DEF Answer
<1>2. verdict' # NoVerdict
    BY <1>1
<1> QED
    BY <1>1, <1>2 DEF LastAnswer

LEMMA InitRefines == Init => Promise!Init
BY DEF Init, Promise!Init, HotKeys, LastAnswer, Recent, Absent

LEMMA TickRefines == IInv /\ Tick => Promise!CoolDown
<1> SUFFICES ASSUME IInv, Tick PROVE Promise!CoolDown
    OBVIOUS
<1>1. HotKeys' \subseteq HotKeys
    BY DEF IInv, TypeOK, Tick, HotKeys, Recent, Absent
<1>2. LastAnswer' = LastAnswer
    BY DEF Tick, LastAnswer
<1> QED
    BY <1>1, <1>2 DEF Promise!CoolDown, Tick

LEMMA PassThroughRefines ==
    \A k \in Keys : IInv /\ PassThrough(k) => Promise!Ask(k)
<1> SUFFICES ASSUME NEW k \in Keys, IInv, PassThrough(k) PROVE Promise!Ask(k)
    OBVIOUS
<1>1. LastAnswer' = [key |-> k, ok |-> TRUE]
    BY AnswerIsLastAnswer DEF PassThrough, IInv, TypeOK
<1> QED
    BY <1>1 DEF PassThrough, Promise!Ask, HotKeys

LEMMA SuppressRefines ==
    \A k \in Keys : IInv /\ Suppress(k) => Promise!Ask(k)
<1> SUFFICES ASSUME NEW k \in Keys, IInv, Suppress(k) PROVE Promise!Ask(k)
    OBVIOUS
<1>1. LastAnswer' = [key |-> k, ok |-> FALSE]
    BY AnswerIsLastAnswer DEF Suppress, IInv, TypeOK
<1>2. HotKeys' = HotKeys /\ k \in HotKeys
    BY DEF Suppress, HotKeys, Recent
<1> QED
    BY <1>1, <1>2 DEF Suppress, Promise!Ask

(* The only step that needs the sweep: it leaves exactly the hot keys hot. *)
LEMMA AcceptRefines ==
    \A k \in Keys : IInv /\ Accept(k) => Promise!Ask(k)
<1> SUFFICES ASSUME NEW k \in Keys, IInv, Accept(k) PROVE Promise!Ask(k)
    OBVIOUS
<1> DEFINE stored == [seen EXCEPT ![k] = now]
<1>1. LastAnswer' = [key |-> k, ok |-> TRUE]
    BY AnswerIsLastAnswer DEF Accept, IInv, TypeOK
<1>2. /\ seen' \in [Keys -> Nat \cup {Absent}]
      /\ \A j \in Keys : seen'[j] \in {stored[j], Absent}
      /\ \A j \in Keys : stored[j] # Absent /\ seen'[j] = Absent
                           => now - stored[j] > window
  <2>1. stored \in [Keys -> Nat \cup {Absent}]
      BY DEF IInv, TypeOK
  <2> QED
      BY <2>1, SweepKeeps DEF Accept, IInv, TypeOK
<1>3. ASSUME NEW j \in Keys PROVE Recent(j)' <=> (j = k \/ Recent(j))
  <2>1. now' = now /\ window' = window /\ now \in Nat /\ window \in Nat \ {0}
      BY DEF Accept, IInv, TypeOK
  <2>2. CASE j = k
    <3>1. stored[j] = now
        BY <2>2 DEF IInv, TypeOK
    <3> QED
        BY <1>2, <2>1, <2>2, <3>1 DEF Recent, Absent
  <2>3. CASE j # k
    <3>1. stored[j] = seen[j] /\ seen[j] \in Nat \cup {Absent}
        BY <2>3 DEF IInv, TypeOK
    <3>2. Recent(j) => seen'[j] = seen[j]
        BY <1>2, <2>1, <3>1 DEF Recent, Absent
    <3> HIDE DEF stored
    <3> QED
        BY <1>2, <2>1, <2>3, <3>1, <3>2 DEF Recent, Absent
  <2> QED
      BY <2>2, <2>3
<1>4. HotKeys' = HotKeys \cup {k} /\ k \notin HotKeys
    BY <1>3 DEF HotKeys, Accept
<1> QED
    BY <1>1, <1>4 DEF Accept, Promise!Ask

(* dedup.go keeps the promise the notification service relies on: one      *)
(* atomic question whose positive answer makes the key hot, and keys that  *)
(* only time cools down.                                                   *)
THEOREM ImplementsPromise == Spec => ImplementsWindow
<1>1. IInv /\ [Next]_vars => [Promise!Next]_(Promise!vars)
  <2> SUFFICES ASSUME IInv, [Next]_vars PROVE [Promise!Next]_(Promise!vars)
      OBVIOUS
  <2>1. CASE Tick
      BY <2>1, TickRefines DEF Promise!Next
  <2>2. ASSUME NEW k \in Keys, ShouldNotify(k) PROVE Promise!Next
      BY <2>2, PassThroughRefines, SuppressRefines, AcceptRefines
         DEF ShouldNotify, Promise!Next
  <2>3. CASE UNCHANGED vars
      BY <2>3 DEF vars, Promise!vars, HotKeys, LastAnswer, Recent
  <2> QED
      BY <2>1, <2>2, <2>3 DEF Next
<1> QED
    BY <1>1, InitRefines, Invariance, PTL DEF Spec, ImplementsWindow, Promise!Spec
=============================================================================
