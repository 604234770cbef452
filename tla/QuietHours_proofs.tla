-------------------------- MODULE QuietHours_proofs --------------------------
(***************************************************************************)
(* QuietHours for every pair of settings and every minute of the day.      *)
(***************************************************************************)
EXTENDS QuietHours, TLAPS

USE SettingsAssumption

(* parseHourMinute returns a minute of the day (filter.go:40-43).          *)
LEMMA MinutesInDay ==
    ASSUME NEW s \in Settings, Parses(s)
    PROVE  Minutes(s) \in 0..(MinutesPerDay - 1)
<1>1. s \in Int \X Int
    BY DEF Parses
<1> QED
    BY <1>1 DEF Parses, Minutes, MinutesPerDay

(* The clock stands at a minute of the day (lemma of the theorems below).  *)
THEOREM TypeCorrect == Spec => []TypeOK
<1>1. Init => TypeOK
    BY DEF Init, TypeOK
<1>2. TypeOK /\ [Next]_vars => TypeOK'
  <2> SUFFICES ASSUME TypeOK, [Next]_vars PROVE TypeOK'
      OBVIOUS
  <2>1. CASE Tick
    <3>1. current \in Nat /\ current' = (current + 1) % 1440
        BY <2>1 DEF TypeOK, Tick, MinutesPerDay
    <3>2. (current + 1) % 1440 \in 0..1439
        BY <3>1
    <3> QED
        BY <2>1, <3>1, <3>2 DEF TypeOK, Tick, MinutesPerDay
  <2>2. CASE UNCHANGED vars
      BY <2>2 DEF TypeOK, vars
  <2> QED
      BY <2>1, <2>2 DEF Next
<1> QED
    BY <1>1, <1>2, PTL DEF Spec

(* The minutes of the day, and the comparison of IsInQuietHours on them.   *)
DayMinutes == {m \in Nat : m < 1440}

InSpan(s, e, c) == IF s <= e THEN c >= s /\ c < e ELSE c >= s \/ c < e

(* With its wrap-around it compares distances round the clock.             *)
LEMMA SpanRoundTheClock ==
    \A s, e, c \in DayMinutes : InSpan(s, e, c) <=> (c - s) % 1440 < (e - s) % 1440
<1> SUFFICES ASSUME NEW s \in DayMinutes, NEW e \in DayMinutes, NEW c \in DayMinutes
             PROVE  InSpan(s, e, c) <=> (c - s) % 1440 < (e - s) % 1440
    OBVIOUS
<1>1. (c - s) % 1440 = IF c >= s THEN c - s ELSE c - s + 1440
    BY DEF DayMinutes
<1>2. (e - s) % 1440 = IF e >= s THEN e - s ELSE e - s + 1440
    BY DEF DayMinutes
<1> QED
    BY <1>1, <1>2 DEF InSpan, DayMinutes

LEMMA TypeGivesSpan == TypeOK => QuietIsOneSpan
<1> SUFFICES ASSUME TypeOK PROVE QuietIsOneSpan
    OBVIOUS
<1>1. CASE Parses(start) /\ Parses(end)
  <2>1. Minutes(start) \in DayMinutes /\ Minutes(end) \in DayMinutes /\ current \in DayMinutes
    <3>1. /\ Minutes(start) \in 0..(MinutesPerDay - 1)
          /\ Minutes(end) \in 0..(MinutesPerDay - 1)
          /\ current \in 0..(MinutesPerDay - 1)
        BY <1>1, MinutesInDay DEF TypeOK
    <3>2. 0..(MinutesPerDay - 1) \subseteq DayMinutes
        BY DEF MinutesPerDay, DayMinutes
    <3> QED
        BY <3>1, <3>2
  <2>2. PICK s : s = Minutes(start)
      OBVIOUS
  <2>3. PICK e : e = Minutes(end)
      OBVIOUS
  <2>4. s \in DayMinutes /\ e \in DayMinutes /\ current \in DayMinutes
      BY <2>1, <2>2, <2>3
  <2>5. IsInQuietHours <=> InSpan(s, e, current)
      BY <1>1, <2>2, <2>3 DEF IsInQuietHours, InSpan
  <2>6. QuietIsOneSpan <=> (IsInQuietHours <=> (current - s) % 1440 < (e - s) % 1440)
      BY <1>1, <2>2, <2>3 DEF QuietIsOneSpan, MinutesFrom, MinutesPerDay
  <2>7. InSpan(s, e, current) <=> (current - s) % 1440 < (e - s) % 1440
      BY <2>4, SpanRoundTheClock
  <2> QED
      BY <2>5, <2>6, <2>7
<1>2. CASE ~(Parses(start) /\ Parses(end))
    BY <1>2 DEF QuietIsOneSpan, IsInQuietHours
<1> QED
    BY <1>1, <1>2

(* Quiet hours are one span round the clock, for all settings and at every *)
(* minute of the day (filter.go:15-27).                                    *)
THEOREM QuietHoursAreOneSpan == Spec => []QuietIsOneSpan
<1> QED
    BY TypeGivesSpan, TypeCorrect, PTL

(* Quiet hours begin and end at the configured minutes only.               *)
THEOREM QuietHoursEdges == Spec => EdgesOnlyAtSettings
<1>1. TypeOK /\ [Next]_vars => [Edges]_vars
  <2> SUFFICES ASSUME TypeOK, Tick PROVE Edges
      BY DEF Next
  <2>1. start' = start /\ end' = end
      BY DEF Tick
  <2>2. CASE Parses(start) /\ Parses(end)
    <3>1. PICK s : s = Minutes(start)
        OBVIOUS
    <3>2. PICK e : e = Minutes(end)
        OBVIOUS
    <3>3. s \in 0..1439 /\ e \in 0..1439 /\ current \in 0..1439
      <4>1. /\ Minutes(start) \in 0..(MinutesPerDay - 1)
            /\ Minutes(end) \in 0..(MinutesPerDay - 1)
          BY <2>2, MinutesInDay DEF TypeOK
      <4> QED
          BY <3>1, <3>2, <4>1 DEF TypeOK, MinutesPerDay
    <3>4. current' = IF current = 1439 THEN 0 ELSE current + 1
      <4>1. current' = (current + 1) % 1440
          BY DEF Tick, MinutesPerDay
      <4> QED
          BY <3>3, <4>1
    <3>5. IsInQuietHours <=> IF s <= e THEN current >= s /\ current < e
                                       ELSE current >= s \/ current < e
        BY <2>2, <3>1, <3>2 DEF IsInQuietHours
    <3>6. IsInQuietHours' <=> IF s <= e THEN current' >= s /\ current' < e
                                        ELSE current' >= s \/ current' < e
        BY <2>1, <2>2, <3>1, <3>2 DEF IsInQuietHours, Parses, Minutes
    <3>7. Edges <=> /\ ~IsInQuietHours /\ IsInQuietHours' => current' = s
                    /\ IsInQuietHours /\ ~IsInQuietHours' => current' = e
        BY <3>1, <3>2 DEF Edges
    <3>8. /\ ~IsInQuietHours /\ IsInQuietHours' => current' = s
          /\ IsInQuietHours /\ ~IsInQuietHours' => current' = e
        BY <3>3, <3>4, <3>5, <3>6
    <3> QED
        BY <3>7, <3>8
  <2>3. CASE ~(Parses(start) /\ Parses(end))
    <3>1. ~IsInQuietHours /\ ~IsInQuietHours'
        BY <2>1, <2>3 DEF IsInQuietHours, Parses
    <3> QED
        BY <3>1 DEF Edges
  <2> QED
      BY <2>2, <2>3
<1> QED
    BY <1>1, TypeCorrect, PTL DEF Spec, EdgesOnlyAtSettings
==============================================================================
