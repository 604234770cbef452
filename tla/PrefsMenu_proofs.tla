-------------------------- MODULE PrefsMenu_proofs --------------------------
(***************************************************************************)
(* For any number of updates, menus and values: a menu shows what the row  *)
(* says unless it is excused, no button is without a case, and every call  *)
(* brings its update nearer its end.                                       *)
(*                                                                         *)
(* MenuIsCurrent says nothing of what is about to be shown.  Fresh adds    *)
(* it: a copy that is not stale is the row.  Fresh is kept because the     *)
(* first change of the row makes every copy but the writer's stale, and    *)
(* the writer does not hold its copy any longer.                           *)
(***************************************************************************)
EXTENDS PrefsMenu, TLAPS

(* What a handler shows is shown in a message.                             *)
HasMenu ==
    \A h \in Handlers : stage[h] \in {"saved", "summary"} => Own(h) \in Messages

Fresh ==
    \A h \in Handlers : stage[h] \in Holding /\ h \notin stale => copy[h] = row

IInv == TypeOK /\ HasMenu /\ Fresh /\ MenuIsCurrent

-----------------------------------------------------------------------------
(* The data.                                                               *)

LEMMA ActionsDiffer ==
    ASSUME NEW c \in Choices
    PROVE  c \notin Openers /\ c # <<"back">> /\ c # <<"exit">>
BY DEF Choices, Openers

LEMMA TargetIsMessage ==
    ASSUME NEW u \in Updates, u.kind = "tap" \/ u.action \notin Choices
    PROVE  u.target \in Messages
BY DEF Updates, Taps, Typed, Sends

LEMMA ChoiceIsTapped ==
    ASSUME NEW u \in Updates, u.action \in Choices, u.target \in Messages
    PROVE  u.kind = "tap"
BY ActionsDiffer, MenuAssumption DEF Updates, Taps, Typed, Sends

LEMMA ChosenIsRow ==
    ASSUME NEW r \in Rows, NEW c \in Choices, Valid(c), FieldOf(c) # "none"
    PROVE  [r EXCEPT ![FieldOf(c)] = c[2]] \in Rows
<1>1. CASE \E l \in Locales : c = <<"lang", l>>
    <2>1. FieldOf(c) = "locale" /\ c[2] \in Locales
        BY <1>1 DEF FieldOf
    <2> QED BY <2>1 DEF Rows
<1>2. CASE \E z \in OfferedZones : c = <<"tz", z>>
    <2>1. FieldOf(c) = "timezone" /\ c[2] \in Zones
        BY <1>2 DEF FieldOf, Valid
    <2> QED BY <2>1 DEF Rows
<1>3. CASE \E b \in BOOLEAN : c = <<"short", b>>
    <2>1. FieldOf(c) = "short" /\ c[2] \in BOOLEAN
        BY <1>3 DEF FieldOf
    <2> QED BY <2>1 DEF Rows
<1> QED BY <1>1, <1>2, <1>3 DEF Choices

LEMMA GoneIsNotOpen == Deleted \notin Open /\ Absent \notin Open
BY DEF Deleted, Absent, Open, Pages

-----------------------------------------------------------------------------
(* Types.                                                                  *)

LEMMA TypeInit == Init => TypeOK /\ HasMenu
BY DEF Init, TypeOK, HasMenu, Stages, Holding

(* A handler that goes on or returns, with the row and the menus as typed. *)
LEMMA TypeReturn ==
    ASSUME TypeOK, HasMenu, NEW h \in Handlers, Return(h),
           row' \in Rows, menu' \in [Messages -> Open \cup {Absent, Deleted}],
           ignored' \subseteq Handlers, excused' \subseteq Messages
    PROVE  TypeOK' /\ HasMenu'
<1>1. TypeOK'
    BY DEF TypeOK, Return, Forget, At, Stages, Holding
<1>2. HasMenu'
    BY DEF TypeOK, HasMenu, Return, Forget, At, Own
<1> QED BY <1>1, <1>2

LEMMA TypeStep ==
    ASSUME TypeOK, HasMenu, [Next]_vars
    PROVE  TypeOK' /\ HasMenu'
<1>1. ASSUME NEW h \in Handlers, Begin(h)
      PROVE  TypeOK' /\ HasMenu'
    <2>1. TypeOK'
        BY <1>1 DEF TypeOK, Begin, At, Stages, Holding
    <2>2. HasMenu'
        BY <1>1 DEF TypeOK, HasMenu, Begin, At, Own
    <2> QED BY <2>1, <2>2
<1>2. ASSUME NEW h \in Handlers, AnswerCallback(h)
      PROVE  TypeOK' /\ HasMenu'
    BY <1>2 DEF TypeOK, HasMenu, AnswerCallback, At, Own, Stages, Holding
<1>3. ASSUME NEW h \in Handlers, EnsureRead(h) \/ ReadPrefs(h)
      PROVE  TypeOK' /\ HasMenu'
    BY <1>3 DEF TypeOK, HasMenu, EnsureRead, ReadPrefs, Read, At, Own, Stages, Holding
<1>4. ASSUME NEW h \in Handlers, EnsureWrite(h)
      PROVE  TypeOK' /\ HasMenu'
    <2>1. row' \in Rows /\ excused' \subseteq Messages
        BY <1>4 DEF TypeOK, EnsureWrite, Write, Holding
    <2>2. stale' \subseteq {g \in Handlers \ {h} : stage[g] \in Holding}
        BY <1>4 DEF TypeOK, EnsureWrite, Write
    <2>3. TypeOK'
        BY <1>4, <2>1, <2>2 DEF TypeOK, EnsureWrite, At, Stages, Holding
    <2>4. update[h].kind = "send" /\ Asks(h) = <<"back">> => Own(h) \in Messages
        BY <1>4, TargetIsMessage, ActionsDiffer DEF TypeOK, EnsureWrite, Own, Asks
    <2>5. HasMenu'
        BY <1>4, <2>4 DEF TypeOK, HasMenu, EnsureWrite, At, Own
    <2> QED BY <2>3, <2>5
<1>5. ASSUME NEW h \in Handlers, DefaultPrefs(h)
      PROVE  TypeOK' /\ HasMenu'
    <2>1. [row EXCEPT !.locale = DefaultLocale] \in Rows
        BY MenuAssumption DEF TypeOK, Rows
    <2>2. copy' \in [Handlers -> Rows \cup {None}] /\ copy'[h] \in Rows
        BY <1>5, <2>1 DEF TypeOK, DefaultPrefs
    <2>3. /\ stage' = [stage EXCEPT ![h] = "act"]
          /\ stale' = stale \cup {h}
          /\ UNCHANGED <<row, menu, update, ignored, excused>>
          /\ \A g \in Handlers \ {h} : copy'[g] = copy[g]
        BY <1>5 DEF TypeOK, DefaultPrefs, At
    <2>4. TypeOK'
        BY <1>5, <2>2, <2>3 DEF TypeOK, DefaultPrefs, Stages, Holding
    <2>5. HasMenu'
        BY <2>3 DEF TypeOK, HasMenu, Own
    <2> QED BY <2>4, <2>5
<1>6. ASSUME NEW h \in Handlers, Choose(h)
      PROVE  TypeOK' /\ HasMenu'
    <2>1. update[h] \in Updates /\ copy[h] \in Rows
        BY <1>6 DEF TypeOK, Choose, Saves, Holding
    <2>2. [copy[h] EXCEPT ![FieldOf(Asks(h))] = Asks(h)[2]] \in Rows
        BY <1>6, <2>1, ChosenIsRow DEF Choose, Saves
    <2>3. row' \in Rows /\ excused' \subseteq Messages
        BY <1>6, <2>2 DEF TypeOK, Choose, Write
    <2>4. stale' \subseteq {g \in Handlers \ {h} : stage[g] \in Holding}
        BY <1>6 DEF TypeOK, Choose, Write
    <2>5. TypeOK'
        <3>1. PICK next \in {"saved", "reply"} :
                stage' = [stage EXCEPT ![h] = next]
            BY <1>6 DEF Choose, At
        <3>2. copy' \in {copy, [copy EXCEPT ![h] = None]}
            BY <1>6 DEF Choose
        <3>3. UNCHANGED <<menu, update, ignored>> /\ stage[h] = "act"
            BY <1>6 DEF Choose, Saves
        <3> QED
            BY <2>3, <2>4, <3>1, <3>2, <3>3 DEF TypeOK, Stages, Holding
    <2>6. update[h].kind = "tap" => Own(h) \in Messages
        BY <2>1, TargetIsMessage DEF Own
    <2>7. HasMenu'
        BY <1>6, <2>6 DEF TypeOK, HasMenu, Choose, At, Own
    <2> QED BY <2>5, <2>7
<1>7. ASSUME NEW h \in Handlers, Refuse(h)
      PROVE  TypeOK' /\ HasMenu'
    <2>1. CASE FieldOf(Asks(h)) = "none"
        <3>1. ignored' \subseteq Handlers
            BY <1>7, <2>1 DEF TypeOK, Refuse
        <3>2. /\ row' \in Rows /\ excused' \subseteq Messages
              /\ menu' \in [Messages -> Open \cup {Absent, Deleted}]
            BY <1>7 DEF TypeOK, Refuse
        <3>3. Return(h)
            BY <1>7, <2>1 DEF Refuse
        <3> QED BY <3>1, <3>2, <3>3, TypeReturn
    <2>2. CASE FieldOf(Asks(h)) # "none"
        BY <1>7, <2>2 DEF TypeOK, HasMenu, Refuse, Forget, At, Own, Stages, Holding
    <2> QED BY <2>1, <2>2
<1>8. ASSUME NEW h \in Handlers, ReadSummary(h)
      PROVE  TypeOK' /\ HasMenu'
    <2>1. TypeOK'
        BY <1>8 DEF TypeOK, ReadSummary, Summary, At, Stages, Holding
    <2>2. Own(h) \in Messages
        BY <1>8, TargetIsMessage, ActionsDiffer
            DEF TypeOK, HasMenu, ReadSummary, Own, Asks
    <2>3. HasMenu'
        BY <1>8, <2>2 DEF TypeOK, HasMenu, ReadSummary, At, Own
    <2> QED BY <2>1, <2>3
<1>9. ASSUME NEW h \in Handlers, ShowSummary(h) \/ ShowPage(h)
      PROVE  TypeOK' /\ HasMenu'
    <2>1. PICK page \in Pages : Show(h, page)
        BY <1>9 DEF ShowSummary, ShowPage, Openers, Pages
    <2>2. Own(h) \in Messages
        BY <1>9, TargetIsMessage, ActionsDiffer
            DEF TypeOK, HasMenu, ShowSummary, ShowPage, Own, Asks
    <2>3. copy[h] \in Rows
        BY <1>9 DEF TypeOK, ShowSummary, ShowPage, Holding
    <2>4. [page |-> page, shown |-> copy[h]] \in Open
        BY <2>3 DEF Open
    <2>5. /\ menu' \in [Messages -> Open \cup {Absent, Deleted}]
          /\ excused' \subseteq Messages
        BY <2>1, <2>2, <2>4 DEF TypeOK, Show
    <2>6. Return(h) /\ row' \in Rows /\ ignored' \subseteq Handlers
        BY <2>1 DEF TypeOK, Show
    <2> QED BY <2>5, <2>6, TypeReturn
<1>10. ASSUME NEW h \in Handlers, DeleteMessage(h)
       PROVE  TypeOK' /\ HasMenu'
    BY <1>10 DEF TypeOK, HasMenu, DeleteMessage, Forget, At, Own, Stages, Holding
<1>11. ASSUME NEW h \in Handlers, Reply(h) \/ Fail(h)
       PROVE  TypeOK' /\ HasMenu'
    <2>1. excused' \subseteq Messages
        BY <1>11 DEF TypeOK, HasMenu, Reply, Fail
    <2>2. /\ Return(h) /\ row' \in Rows /\ ignored' \subseteq Handlers
          /\ menu' \in [Messages -> Open \cup {Absent, Deleted}]
        BY <1>11 DEF TypeOK, Reply, Fail
    <2> QED BY <2>1, <2>2, TypeReturn
<1>12. CASE UNCHANGED vars
    BY <1>12 DEF TypeOK, HasMenu, vars, Own, Holding
<1> QED
    BY <1>1, <1>2, <1>3, <1>4, <1>5, <1>6, <1>7, <1>8, <1>9, <1>10, <1>11, <1>12
        DEF Next, Step

-----------------------------------------------------------------------------
(* Copies.                                                                 *)

(* A write that changes the row makes the other copies stale.              *)
LEMMA WriteKeepsFresh ==
    ASSUME TypeOK, Fresh, NEW h \in Handlers, NEW new, NEW redrawn,
           Write(h, new, redrawn),
           stage'[h] \notin Holding,
           \A g \in Handlers \ {h} : stage'[g] = stage[g] /\ copy'[g] = copy[g]
    PROVE  Fresh'
<1> SUFFICES ASSUME NEW g \in Handlers, stage'[g] \in Holding, g \notin stale'
             PROVE  copy'[g] = row'
    BY DEF Fresh, Holding
<1>1. g # h /\ stage[g] \in Holding /\ copy'[g] = copy[g]
    OBVIOUS
<1>2. new = row /\ g \notin stale
    BY <1>1 DEF Write
<1> QED BY <1>1, <1>2 DEF Fresh, Write

LEMMA FreshStep ==
    ASSUME TypeOK, Fresh, [Next]_vars
    PROVE  Fresh'
<1>1. ASSUME NEW h \in Handlers, Begin(h) \/ AnswerCallback(h)
      PROVE  Fresh'
    BY <1>1 DEF TypeOK, Fresh, Begin, AnswerCallback, At, Holding
<1>2. ASSUME NEW h \in Handlers, EnsureRead(h) \/ ReadPrefs(h)
      PROVE  Fresh'
    BY <1>2 DEF TypeOK, Fresh, EnsureRead, ReadPrefs, Read, At, Holding
<1>3. ASSUME NEW h \in Handlers, EnsureWrite(h)
      PROVE  Fresh'
    <2>1. /\ stage'[h] \notin Holding
          /\ \A g \in Handlers \ {h} : stage'[g] = stage[g] /\ copy'[g] = copy[g]
        BY <1>3 DEF TypeOK, EnsureWrite, At, Holding
    <2> QED BY <1>3, <2>1, WriteKeepsFresh DEF EnsureWrite
<1>4. ASSUME NEW h \in Handlers, DefaultPrefs(h)
      PROVE  Fresh'
    BY <1>4 DEF TypeOK, Fresh, DefaultPrefs, At, Holding
<1>5. ASSUME NEW h \in Handlers, Choose(h)
      PROVE  Fresh'
    <2>1. /\ stage'[h] \notin Holding
          /\ \A g \in Handlers \ {h} : stage'[g] = stage[g] /\ copy'[g] = copy[g]
        BY <1>5 DEF TypeOK, Choose, At, Holding
    <2> QED BY <1>5, <2>1, WriteKeepsFresh DEF Choose
<1>6. ASSUME NEW h \in Handlers, ReadSummary(h)
      PROVE  Fresh'
    BY <1>6 DEF TypeOK, Fresh, ReadSummary, Summary, At, Holding
<1>7. ASSUME NEW h \in Handlers, row' = row, Forget(h),
             At(h, "idle") \/ At(h, "reply")
      PROVE  Fresh'
    BY <1>7 DEF TypeOK, Fresh, Forget, At, Holding
<1>8. ASSUME NEW h \in Handlers,
             \/ Refuse(h) \/ ShowSummary(h) \/ ShowPage(h) \/ DeleteMessage(h)
             \/ Reply(h) \/ Fail(h)
      PROVE  row' = row /\ Forget(h) /\ (At(h, "idle") \/ At(h, "reply"))
    BY <1>8 DEF Refuse, ShowSummary, ShowPage, Show, DeleteMessage, Reply, Fail, Return
<1>9. CASE UNCHANGED vars
    BY <1>9 DEF Fresh, vars, Holding
<1> QED
    BY <1>1, <1>2, <1>3, <1>4, <1>5, <1>6, <1>7, <1>8, <1>9 DEF Next, Step

-----------------------------------------------------------------------------
(* Menus.                                                                  *)

(* Some handler has stored a choice from menu m and is about to show it.   *)
Showing(h, m) ==
    stage[h] \in {"saved", "summary"} /\ Own(h) = m /\ Asks(h) \in Choices

LEMMA CurrentStep ==
    ASSUME IInv, [Next]_vars
    PROVE  MenuIsCurrent'
<1> USE DEF IInv
<1>1. ASSUME row' = row, menu' = menu, excused' = excused,
             \A g \in Handlers, m \in Messages : Showing(g, m) => Showing(g, m)'
      PROVE  MenuIsCurrent'
    BY <1>1 DEF MenuIsCurrent, Showing, Open
<1>2. ASSUME NEW h \in Handlers,
             \/ Begin(h) \/ AnswerCallback(h) \/ EnsureRead(h) \/ ReadPrefs(h)
             \/ DefaultPrefs(h) \/ ReadSummary(h)
      PROVE  MenuIsCurrent'
    <2>1. row' = row /\ menu' = menu /\ excused' = excused
        BY <1>2 DEF Begin, AnswerCallback, EnsureRead, ReadPrefs, Read,
                    DefaultPrefs, ReadSummary
    <2>2. ASSUME NEW g \in Handlers, NEW m \in Messages, Showing(g, m)
          PROVE  Showing(g, m)'
        BY <1>2, <2>2 DEF TypeOK, Showing, Begin, AnswerCallback, EnsureRead, ReadPrefs,
                    Read, DefaultPrefs, ReadSummary, At, Own, Asks
    <2> QED BY <2>1, <2>2, <1>1
<1>3. ASSUME NEW h \in Handlers, Refuse(h) \/ Reply(h)
      PROVE  MenuIsCurrent'
    <2>1. row' = row /\ menu' = menu /\ excused' = excused
        BY <1>3 DEF Refuse, Reply
    <2>2. ASSUME NEW g \in Handlers, NEW m \in Messages, Showing(g, m)
          PROVE  Showing(g, m)'
        <3>1. g # h
            BY <1>3, <2>2 DEF Refuse, Reply, Showing
        <3>2. stage'[g] = stage[g] /\ update'[g] = update[g]
            BY <1>3, <3>1 DEF TypeOK, Refuse, Reply, Return, At
        <3> QED BY <2>2, <3>2 DEF Showing, Own, Asks
    <2> QED BY <2>1, <2>2, <1>1
<1>4. ASSUME NEW h \in Handlers, EnsureWrite(h)
      PROVE  MenuIsCurrent'
    <2>1. CASE row' = row
        <3>1. menu' = menu /\ excused' = excused
            BY <1>4, <2>1 DEF EnsureWrite, Write
        <3>2. ASSUME NEW g \in Handlers, NEW m \in Messages, Showing(g, m)
              PROVE  Showing(g, m)'
            BY <1>4, <3>2 DEF TypeOK, Showing, EnsureWrite, At, Own, Asks
        <3> QED BY <2>1, <3>1, <3>2, <1>1
    <2>2. CASE row' # row
        BY <1>4, <2>2 DEF TypeOK, EnsureWrite, Write, MenuIsCurrent
    <2> QED BY <2>1, <2>2
<1>5. ASSUME NEW h \in Handlers, Choose(h)
      PROVE  MenuIsCurrent'
    <2>1. CASE row' = row
        <3>1. menu' = menu /\ excused' = excused
            BY <1>5, <2>1 DEF Choose, Write
        <3>2. ASSUME NEW g \in Handlers, NEW m \in Messages, Showing(g, m)
              PROVE  Showing(g, m)'
            <4>1. g # h
                BY <1>5, <3>2 DEF Choose, Saves, Showing
            <4>2. stage'[g] = stage[g] /\ update'[g] = update[g]
                BY <1>5, <4>1 DEF TypeOK, Choose, At
            <4> QED BY <3>2, <4>2 DEF Showing, Own, Asks
        <3> QED BY <2>1, <3>1, <3>2, <1>1
    <2>2. CASE row' # row
        <3>1. Messages \ excused' \subseteq {Own(h)}
            BY <1>5, <2>2 DEF Choose, Write
        <3>2. ASSUME Own(h) \in Messages
              PROVE  Showing(h, Own(h))'
            <4>1. update[h] \in Updates /\ update' = update /\ Asks(h) \in Choices
                BY <1>5 DEF TypeOK, Choose, Saves
            <4>2. update[h].kind = "tap"
                BY <3>2, <4>1, ChoiceIsTapped DEF Own, Asks
            <4> QED BY <1>5, <4>1, <4>2 DEF TypeOK, Choose, At, Showing, Own, Asks
        <3>3. update' = update
            BY <1>5 DEF Choose
        <3> QED BY <3>1, <3>2, <3>3 DEF MenuIsCurrent, Showing, Own
    <2> QED BY <2>1, <2>2
<1>6. ASSUME NEW h \in Handlers, row' = row, Return(h) \/ At(h, "reply"),
             UNCHANGED update \/ Return(h),
             \A m \in Messages :
                m \notin excused' /\ menu'[m] \in Open =>
                    \/ menu'[m].shown = row
                    \/ m \notin excused /\ menu'[m] = menu[m] /\ ~Showing(h, m)
      PROVE  MenuIsCurrent'
    <2> SUFFICES ASSUME NEW m \in Messages, m \notin excused', menu'[m] \in Open,
                        menu'[m].shown # row
                 PROVE  \E g \in Handlers : Showing(g, m)'
        BY <1>6 DEF MenuIsCurrent, Showing, Open, Own, Asks
    <2>1. m \notin excused /\ menu'[m] = menu[m] /\ ~Showing(h, m)
        BY <1>6
    <2>2. PICK g \in Handlers : Showing(g, m)
        BY <2>1 DEF MenuIsCurrent, Showing
    <2>3. stage'[g] = stage[g] /\ update'[g] = update[g]
        BY <1>6, <2>1, <2>2 DEF TypeOK, Return, At
    <2> QED BY <2>2, <2>3 DEF Showing, Own, Asks
<1>7. ASSUME NEW h \in Handlers, ShowSummary(h) \/ ShowPage(h)
      PROVE  MenuIsCurrent'
    <2>1. PICK page \in Pages : Show(h, page)
        BY <1>7 DEF ShowSummary, ShowPage, Openers, Pages
    <2>2. Own(h) \in Messages
        BY <1>7, TargetIsMessage, ActionsDiffer
            DEF TypeOK, HasMenu, ShowSummary, ShowPage, Own, Asks
    <2>3. h \notin stale => copy[h] = row
        BY <1>7 DEF Fresh, ShowSummary, ShowPage, Holding
    <2>4. ASSUME NEW m \in Messages, m \notin excused', menu'[m] \in Open
          PROVE  \/ menu'[m].shown = row
                 \/ m \notin excused /\ menu'[m] = menu[m] /\ ~Showing(h, m)
        <3>1. CASE m # Own(h)
            BY <2>1, <2>2, <2>4, <3>1 DEF TypeOK, Show, Showing
        <3>2. CASE m = Own(h)
            <4>1. menu[m] # Deleted
                BY <2>1, <2>4, <3>2, GoneIsNotOpen DEF Show
            <4>2. h \notin stale /\ menu'[m].shown = copy[h]
                BY <2>1, <2>4, <3>2, <4>1 DEF TypeOK, Show
            <4> QED BY <4>2, <2>3
        <3> QED BY <3>1, <3>2
    <2>5. row' = row /\ Return(h)
        BY <2>1 DEF Show
    <2> QED BY <2>4, <2>5, <1>6
<1>8. ASSUME NEW h \in Handlers, DeleteMessage(h)
      PROVE  MenuIsCurrent'
    <2>1. ASSUME NEW m \in Messages, m \notin excused', menu'[m] \in Open
          PROVE  m \notin excused /\ menu'[m] = menu[m] /\ ~Showing(h, m)
        <3>1. m # Own(h)
            BY <1>8, <2>1, GoneIsNotOpen DEF TypeOK, DeleteMessage
        <3> QED BY <1>8, <2>1, <3>1 DEF TypeOK, DeleteMessage, Showing
    <2>2. row' = row /\ At(h, "reply") /\ UNCHANGED update
        BY <1>8 DEF DeleteMessage
    <2> QED BY <2>1, <2>2, <1>6
<1>9. ASSUME NEW h \in Handlers, Fail(h)
      PROVE  MenuIsCurrent'
    <2>1. ASSUME NEW m \in Messages, m \notin excused'
          PROVE  m \notin excused /\ menu'[m] = menu[m] /\ ~Showing(h, m)
        BY <1>9, <2>1 DEF Fail, Showing
    <2>2. row' = row /\ Return(h)
        BY <1>9 DEF Fail
    <2> QED BY <2>1, <2>2, <1>6
<1>10. CASE UNCHANGED vars
    BY <1>10 DEF MenuIsCurrent, vars, Open, Own, Asks
<1> QED
    BY <1>2, <1>3, <1>4, <1>5, <1>7, <1>8, <1>9, <1>10 DEF Next, Step

-----------------------------------------------------------------------------

(* The invariant holds of the whole behaviour.                             *)
THEOREM Invariance == Spec => []IInv
<1>1. Init => IInv
    <2>1. Init => Fresh /\ MenuIsCurrent
        BY GoneIsNotOpen DEF Init, Fresh, MenuIsCurrent, Holding
    <2> QED BY <2>1, TypeInit DEF IInv
<1>2. IInv /\ [Next]_vars => IInv'
    BY TypeStep, FreshStep, CurrentStep DEF IInv
<1> QED BY <1>1, <1>2, PTL DEF Spec

(* The menu's state is well typed: no value that is not valid is ever      *)
(* stored or shown, but for a default timezone that the row began with.    *)
THEOREM TypeCorrect == Spec => []TypeOK
<1>1. IInv => TypeOK
    BY DEF IInv
<1> QED BY <1>1, Invariance, PTL

(* A menu shows what the row says unless it is excused.                    *)
THEOREM MenusAreCurrent == Spec => []MenuIsCurrent
<1>1. IInv => MenuIsCurrent
    BY DEF IInv
<1> QED BY <1>1, Invariance, PTL

-----------------------------------------------------------------------------
(* What TapsAreAnswered rests on besides fairness: every button has a case *)
(* in the switch, and every call brings its update nearer its end.         *)

NoTapIsIgnored == ignored = {}

(* Each button that menu.go puts on a page, and each choice that can be    *)
(* typed, has a case in the switch of handlePrefsCallback, so no handler   *)
(* ends without a trace: for any locales and timezones, and whatever       *)
(* other updates do meanwhile (menu.go:84-163, handler.go:239-284).        *)
THEOREM NothingIsIgnored == Spec => []NoTapIsIgnored
<1>1. Init => NoTapIsIgnored
    BY DEF Init, NoTapIsIgnored
<1>2. \A c \in Choices : FieldOf(c) # "none"
    BY DEF Choices, FieldOf
<1>3. ASSUME NoTapIsIgnored, [Next]_vars
      PROVE  NoTapIsIgnored'
  <2>1. ASSUME NEW h \in Handlers, Refuse(h)
        PROVE  ignored' = ignored
      BY <1>2, <2>1 DEF Refuse
  <2>2. ASSUME NEW h \in Handlers, Begin(h)
        PROVE  ignored' \subseteq ignored
      BY <2>2 DEF Begin
  <2>3. ASSUME NEW h \in Handlers, Step(h), ~Refuse(h)
        PROVE  ignored' = ignored
      BY <2>3 DEF Step, AnswerCallback, EnsureRead, EnsureWrite, ReadPrefs, Read,
                  DefaultPrefs, Choose, ReadSummary, ShowSummary, ShowPage, Show,
                  DeleteMessage, Reply, Fail
  <2> QED
      BY <1>3, <2>1, <2>2, <2>3 DEF Next, NoTapIsIgnored, vars
<1> QED
    BY <1>1, <1>3, PTL DEF Spec

(* The calls a handler has still before it, at the most.                   *)
CallsLeft(h) ==
    CASE stage[h] = "answer"  -> 8
      [] stage[h] = "ensure"  -> 7
      [] stage[h] = "ensured" -> 6
      [] stage[h] = "read"    -> 5
      [] stage[h] = "act"     -> 4
      [] stage[h] = "saved"   -> 3
      [] stage[h] = "summary" -> 2
      [] stage[h] = "reply"   -> 1
      [] stage[h] = "idle"    -> 0

UpdatesGetOn ==
    \A h \in Handlers :
        stage[h] # "idle" =>
            \/ CallsLeft(h)' < CallsLeft(h)
            \/ UNCHANGED <<CallsLeft(h), stage[h], update[h]>> /\ ~Step(h)

LEMMA StepGetsOn ==
    ASSUME TypeOK, NEW h \in Handlers, Step(h)
    PROVE  CallsLeft(h)' < CallsLeft(h)
<1>1. ASSUME NEW s \in Stages, At(h, s)
      PROVE  stage'[h] = s
    BY <1>1 DEF At, TypeOK
<1>2. CASE AnswerCallback(h) \/ EnsureRead(h) \/ ReadPrefs(h) \/ DefaultPrefs(h)
    BY <1>1, <1>2 DEF AnswerCallback, EnsureRead, ReadPrefs, DefaultPrefs, Read, CallsLeft,
                      Stages
<1>3. CASE EnsureWrite(h)
  <2>1. stage[h] = "ensured" /\ stage'[h] \in {"saved", "read"}
      BY <1>1, <1>3 DEF EnsureWrite, Stages
  <2> QED
      BY <2>1 DEF CallsLeft
<1>4. CASE Choose(h)
  <2>1. stage[h] = "act" /\ stage'[h] \in {"saved", "reply"}
      BY <1>1, <1>4 DEF Choose, Saves, Stages
  <2> QED
      BY <2>1 DEF CallsLeft
<1>5. CASE Refuse(h)
  <2>1. stage[h] = "act" /\ stage'[h] \in {"idle", "reply"}
      BY <1>1, <1>5 DEF Refuse, Return, Stages
  <2> QED
      BY <2>1 DEF CallsLeft
<1>6. CASE ReadSummary(h)
  <2>1. stage[h] \in {"act", "saved"} /\ stage'[h] = "summary"
      BY <1>1, <1>6 DEF ReadSummary, Stages
  <2> QED
      BY <2>1 DEF CallsLeft
<1>7. CASE DeleteMessage(h)
  <2>1. stage[h] = "act" /\ stage'[h] = "reply"
      BY <1>1, <1>7 DEF DeleteMessage, Stages
  <2> QED
      BY <2>1 DEF CallsLeft
<1>8. CASE ShowSummary(h) \/ ShowPage(h) \/ Reply(h) \/ Fail(h)
  <2>1. stage[h] # "idle" /\ stage'[h] = "idle"
      BY <1>1, <1>8 DEF ShowSummary, ShowPage, Show, Reply, Fail, Return, Stages
  <2> QED
      BY <2>1 DEF CallsLeft, TypeOK, Stages
<1> QED
    BY <1>2, <1>3, <1>4, <1>5, <1>6, <1>7, <1>8 DEF Step

LEMMA OthersDoNotTouch ==
    ASSUME TypeOK, NEW g \in Handlers, NEW h \in Handlers, g # h, Begin(g) \/ Step(g)
    PROVE  UNCHANGED <<stage[h], update[h]>>
BY DEF TypeOK, Begin, Step, AnswerCallback, EnsureRead, EnsureWrite, ReadPrefs, Read,
       DefaultPrefs, Choose, Refuse, ReadSummary, ShowSummary, ShowPage, Show,
       DeleteMessage, Reply, Fail, Return, At

(* Every call of a handler, whether it fails or not, brings its update     *)
(* nearer its end, and no other update sets it back or makes it wait.      *)
THEOREM UpdatesComeNearer == Spec => [][UpdatesGetOn]_vars
<1>1. ASSUME TypeOK, [Next]_vars
      PROVE  [UpdatesGetOn]_vars
  <2> SUFFICES ASSUME ~UNCHANGED vars, NEW h \in Handlers, stage[h] # "idle"
               PROVE  \/ CallsLeft(h)' < CallsLeft(h)
                      \/ UNCHANGED <<CallsLeft(h), stage[h], update[h]>> /\ ~Step(h)
      BY DEF UpdatesGetOn
  <2>1. CASE Step(h)
      BY <1>1, <2>1, StepGetsOn
  <2>2. CASE ~Step(h)
    <3>1. PICK g \in Handlers : Begin(g) \/ Step(g)
        BY <1>1 DEF Next
    <3>2. g # h
        BY <2>2, <3>1 DEF Begin
    <3>3. UNCHANGED <<stage[h], update[h]>>
        BY <1>1, <3>1, <3>2, OthersDoNotTouch
    <3>4. CallsLeft(h)' = CallsLeft(h)
        BY <3>3 DEF CallsLeft
    <3> QED
        BY <2>2, <3>3, <3>4
  <2> QED
      BY <2>1, <2>2
<1> QED
    BY <1>1, TypeCorrect, PTL DEF Spec
=============================================================================
