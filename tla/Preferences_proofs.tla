------------------------- MODULE Preferences_proofs -------------------------
(***************************************************************************)
(* Preferences for any number of goroutines, languages and timezones.      *)
(*                                                                         *)
(* The argument: a handler whose copy is not stale holds what the row      *)
(* holds, blanks apart, because the first write after its read makes it    *)
(* stale.  So writing the copy back changes nothing but the field asked    *)
(* for, and what was saved stays until a stale copy is written.            *)
(***************************************************************************)
EXTENDS Preferences, TLAPS

USE LocaleAssumption, ZoneAssumption, FlagAssumption DEF StoredZones

(* What a handler has asked for, once it is past ensurePrefs.              *)
AskedForField ==
    \A h \in Handlers : stage[h] \in {"command", "edit"} =>
        LET r == update[h].request IN
        /\ r.field \in Fields
        /\ stage[h] = "edit" => r.value \notin {OtherLocale, BadZone}

(* A copy to be written is complete.                                       *)
CopiesComplete ==
    \A h \in Handlers : stage[h] \in Holding =>
        copy[h].locale \in Locales /\ copy[h].timezone \in StoredZones

(* new says what old says, except where old is blank.                      *)
Completes(new, old) ==
    /\ old.locale # Blank => new.locale = old.locale
    /\ old.timezone # Blank => new.timezone = old.timezone
    /\ new.short = old.short

FreshCopiesAgree ==
    \A h \in Handlers : stage[h] \in Holding /\ h \notin stale => Completes(copy[h], row)

PInv ==
    /\ TypeOK /\ AskedForField /\ CopiesComplete /\ FreshCopiesAgree
    /\ BlankOrComplete /\ KeptUnlessOverlapped

-----------------------------------------------------------------------------
(* Filled gives a complete row that agrees with the one it was made of.    *)
LEMMA FilledFacts ==
    ASSUME row \in Rows, NEW l \in Locales, NEW z \in StoredZones
    PROVE  /\ Filled(l, z) \in Rows
           /\ Filled(l, z).locale \in Locales /\ Filled(l, z).timezone \in StoredZones
           /\ Completes(Filled(l, z), row)
BY DEF Filled, Rows, Completes

(* The value a command stores, put into a complete row.                    *)
LEMMA EditFacts ==
    ASSUME NEW c \in Rows, c.locale \in Locales, c.timezone \in StoredZones,
           NEW r \in Requests, r.field \in Fields, r.value \notin {OtherLocale, BadZone}
    PROVE  LET new == [c EXCEPT ![r.field] = r.value] IN
           /\ new \in Rows
           /\ new.locale \in Locales /\ new.timezone \in StoredZones
           /\ new[r.field] = r.value
           /\ \A f \in Fields \ {r.field} : new[f] = c[f]
           /\ r.field = "locale" => r.value \in Locales
           /\ r.field = "timezone" => r.value \in Zones
           /\ r.field = "short" => r.value \in BOOLEAN
<1>1. CASE r.field = "locale"
    BY <1>1 DEF Rows, Requests, Fields
<1>2. CASE r.field = "timezone"
    BY <1>2 DEF Rows, Requests, Fields
<1>3. CASE r.field = "short"
    BY <1>3 DEF Rows, Requests, Fields
<1> QED
    BY <1>1, <1>2, <1>3 DEF Fields

-----------------------------------------------------------------------------
(* One lemma per action.                                                   *)

(* Nothing a handler holds or has saved changes when another one begins or *)
(* returns.                                                                *)
LEMMA BeginInv ==
    ASSUME PInv, NEW h \in Handlers, Begin(h)
    PROVE  PInv'
<1>1. PICK u \in Updates : update' = [update EXCEPT ![h] = u]
    BY DEF Begin
<1>2. /\ stage[h] = "idle" /\ stage' = [stage EXCEPT ![h] = "ensure"]
      /\ UNCHANGED <<row, copy, saved, stale, overlapped>>
    BY DEF Begin
<1>3. TypeOK'
    BY <1>1, <1>2 DEF PInv, TypeOK, Stages
<1>4. AskedForField'
    BY <1>1, <1>2 DEF PInv, TypeOK, AskedForField
<1>5. CopiesComplete' /\ FreshCopiesAgree'
    BY <1>2 DEF PInv, TypeOK, CopiesComplete, FreshCopiesAgree, Completes, Holding
<1>6. BlankOrComplete' /\ KeptUnlessOverlapped'
    BY <1>2 DEF PInv, BlankOrComplete, KeptUnlessOverlapped, ChangesKept
<1> QED
    BY <1>3, <1>4, <1>5, <1>6 DEF PInv

LEMMA ReturnInv ==
    ASSUME PInv, NEW h \in Handlers, Return(h),
           UNCHANGED <<row, saved, overlapped>>, stale' \in {stale, stale \ {h}}
    PROVE  PInv'
<1>1. /\ stage' = [stage EXCEPT ![h] = "idle"]
      /\ update' = [update EXCEPT ![h] = Blank]
      /\ copy' = [copy EXCEPT ![h] = BlankRow]
    BY DEF Return
<1>2. TypeOK'
    BY <1>1 DEF PInv, TypeOK, Stages, BlankRow, Rows
<1>3. AskedForField'
    BY <1>1 DEF PInv, TypeOK, AskedForField
<1>4. CopiesComplete' /\ FreshCopiesAgree'
    BY <1>1 DEF PInv, TypeOK, CopiesComplete, FreshCopiesAgree, Completes, Holding
<1>5. BlankOrComplete' /\ KeptUnlessOverlapped'
    BY DEF PInv, BlankOrComplete, KeptUnlessOverlapped, ChangesKept
<1> QED
    BY <1>2, <1>3, <1>4, <1>5 DEF PInv

(* A read makes a fresh and complete copy.                                 *)
LEMMA ReadInv ==
    ASSUME PInv, NEW h \in Handlers, NEW l \in Locales, NEW z \in StoredZones, Read(h, l, z),
           NEW next \in Stages, stage' = [stage EXCEPT ![h] = next], UNCHANGED update,
           update[h] \in Updates, next # "command",
           next = "edit" => LET r == update[h].request IN
                            r.field \in Fields /\ r.value \notin {OtherLocale, BadZone}
    PROVE  PInv'
<1>1. /\ copy' = [copy EXCEPT ![h] = Filled(l, z)]
      /\ stale' = stale \ {h}
      /\ UNCHANGED <<row, saved, overlapped>>
    BY DEF Read
<1>2. /\ Filled(l, z) \in Rows
      /\ Filled(l, z).locale \in Locales /\ Filled(l, z).timezone \in StoredZones
      /\ Completes(Filled(l, z), row)
    BY FilledFacts DEF PInv, TypeOK
<1>3. TypeOK'
    BY <1>1, <1>2 DEF PInv, TypeOK
<1>4. AskedForField'
    BY DEF PInv, TypeOK, AskedForField
<1>5. CopiesComplete'
    BY <1>1, <1>2 DEF PInv, TypeOK, CopiesComplete
<1>6. FreshCopiesAgree'
    BY <1>1, <1>2 DEF PInv, TypeOK, FreshCopiesAgree, Completes
<1>7. BlankOrComplete' /\ KeptUnlessOverlapped'
    BY <1>1 DEF PInv, BlankOrComplete, KeptUnlessOverlapped, ChangesKept
<1> QED
    BY <1>3, <1>4, <1>5, <1>6, <1>7 DEF PInv

LEMMA EnsureReadInv ==
    ASSUME PInv, NEW h \in Handlers, EnsureRead(h)
    PROVE  PInv'
<1>1. update[h] \in Updates
    BY DEF EnsureRead, PInv, TypeOK
<1>2. InitialLocale(update[h].language) \in Locales
    BY <1>1 DEF InitialLocale
<1>3. PICK next \in {"ensured", "started"} : stage' = [stage EXCEPT ![h] = next]
    BY DEF EnsureRead
<1>4. next \in Stages /\ next \notin {"command", "edit"}
    BY DEF Stages
<1> QED
    BY <1>1, <1>2, <1>3, <1>4, ReadInv DEF EnsureRead

LEMMA CommandReadInv ==
    ASSUME PInv, NEW h \in Handlers, CommandRead(h)
    PROVE  PInv'
<1>1. CASE update[h].request.value \in {OtherLocale, BadZone}
    BY <1>1, ReturnInv DEF CommandRead
<1>2. CASE update[h].request.value \notin {OtherLocale, BadZone}
  <2>1. update[h] \in Updates /\ update[h].request.field \in Fields
      BY DEF CommandRead, PInv, TypeOK, AskedForField
  <2>2. Read(h, DefaultLocale, DefaultZone) /\ UNCHANGED update
      BY <1>2 DEF CommandRead
  <2>3. stage' = [stage EXCEPT ![h] = "edit"] /\ "edit" \in Stages
      BY <1>2 DEF CommandRead, Stages
  <2> QED
      BY <1>2, <2>1, <2>2, <2>3, ReadInv
<1> QED
    BY <1>1, <1>2

(* After a write no copy but the writer's is fresh, and it is not kept.    *)
LEMMA WriteFacts ==
    ASSUME PInv, NEW h \in Handlers, NEW new \in Rows, Write(h, new),
           new.locale \in Locales, new.timezone \in StoredZones,
           \A g \in Handlers \ {h} : stage'[g] = stage[g],
           stage'[h] \notin Holding
    PROVE  /\ row' \in Rows /\ stale' \subseteq Handlers /\ overlapped' \in BOOLEAN
           /\ FreshCopiesAgree' /\ BlankOrComplete'
           /\ ~overlapped' => ~overlapped /\ h \notin stale
<1>1. row' = new /\ overlapped' = (overlapped \/ h \in stale)
    BY DEF Write
<1>2. stale' = {g \in Handlers \ {h} : stage[g] \in Holding}
    BY DEF Write
<1>3. FreshCopiesAgree'
    BY <1>2 DEF FreshCopiesAgree
<1>4. BlankOrComplete'
    BY <1>1 DEF BlankOrComplete
<1>5. overlapped' \in BOOLEAN
    BY <1>1
<1> QED
    BY <1>1, <1>2, <1>3, <1>4, <1>5

LEMMA EnsureWriteInv ==
    ASSUME PInv, NEW h \in Handlers, EnsureWrite(h)
    PROVE  PInv'
<1>1. Write(h, copy[h]) /\ stage[h] \in {"ensured", "started"} /\ saved' = saved
    BY DEF EnsureWrite
<1>2. copy[h] \in Rows /\ copy[h].locale \in Locales /\ copy[h].timezone \in StoredZones
    BY <1>1 DEF PInv, TypeOK, CopiesComplete, Holding
<1>4. /\ \A g \in Handlers \ {h} : stage'[g] = stage[g] /\ copy'[g] = copy[g]
                                     /\ update'[g] = update[g]
      /\ stage'[h] \in {"start", "command", "idle"}
      /\ stage'[h] # "idle" => update'[h] = update[h]
      /\ stage'[h] = "command" => update[h].request.field \in Fields
      /\ stage' \in [Handlers -> Stages]
      /\ update' \in [Handlers -> Updates \cup {Blank}]
      /\ copy' \in [Handlers -> Rows]
  <2>1. CASE Return(h)
      BY <2>1 DEF Return, PInv, TypeOK, Stages, BlankRow, Rows
  <2>2. CASE ~Return(h)
    <3>1. UNCHANGED <<update, copy>>
        BY <2>2 DEF EnsureWrite
    <3>2. PICK next \in {"start", "command"} :
              /\ stage' = [stage EXCEPT ![h] = next]
              /\ next = "command" => update[h].request.field \in Fields
        BY <2>2 DEF EnsureWrite, Fields
    <3> QED
        BY <3>1, <3>2 DEF PInv, TypeOK, Stages
  <2> QED
      BY <2>1, <2>2
<1>5. /\ row' \in Rows /\ stale' \subseteq Handlers /\ overlapped' \in BOOLEAN
      /\ FreshCopiesAgree' /\ BlankOrComplete'
      /\ ~overlapped' => ~overlapped /\ h \notin stale
    BY <1>1, <1>2, <1>4, WriteFacts DEF Holding
<1>6. TypeOK'
    BY <1>1, <1>4, <1>5 DEF PInv, TypeOK
<1>7. AskedForField'
    BY <1>4 DEF PInv, AskedForField
<1>8. CopiesComplete'
    BY <1>4 DEF PInv, CopiesComplete, Holding
<1>9. KeptUnlessOverlapped'
  <2> SUFFICES ASSUME ~overlapped', NEW f \in Fields, saved[f] # Blank
               PROVE  row'[f] = saved[f]
      BY <1>1 DEF KeptUnlessOverlapped, ChangesKept
  <2>1. row[f] = saved[f]
      BY <1>5 DEF PInv, KeptUnlessOverlapped, ChangesKept
  <2>2. Completes(copy[h], row) /\ row' = copy[h]
      BY <1>1, <1>5 DEF PInv, FreshCopiesAgree, Holding, Write
  <2> QED
      BY <2>1, <2>2 DEF Completes, Fields
<1> QED
    BY <1>5, <1>6, <1>7, <1>8, <1>9 DEF PInv

LEMMA CommandWriteInv ==
    ASSUME PInv, NEW h \in Handlers, CommandWrite(h)
    PROVE  PInv'
<1> DEFINE r == update[h].request
           new == [copy[h] EXCEPT ![r.field] = r.value]
<1>1. /\ stage[h] = "edit" /\ Write(h, new) /\ Return(h)
      /\ saved' = [saved EXCEPT ![r.field] = r.value]
    BY DEF CommandWrite
<1>2. copy[h] \in Rows /\ copy[h].locale \in Locales /\ copy[h].timezone \in StoredZones
    BY <1>1 DEF PInv, TypeOK, CopiesComplete, Holding
<1>3. r \in Requests /\ r.field \in Fields /\ r.value \notin {OtherLocale, BadZone}
    BY <1>1 DEF PInv, TypeOK, AskedForField, Updates
<1>4. /\ new \in Rows /\ new.locale \in Locales /\ new.timezone \in StoredZones
      /\ new[r.field] = r.value
      /\ \A f \in Fields \ {r.field} : new[f] = copy[h][f]
      /\ r.field = "locale" => r.value \in Locales
      /\ r.field = "timezone" => r.value \in Zones
      /\ r.field = "short" => r.value \in BOOLEAN
    BY <1>2, <1>3, EditFacts
<1> HIDE DEF new, r
<1>5. /\ \A g \in Handlers \ {h} : stage'[g] = stage[g] /\ copy'[g] = copy[g]
                                     /\ update'[g] = update[g]
      /\ stage'[h] = "idle"
      /\ stage' \in [Handlers -> Stages]
      /\ update' \in [Handlers -> Updates \cup {Blank}]
      /\ copy' \in [Handlers -> Rows]
    BY <1>1 DEF Return, PInv, TypeOK, Stages, BlankRow, Rows
<1>6. /\ row' \in Rows /\ stale' \subseteq Handlers /\ overlapped' \in BOOLEAN
      /\ FreshCopiesAgree' /\ BlankOrComplete'
      /\ ~overlapped' => ~overlapped /\ h \notin stale
    BY <1>1, <1>4, <1>5, WriteFacts DEF Holding
<1>7. saved' \in [locale : Locales \cup {Blank}, timezone : Zones \cup {Blank},
                  short : BOOLEAN \cup {Blank}]
    BY <1>1, <1>3, <1>4 DEF PInv, TypeOK, Fields
<1>8. TypeOK'
    BY <1>5, <1>6, <1>7 DEF PInv, TypeOK
<1>9. AskedForField' /\ CopiesComplete'
    BY <1>5 DEF PInv, AskedForField, CopiesComplete, Holding
<1>10. KeptUnlessOverlapped'
  <2> SUFFICES ASSUME ~overlapped', NEW f \in Fields, saved'[f] # Blank
               PROVE  row'[f] = saved'[f]
      BY DEF KeptUnlessOverlapped, ChangesKept
  <2>1. row' = new
      BY <1>1 DEF Write
  <2>2. CASE f = r.field
      BY <1>1, <1>4, <2>1, <2>2 DEF PInv, TypeOK, Fields
  <2>3. CASE f # r.field
    <3>1. saved'[f] = saved[f]
        BY <1>1, <1>3, <2>3 DEF PInv, TypeOK, Fields
    <3>2. row[f] = saved[f] /\ row[f] # Blank
        BY <1>6, <3>1 DEF PInv, KeptUnlessOverlapped, ChangesKept
    <3>3. Completes(copy[h], row)
        BY <1>1, <1>6 DEF PInv, FreshCopiesAgree, Holding
    <3> QED
        BY <1>4, <2>1, <2>3, <3>1, <3>2, <3>3 DEF Completes, Fields
  <2> QED
      BY <2>2, <2>3
<1> QED
    BY <1>6, <1>8, <1>9, <1>10 DEF PInv

-----------------------------------------------------------------------------

LEMMA InitPInv == Init => PInv
<1> SUFFICES ASSUME Init PROVE PInv
    OBVIOUS
<1>1. TypeOK
    BY DEF Init, TypeOK, Rows, BlankRow, Stages, Fields
<1>2. AskedForField /\ CopiesComplete /\ FreshCopiesAgree
    BY DEF Init, AskedForField, CopiesComplete, FreshCopiesAgree, Holding
<1>3. BlankOrComplete /\ KeptUnlessOverlapped
    BY DEF Init, BlankOrComplete, KeptUnlessOverlapped, ChangesKept, Fields
<1> QED
    BY <1>1, <1>2, <1>3 DEF PInv

LEMMA NextPInv == PInv /\ [Next]_vars => PInv'
<1> SUFFICES ASSUME PInv, [Next]_vars PROVE PInv'
    OBVIOUS
<1>1. ASSUME NEW h \in Handlers, Begin(h) PROVE PInv'
    BY <1>1, BeginInv
<1>2. ASSUME NEW h \in Handlers, EnsureRead(h) PROVE PInv'
    BY <1>2, EnsureReadInv
<1>3. ASSUME NEW h \in Handlers, EnsureWrite(h) PROVE PInv'
    BY <1>3, EnsureWriteInv
<1>4. ASSUME NEW h \in Handlers, CommandRead(h) PROVE PInv'
    BY <1>4, CommandReadInv
<1>5. ASSUME NEW h \in Handlers, CommandWrite(h) PROVE PInv'
    BY <1>5, CommandWriteInv
<1>6. ASSUME NEW h \in Handlers, Fail(h) PROVE PInv'
    BY <1>6, ReturnInv DEF Fail
<1>7. CASE UNCHANGED vars
    BY <1>7 DEF PInv, TypeOK, AskedForField, CopiesComplete, FreshCopiesAgree, Completes,
                BlankOrComplete, KeptUnlessOverlapped, ChangesKept, vars
<1> QED
    BY <1>1, <1>2, <1>3, <1>4, <1>5, <1>6, <1>7 DEF Next

THEOREM Invariance == Spec => []PInv
<1> QED
    BY InitPInv, NextPInv, PTL DEF Spec

(* Every reachable state is well typed: no handler holds or writes a       *)
(* language that is not supported, or a timezone that is neither supported *)
(* nor the default of the configuration.                                   *)
THEOREM TypeCorrect == Spec => []TypeOK
<1>1. PInv => TypeOK
    BY DEF PInv
<1> QED
    BY <1>1, Invariance, PTL

(* What was last chosen is what the row says as long as no stale copy has  *)
(* been written, for any number of handlers (handler.go:424-457).          *)
THEOREM ChoicesAreKept == Spec => []KeptUnlessOverlapped
<1>1. PInv => KeptUnlessOverlapped
    BY DEF PInv
<1> QED
    BY <1>1, Invariance, PTL

(* The row is blank or complete, whatever fails and however updates        *)
(* overlap, and whatever DEFAULT_TIMEZONE is: of the timezones that cannot *)
(* be found only that one is ever in a row.                                *)
THEOREM RowIsWhole == Spec => []BlankOrComplete
<1>1. PInv => BlankOrComplete
    BY DEF PInv
<1> QED
    BY <1>1, Invariance, PTL

(* An ensurePrefs whose copy is not stale leaves a stored language alone.  *)
THEOREM LanguageIsLeftAlone == Spec => InitializedUnlessStale
<1>1. PInv /\ [Next]_vars => [\A h \in Handlers : h \notin stale => LocaleLeftAlone(h)]_vars
  <2> SUFFICES ASSUME PInv, Next, NEW h \in Handlers, h \notin stale,
                      stage[h] \in {"ensured", "started"}, stage'[h] # stage[h],
                      row.locale # Blank
               PROVE  row'.locale = row.locale
      BY DEF LocaleLeftAlone
  <2>1. PICK g \in Handlers :
            \/ Begin(g) \/ EnsureRead(g) \/ EnsureWrite(g)
            \/ CommandRead(g) \/ CommandWrite(g) \/ Fail(g)
      BY DEF Next
  <2>2. g = h
      BY <2>1 DEF Begin, EnsureRead, EnsureWrite, CommandRead, CommandWrite, Fail, Return,
                  PInv, TypeOK
  <2>3. CASE EnsureWrite(h)
      BY <2>3 DEF EnsureWrite, Write, PInv, FreshCopiesAgree, Completes, Holding
  <2>4. CASE Fail(h)
      BY <2>4 DEF Fail
  <2> QED
      BY <2>1, <2>2, <2>3, <2>4 DEF Begin, EnsureRead, CommandRead, CommandWrite
<1> QED
    BY <1>1, Invariance, PTL DEF Spec, InitializedUnlessStale
=============================================================================
