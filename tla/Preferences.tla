----------------------------- MODULE Preferences -----------------------------
(***************************************************************************)
(* One user's row of user_preferences and the updates that work on it.     *)
(*                                                                         *)
(* internal/bot/handler.go answers every update of an allowed user with    *)
(* ensurePrefs (read the row, fill what is blank, write the whole row) and *)
(* then, for a language, timezone or short-message choice, typed or tapped *)
(* on a button, with a second read and write of the whole row.  The reads  *)
(* and the writes are statements of their own, without a transaction       *)
(* (internal/storage/postgres.go), and the Telegram library runs every     *)
(* update in its own goroutine.                                            *)
(*                                                                         *)
(* GetPrefs returns blanks for a row that does not exist, so a missing row *)
(* is the blank one.  SetPrefs fills blank fields from the row before it   *)
(* writes; its callers here have filled them already.                      *)
(***************************************************************************)
CONSTANTS
    Handlers,       \* bound: the goroutines that may be at work at once
    Locales,        \* supportedLocales
    OtherLocale,    \* a language that is not supported
    Zones,          \* timezones that time.LoadLocation finds
    BadZone,        \* one that it does not
    Blank,          \* the empty string, or NULL
    DefaultLocale,  \* DEFAULT_LOCALE
    DefaultZone,    \* DEFAULT_TIMEZONE, which nothing checks
    Faults          \* SQL statements may fail

(* main.go:49 does not start without a catalogue for DEFAULT_LOCALE; of    *)
(* DEFAULT_TIMEZONE config.go:110 asks no more than that it is not empty.  *)
ASSUME LocaleAssumption ==
    /\ DefaultLocale \in Locales
    /\ Blank \notin Locales /\ OtherLocale \notin Locales

ASSUME ZoneAssumption ==
    /\ DefaultZone # Blank
    /\ Blank \notin Zones /\ BadZone \notin Zones

ASSUME FlagAssumption == Faults \in BOOLEAN

VARIABLES
    row,         \* the row of user_preferences
    stage,       \* where each update's handler is
    update,      \* the update it answers
    copy,        \* the row it has read and will write back
    \* history
    saved,       \* the last value each command stored, field by field
    stale,       \* handlers whose copy was read before another one's write
    overlapped   \* a stale copy has been written

vars == <<row, stage, update, copy, saved, stale, overlapped>>

Fields == {"locale", "timezone", "short"}

(* Choices are checked before they are stored and the default is not.      *)
StoredZones == Zones \cup {DefaultZone}

Rows == [locale : Locales \cup {Blank}, timezone : StoredZones \cup {Blank},
         short : BOOLEAN]

BlankRow == [locale |-> Blank, timezone |-> Blank, short |-> FALSE]

(* What an update asks for: a field and its value, or nothing that is      *)
(* stored ("start" is told apart because it calls ensurePrefs twice).      *)
Requests ==
    {[field |-> "locale", value |-> l] : l \in Locales \cup {OtherLocale}} \cup
    {[field |-> "timezone", value |-> z] : z \in Zones \cup {BadZone}} \cup
    {[field |-> "short", value |-> b] : b \in BOOLEAN} \cup
    {[field |-> "start", value |-> Blank], [field |-> "none", value |-> Blank]}

Updates == [request : Requests, language : Locales \cup {OtherLocale}]

Stages == {"idle", "ensure", "ensured", "start", "started", "command", "edit"}

(* The stages at which a handler holds a copy it will write.               *)
Holding == {"ensured", "started", "edit"}

TypeOK ==
    /\ row \in Rows
    /\ stage \in [Handlers -> Stages]
    /\ update \in [Handlers -> Updates \cup {Blank}]
    /\ \A h \in Handlers : stage[h] # "idle" => update[h] \in Updates
    /\ copy \in [Handlers -> Rows]
    /\ saved \in [locale : Locales \cup {Blank}, timezone : Zones \cup {Blank},
                  short : BOOLEAN \cup {Blank}]
    /\ stale \subseteq Handlers
    /\ overlapped \in BOOLEAN

Init ==
    /\ row = BlankRow
    /\ stage = [h \in Handlers |-> "idle"]
    /\ update = [h \in Handlers |-> Blank]
    /\ copy = [h \in Handlers |-> BlankRow]
    /\ saved = [f \in Fields |-> Blank]
    /\ stale = {}
    /\ overlapped = FALSE

-----------------------------------------------------------------------------

(* HandleMessage or HandleCallback of an allowed user.  Any number of      *)
(* updates follow one another; as many as Handlers overlap.                *)
Begin(h) ==
    /\ stage[h] = "idle"
    /\ \E u \in Updates : update' = [update EXCEPT ![h] = u]
    /\ stage' = [stage EXCEPT ![h] = "ensure"]
    /\ UNCHANGED <<row, copy, saved, stale, overlapped>>

(* Mutant of InitialLocale: the client's language is taken unchecked.      *)
ClientLocale(language) == language

(* The handler returns; its variables are gone.                            *)
Return(h) ==
    /\ stage' = [stage EXCEPT ![h] = "idle"]
    /\ update' = [update EXCEPT ![h] = Blank]
    /\ copy' = [copy EXCEPT ![h] = BlankRow]

(* initialLocale                                                           *)
InitialLocale(language) == IF language \in Locales THEN language ELSE DefaultLocale

(* Mutants of Filled: the locale is always replaced; the timezone is left  *)
(* blank; the row is not looked at.                                        *)
Relocated(locale, zone) ==
    [row EXCEPT !.locale = locale, !.timezone = IF @ = Blank THEN zone ELSE @]
HalfFilled(locale, zone) ==
    [row EXCEPT !.locale = IF @ = Blank THEN locale ELSE @]
Defaults(locale, zone) ==
    [locale |-> locale, timezone |-> zone, short |-> FALSE]

(* The row with locale and zone in place of the blanks.                    *)
Filled(locale, zone) ==
    [row EXCEPT !.locale = IF @ = Blank THEN locale ELSE @,
                !.timezone = IF @ = Blank THEN zone ELSE @]

(* GetPrefs                                                                *)
Read(h, locale, zone) ==
    /\ copy' = [copy EXCEPT ![h] = Filled(locale, zone)]
    /\ stale' = stale \ {h}
    /\ UNCHANGED <<row, saved, overlapped>>

(* SetPrefs: the whole row is written, whatever has happened to it since.  *)
Write(h, new) ==
    /\ row' = new
    /\ overlapped' = (overlapped \/ h \in stale)
    /\ stale' = {g \in Handlers \ {h} : stage[g] \in Holding}

EnsureRead(h) ==
    /\ stage[h] \in {"ensure", "start"}
    /\ Read(h, InitialLocale(update[h].language), DefaultZone)
    /\ stage' = [stage EXCEPT ![h] = IF @ = "ensure" THEN "ensured" ELSE "started"]
    /\ UNCHANGED update

(* What follows ensurePrefs: /start calls it again, a command that stores  *)
(* something reads the row anew, and anything else writes no more.         *)
EnsureWrite(h) ==
    LET field == update[h].request.field IN
    /\ stage[h] \in {"ensured", "started"}
    /\ Write(h, copy[h])
    /\ IF field \in Fields \/ (field = "start" /\ stage[h] = "ensured")
       THEN /\ stage' = [stage EXCEPT ![h] =
                            IF field = "start" THEN "start" ELSE "command"]
            /\ UNCHANGED <<update, copy>>
       ELSE Return(h)
    /\ UNCHANGED saved

(* prefs: the command's own read, with the defaults for blanks.  A value   *)
(* that is not supported is answered without a write.                      *)
CommandRead(h) ==
    /\ stage[h] = "command"
    /\ IF update[h].request.value \in {OtherLocale, BadZone}
       THEN Return(h) /\ UNCHANGED <<row, saved, stale, overlapped>>
       ELSE /\ Read(h, DefaultLocale, DefaultZone)
            /\ stage' = [stage EXCEPT ![h] = "edit"]
            /\ UNCHANGED update

CommandWrite(h) ==
    LET r == update[h].request IN
    /\ stage[h] = "edit"
    /\ Write(h, [copy[h] EXCEPT ![r.field] = r.value])
    /\ saved' = [saved EXCEPT ![r.field] = r.value]
    /\ Return(h)

(* A statement fails and the handler returns the error; one that failed    *)
(* for the handler and took effect all the same is its action, then this.  *)
Fail(h) ==
    /\ Faults /\ stage[h] # "idle"
    /\ Return(h)
    /\ stale' = stale \ {h}
    /\ UNCHANGED <<row, saved, overlapped>>

Next ==
    \E h \in Handlers :
        \/ Begin(h) \/ EnsureRead(h) \/ EnsureWrite(h)
        \/ CommandRead(h) \/ CommandWrite(h) \/ Fail(h)

Spec == Init /\ [][Next]_vars

-----------------------------------------------------------------------------
(* Properties.                                                             *)

(* What the user last chose is what the row says, for every field.         *)
ChangesKept == \A f \in Fields : saved[f] # Blank => row[f] = saved[f]

(* A stored choice is lost only by two updates overlapping: one of them    *)
(* read the row before the other wrote it and wrote it back afterwards.    *)
(* As long as that has not happened every field is as last chosen, however *)
(* many updates for other fields, overlapping or not, and however many     *)
(* failures there were (handler.go:424-457, postgres.go:161-186).          *)
KeptUnlessOverlapped == ~overlapped => ChangesKept

(* The row is blank or complete: no statement of any handler leaves a      *)
(* blank in a row that was filled once, or the language of a client that   *)
(* is not supported.  A timezone that cannot be found gets there in one    *)
(* way only, as the DEFAULT_TIMEZONE that config.go:110-113 does not try   *)
(* and ensurePrefs stores (handler.go:432-435); no update brings one in.   *)
BlankOrComplete ==
    row # BlankRow =>
        /\ row.locale \in Locales
        /\ row.timezone \in Zones \/ row.timezone = DefaultZone

(* An update that stores no language leaves a stored one alone: the        *)
(* client's language fills a blank and replaces nothing.  It holds for     *)
(* every ensurePrefs whose read no other update's write has followed.      *)
LocaleLeftAlone(h) ==
    stage[h] \in {"ensured", "started"} /\ stage'[h] # stage[h]
        /\ row.locale # Blank => row'.locale = row.locale

InitializedUnlessStale ==
    [][\A h \in Handlers : h \notin stale => LocaleLeftAlone(h)]_vars

(* handler_test.go:142, "TelegramLanguageInitializesPrefsOnce", and 157,   *)
(* "locale was overwritten": the same of every ensurePrefs.                *)
InitializedOnce == [][\A h \in Handlers : LocaleLeftAlone(h)]_vars
=============================================================================
