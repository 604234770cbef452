------------------------------ MODULE PrefsMenu ------------------------------
(***************************************************************************)
(* The preferences menu of one user's chat: a message whose inline buttons *)
(* open pages and choose values (internal/bot/menu.go), the updates that   *)
(* tapping them or typing a command sends (update_handler.go, handler.go), *)
(* and the calls to Telegram that show the result                          *)
(* (telegram_messenger.go).                                                *)
(*                                                                         *)
(* Every update is answered in a goroutine of its own, and between reading *)
(* the row of user_preferences and showing what it says other updates may  *)
(* be at work on the row and on the same message.  Preferences has the     *)
(* same row with its blanks; here it is complete, as it is once an update  *)
(* of the user has been answered.                                          *)
(***************************************************************************)
EXTENDS Naturals, Sequences

CONSTANTS
    Handlers,      \* bound: the goroutines that may be at work at once
    Messages,      \* bound: the menus sent to the chat
    None,          \* no update, no menu, no copy
    Locales,       \* supportedLocales, all of which the language page offers
    DefaultLocale, \* DEFAULT_LOCALE
    DefaultZone,   \* DEFAULT_TIMEZONE, which nothing checks
    OfferedZones,  \* commonTimezones, which the timezone page offers
    Zones          \* timezones that time.LoadLocation finds

ASSUME MenuAssumption == None \notin Messages /\ DefaultLocale \in Locales

VARIABLES
    row,         \* the row of user_preferences
    menu,        \* what each menu in the chat shows
    stage,       \* where each update's handler is
    update,      \* the update it answers
    copy,        \* the row it has read, to write back or to show
    \* history
    ignored,     \* handlers that ended with nothing to see for it
    stale,       \* handlers whose copy the row has never been, or is no more
    excused      \* menus that need not show what the row says

vars == <<row, menu, stage, update, copy, ignored, stale, excused>>

Rows == [locale : Locales, timezone : Zones \cup {DefaultZone}, short : BOOLEAN]

(* A button's data after "prefs:", split at the colon.                     *)
Openers == {<<"lang">>, <<"timezone">>, <<"short">>}
Choices == {<<"lang", l>> : l \in Locales} \cup {<<"tz", z>> : z \in OfferedZones}
             \cup {<<"short", b>> : b \in BOOLEAN}
Actions == Openers \cup Choices \cup {<<"back">>, <<"exit">>}

Pages == {"summary", "lang", "timezone", "short"}
Absent == [page |-> "absent"]
Deleted == [page |-> "deleted"]
Open == [page : Pages, shown : Rows]

(* Updates: a tap on a menu, or something typed: a choice (/short on), or  *)
(* what sends a menu (/prefs, which shows the summary as "back" does, and  *)
(* /lang, /timezone and /short without an argument).                       *)
Taps == [kind : {"tap"}, action : Actions, target : Messages]
Typed == [kind : {"typed"}, action : Choices, target : {None}]
Sends == [kind : {"send"}, action : Openers \cup {<<"back">>}, target : Messages]
Updates == Taps \cup Typed \cup Sends

Stages == {"idle", "answer", "ensure", "ensured", "read", "act", "saved",
           "summary", "reply"}

(* The stages at which a copy will be written or shown.                    *)
Holding == {"ensured", "act", "summary"}

TypeOK ==
    /\ row \in Rows
    /\ menu \in [Messages -> Open \cup {Absent, Deleted}]
    /\ stage \in [Handlers -> Stages]
    /\ update \in [Handlers -> Updates \cup {None}]
    /\ \A h \in Handlers : stage[h] # "idle" => update[h] \in Updates
    /\ copy \in [Handlers -> Rows \cup {None}]
    /\ \A h \in Handlers : stage[h] \in Holding => copy[h] \in Rows
    /\ ignored \subseteq Handlers
    /\ stale \subseteq {h \in Handlers : stage[h] \in Holding}
    /\ excused \subseteq Messages

Init ==
    /\ row \in Rows
    /\ menu = [m \in Messages |-> Absent]
    /\ stage = [h \in Handlers |-> "idle"]
    /\ update = [h \in Handlers |-> None]
    /\ copy = [h \in Handlers |-> None]
    /\ ignored = {} /\ stale = {} /\ excused = {}

-----------------------------------------------------------------------------

(* prefsInlineKeyboard, languageInlineKeyboard, timezoneInlineKeyboard and *)
(* shortInlineKeyboard.                                                    *)
Buttons(page) ==
    CASE page = "summary"  -> Openers \cup {<<"exit">>}
      [] page = "lang"     -> {c \in Choices : c[1] = "lang"} \cup {<<"back">>, <<"exit">>}
      [] page = "timezone" -> {c \in Choices : c[1] = "tz"} \cup {<<"back">>, <<"exit">>}
      [] page = "short"    -> {c \in Choices : c[1] = "short"} \cup {<<"back">>, <<"exit">>}

Own(h) == update[h].target
Asks(h) == update[h].action

At(h, s) == stage' = [stage EXCEPT ![h] = s]

Forget(h) == copy' = [copy EXCEPT ![h] = None] /\ stale' = stale \ {h}

(* The handler returns; an error is logged by main.go.                     *)
Return(h) ==
    /\ At(h, "idle")
    /\ update' = [update EXCEPT ![h] = None]
    /\ Forget(h)

(* A button of a menu as it is now in the chat is tapped, or something is  *)
(* typed; a menu to send takes the place of one that is not there yet.     *)
Begin(h) ==
    /\ stage[h] = "idle"
    /\ \E u \in Updates :
          /\ u.kind = "tap" =>
                menu[u.target] \in Open /\ u.action \in Buttons(menu[u.target].page)
          /\ u.kind = "send" =>
                /\ menu[u.target] = Absent
                /\ \A g \in Handlers : update[g] # None => Own(g) # u.target
          /\ update' = [update EXCEPT ![h] = u]
          /\ At(h, IF u.kind = "tap" THEN "answer" ELSE "ensure")
    /\ ignored' = ignored \ {h}
    /\ UNCHANGED <<row, menu, copy, stale, excused>>

AnswerCallback(h) ==
    /\ stage[h] = "answer"
    /\ At(h, "ensure")
    /\ UNCHANGED <<row, menu, update, copy, ignored, stale, excused>>

(* GetPrefs                                                                *)
Read(h, next) ==
    /\ copy' = [copy EXCEPT ![h] = row]
    /\ stale' = stale \ {h}
    /\ At(h, next)
    /\ UNCHANGED <<row, menu, update, ignored, excused>>

(* SetPrefs.  A change makes the copies of all others stale, and no menu   *)
(* has to show it but those of redrawn.                                    *)
Write(h, new, redrawn) ==
    /\ row' = new
    /\ IF new = row
       THEN stale' = stale \ {h} /\ UNCHANGED excused
       ELSE /\ stale' = {g \in Handlers \ {h} : stage[g] \in Holding}
            /\ excused' = excused \cup (Messages \ redrawn)

(* ensurePrefs reads the row and writes it back.                           *)
EnsureRead(h) == stage[h] = "ensure" /\ Read(h, "ensured")

EnsureWrite(h) ==
    /\ stage[h] = "ensured"
    /\ Write(h, copy[h], {})
    /\ At(h, IF update[h].kind = "send" /\ Asks(h) = <<"back">>
             THEN "saved" ELSE "read")
    /\ copy' = [copy EXCEPT ![h] = None]
    /\ UNCHANGED <<menu, update, ignored>>

(* prefs, which every tap, typed choice and page begins with.              *)
ReadPrefs(h) == stage[h] = "read" /\ Read(h, "act")

(* /lang reads no more than the locale, and takes the default for it when  *)
(* that fails (localeForUser).                                             *)
DefaultPrefs(h) ==
    /\ stage[h] = "read" /\ update[h].kind = "send" /\ Asks(h) = <<"lang">>
    /\ copy' = [copy EXCEPT ![h] = [row EXCEPT !.locale = DefaultLocale]]
    /\ stale' = stale \cup {h}
    /\ At(h, "act")
    /\ UNCHANGED <<row, menu, update, ignored, excused>>

(* Mutant of FieldOf: "short:off" has no case in the switch.               *)
FieldOfOn(c) ==
    CASE c[1] = "lang" -> "locale"
      [] c[1] = "tz" -> "timezone"
      [] c = <<"short", TRUE>> -> "short"
      [] OTHER -> "none"

(* The field that a choice is for; "none" is the switch's default case.    *)
FieldOf(c) ==
    CASE c[1] = "lang" -> "locale"
      [] c[1] = "tz" -> "timezone"
      [] c[1] = "short" -> "short"
      [] OTHER -> "none"

Valid(c) == c[1] = "tz" => c[2] \in Zones

(* Mutant of Saves: the timezone is not tried before it is stored.         *)
SavesUntried(h) ==
    stage[h] = "act" /\ Asks(h) \in Choices /\ FieldOf(Asks(h)) # "none"

(* The update stores a choice.                                             *)
Saves(h) ==
    stage[h] = "act" /\ Asks(h) \in Choices /\ FieldOf(Asks(h)) # "none"
      /\ Valid(Asks(h))

(* Then a tap shows the summary in the menu's place, and what was typed is *)
(* confirmed by a message.                                                 *)
Choose(h) ==
    /\ Saves(h)
    /\ Write(h, [copy[h] EXCEPT ![FieldOf(Asks(h))] = Asks(h)[2]], {Own(h)})
    /\ IF update[h].kind = "tap"
       THEN At(h, "saved") /\ UNCHANGED copy
       ELSE At(h, "reply") /\ copy' = [copy EXCEPT ![h] = None]
    /\ UNCHANGED <<menu, update, ignored>>

(* A value that is not valid is answered with a message, and what has no   *)
(* case in the switch with nothing.                                        *)
Refuse(h) ==
    /\ stage[h] = "act" /\ Asks(h) \in Choices /\ ~Saves(h)
    /\ IF FieldOf(Asks(h)) = "none"
       THEN Return(h) /\ ignored' = ignored \cup {h}
       ELSE At(h, "reply") /\ Forget(h) /\ UNCHANGED <<update, ignored>>
    /\ UNCHANGED <<row, menu, excused>>

(* Mutant of Summary: what was read before the choice is shown.            *)
OldSummary(h) == IF Asks(h) \in Choices THEN copy[h] ELSE row

(* The preferences that a summary shows.                                   *)
Summary(h) == row

(* prefsSummary, for "back", after a choice, and for /prefs.               *)
ReadSummary(h) ==
    /\ \/ stage[h] = "saved"
       \/ stage[h] = "act" /\ Asks(h) = <<"back">>
    /\ copy' = [copy EXCEPT ![h] = Summary(h)]
    /\ stale' = stale \ {h}
    /\ At(h, "summary")
    /\ UNCHANGED <<row, menu, update, ignored, excused>>

(* SendSilentMessage, or EditMessageText, which Telegram refuses for a     *)
(* message that is gone or that shows the same already.                    *)
Show(h, page) ==
    LET m == Own(h)
        new == [page |-> page, shown |-> copy[h]]
    IN  /\ IF menu[m] = Deleted
           THEN UNCHANGED <<menu, excused>>
           ELSE /\ menu' = [menu EXCEPT ![m] = new]
                /\ excused' = IF h \in stale THEN excused \cup {m} ELSE excused \ {m}
        /\ Return(h)
        /\ UNCHANGED <<row, ignored>>

ShowSummary(h) == stage[h] = "summary" /\ Show(h, "summary")

ShowPage(h) == stage[h] = "act" /\ Asks(h) \in Openers /\ Show(h, Asks(h)[1])

(* exitInlineMenu                                                          *)
DeleteMessage(h) ==
    /\ stage[h] = "act" /\ Asks(h) = <<"exit">>
    /\ menu[Own(h)] # Deleted
    /\ menu' = [menu EXCEPT ![Own(h)] = Deleted]
    /\ At(h, "reply")
    /\ Forget(h)
    /\ UNCHANGED <<row, update, ignored, excused>>

(* The message that confirms, refuses, or says how to open the menu again. *)
Reply(h) ==
    /\ stage[h] = "reply"
    /\ Return(h)
    /\ UNCHANGED <<row, menu, ignored, excused>>

(* A call fails and the handler returns the error.  After a choice has     *)
(* been stored its menu stays as it is.                                    *)
Fail(h) ==
    /\ stage[h] # "idle"
    /\ Return(h)
    /\ excused' = IF stage[h] \in {"saved", "summary"} /\ Asks(h) \in Choices
                  THEN excused \cup {Own(h)} ELSE excused
    /\ UNCHANGED <<row, menu, ignored>>

Step(h) ==
    \/ AnswerCallback(h) \/ EnsureRead(h) \/ EnsureWrite(h) \/ ReadPrefs(h)
    \/ DefaultPrefs(h) \/ Choose(h) \/ Refuse(h) \/ ReadSummary(h) \/ ShowSummary(h)
    \/ ShowPage(h) \/ DeleteMessage(h) \/ Reply(h) \/ Fail(h)

Next == \E h \in Handlers : Begin(h) \/ Step(h)

(* Every call of a handler returns.                                        *)
Spec == Init /\ [][Next]_vars /\ \A h \in Handlers : WF_vars(Step(h))

-----------------------------------------------------------------------------
(* Properties.                                                             *)

(* A menu shows what the row says, or its own handler has stored a choice  *)
(* and is about to show it.  The exceptions are menus that no code redraws *)
(* or that cannot be redrawn (handler.go:220-284, 482-516): the row was    *)
(* changed from elsewhere, by another menu, a typed choice or a copy read  *)
(* too early and written back; a call failed after the menu's choice was   *)
(* stored; or the preferences shown had changed before they arrived in the *)
(* chat, or could not be read for it.                                      *)
MenuIsCurrent ==
    \A m \in Messages \ excused :
        menu[m] \in Open =>
            \/ menu[m].shown = row
            \/ \E h \in Handlers :
                  /\ stage[h] \in {"saved", "summary"}
                  /\ Own(h) = m /\ Asks(h) \in Choices

(* Every update of the menu ends with something the user sees or with an   *)
(* error in the log: each button that menu.go puts on a page has a case in *)
(* handlePrefsCallback (handler.go:238-284), whatever other updates do to  *)
(* the row and to the message meanwhile.                                   *)
TapsAreAnswered ==
    \A h \in Handlers :
        stage[h] # "idle" ~> stage[h] = "idle" /\ h \notin ignored
=============================================================================
