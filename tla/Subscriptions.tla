---------------------------- MODULE Subscriptions ----------------------------
(***************************************************************************)
(* One user's rows of the table subscriptions, the bot commands that       *)
(* change and list them (internal/bot/handler.go, by text or by button),   *)
(* and what the user is told.                                              *)
(*                                                                         *)
(* Every update runs in a goroutine of the Telegram library, so the        *)
(* commands of one user overlap when they follow each other quickly.       *)
(* Subscribe, Unsubscribe and UnsubscribeAll are one SQL statement each;   *)
(* SubscribeAll (internal/storage/postgres.go) is a loop of statements     *)
(* without a transaction.  The answer is sent after the statements.        *)
(*                                                                         *)
(* Users are independent here: no statement touches two of them.  The rows *)
(* of ensurePrefs, which runs before every command, are in Preferences.    *)
(***************************************************************************)
EXTENDS Integers, FiniteSets, Functions

CONSTANTS
    Handlers,  \* bound: the goroutines that may be at work at once
    Types,     \* events.SupportedTypes
    OtherType, \* an argument that is no supported type
    Faults     \* statements and Telegram calls may fail

ASSUME HandlersAssumption == IsFiniteSet(Handlers)
ASSUME TypesAssumption == IsFiniteSet(Types) /\ OtherType \notin Types
ASSUME FlagAssumption == Faults \in BOOLEAN

VARIABLES
    subs,     \* the user's rows
    stage,    \* where each handler is
    cmd,      \* the command it answers
    rest,     \* the types SubscribeAll has still to insert
    count,    \* the rows it has added so far; negative when it removed some
    answer,   \* what the answer says of each type it speaks of
    \* history
    crossed,  \* handlers whose command overlapped with a conflicting one
    belief,   \* what the answers entitle the user to believe of each type
    told,     \* the number of rows by the user's account
    silent    \* rows have changed without the user being told

vars == <<subs, stage, cmd, rest, count, answer, crossed, belief, told, silent>>

(* The commands: /subscribe and /unsubscribe with a type or "all", the     *)
(* buttons with a type, and those that only show the rows: /list, and      *)
(* /unsubscribe without argument, which offers them as a keyboard.         *)
Commands ==
    [name : {"subscribe", "unsubscribe"}, types : {{t} : t \in Types \cup {OtherType}}]
    \cup [name : {"subscribe_all", "unsubscribe_all", "list"}, types : {Types}]

NoCommand == [name |-> "none", types |-> {}]

Stages == {"idle", "begun", "adding", "reply"}
Verdicts == {"in", "out", "unknown"}
Unknown == [t \in Types |-> "unknown"]

TypeOK ==
    /\ subs \subseteq Types
    /\ stage \in [Handlers -> Stages]
    /\ cmd \in [Handlers -> Commands \cup {NoCommand}]
    /\ \A h \in Handlers : stage[h] # "idle" <=> cmd[h] \in Commands
    /\ rest \in [Handlers -> SUBSET Types]
    /\ count \in [Handlers -> Int]
    /\ answer \in [Handlers -> [Types -> Verdicts]]
    /\ crossed \subseteq Handlers
    /\ belief \in [Types -> Verdicts]
    /\ told \in Int
    /\ silent \in BOOLEAN

Init ==
    /\ subs \in SUBSET Types
    /\ stage = [h \in Handlers |-> "idle"]
    /\ cmd = [h \in Handlers |-> NoCommand]
    /\ rest = [h \in Handlers |-> {}]
    /\ count = [h \in Handlers |-> 0]
    /\ answer = [h \in Handlers |-> Unknown]
    /\ crossed = {}
    /\ belief = Unknown
    /\ told = Cardinality(subs)
    /\ silent = FALSE

Writes(c) == c.name \in {"subscribe", "unsubscribe", "subscribe_all", "unsubscribe_all"}

Conflict(c, d) == c.types \cap d.types # {} /\ (Writes(c) \/ Writes(d))

-----------------------------------------------------------------------------

(* HandleMessage or HandleCallback of an allowed user.  While a command    *)
(* that writes is not answered, the user knows nothing of its types.       *)
Begin(h) ==
    /\ stage[h] = "idle"
    /\ \E c \in Commands :
        LET others == {g \in Handlers : Conflict(c, cmd[g])} IN
        /\ cmd' = [cmd EXCEPT ![h] = c]
        /\ crossed' = crossed \cup others \cup (IF others = {} THEN {} ELSE {h})
        /\ belief' = [t \in Types |->
                        IF Writes(c) /\ t \in c.types THEN "unknown" ELSE belief[t]]
    /\ stage' = [stage EXCEPT ![h] = "begun"]
    /\ UNCHANGED <<subs, rest, count, answer, told, silent>>

(* The handler goes on to send its answer: the types in ins are said to be *)
(* subscribed, those in outs not, and n rows to have changed.              *)
Answer(h, ins, outs, n) ==
    /\ stage' = [stage EXCEPT ![h] = "reply"]
    /\ answer' = [answer EXCEPT ![h] =
                    [t \in Types |-> IF t \in ins THEN "in"
                                     ELSE IF t \in outs THEN "out" ELSE "unknown"]]
    /\ count' = [count EXCEPT ![h] = n]
    /\ UNCHANGED <<cmd, crossed, belief, told, silent>>

(* Mutant of IsSupportedType: a type is subscribed without being checked.  *)
AnyType(t) == TRUE

IsSupportedType(t) == t \in Types

(* Mutant of RowsAdded: a row that was there is counted as added.          *)
RowsTouched(t) == 1

(* INSERT ... ON CONFLICT DO NOTHING: RowsAffected is one for a new row.   *)
RowsAdded(t) == IF t \in subs THEN 0 ELSE 1

(* subscribeToEvent                                                        *)
SubscribeToEvent(h) ==
    \E t \in cmd[h].types :
        /\ stage[h] = "begun" /\ cmd[h].name = "subscribe"
        /\ IF IsSupportedType(t)
           THEN subs' = subs \cup {t} /\ Answer(h, {t}, {}, RowsAdded(t))
           ELSE UNCHANGED subs /\ Answer(h, {}, {}, 0)
        /\ UNCHANGED rest

(* Mutant of RowsWithout: the statement has lost its "AND event_type".     *)
RowsOfNobody(t) == {}

RowsWithout(t) == subs \ {t}

(* unsubscribeFromEvent: the type is not checked.                          *)
UnsubscribeFromEvent(h) ==
    \E t \in cmd[h].types :
        /\ stage[h] = "begun" /\ cmd[h].name = "unsubscribe"
        /\ subs' = RowsWithout(t)
        /\ Answer(h, {}, {t}, IF t \in subs THEN -1 ELSE 0)
        /\ UNCHANGED rest

UnsubscribeAll(h) ==
    /\ stage[h] = "begun" /\ cmd[h].name = "unsubscribe_all"
    /\ subs' = {}
    /\ Answer(h, {}, Types, -Cardinality(subs))
    /\ UNCHANGED rest

(* GetSubscriptions, for handleList and for the keyboard of /unsubscribe.  *)
GetSubscriptions(h) ==
    /\ stage[h] = "begun" /\ cmd[h].name = "list"
    /\ Answer(h, subs, Types \ subs, 0)
    /\ UNCHANGED <<subs, rest>>

SubscribeAll(h) ==
    /\ stage[h] = "begun" /\ cmd[h].name = "subscribe_all"
    /\ stage' = [stage EXCEPT ![h] = "adding"]
    /\ rest' = [rest EXCEPT ![h] = Types]
    /\ UNCHANGED <<subs, cmd, count, answer, crossed, belief, told, silent>>

(* Mutant of Left: the loop ends at the first type that was there.         *)
LeftIfNew(types, t) == IF t \in subs THEN {} ELSE types \ {t}

Left(types, t) == types \ {t}

(* One iteration of the loop.  Its order is abstracted: any type that is   *)
(* left may be the next.                                                   *)
AddNext(h) ==
    \E t \in rest[h] :
        /\ stage[h] = "adding"
        /\ subs' = subs \cup {t}
        /\ count' = [count EXCEPT ![h] = @ + RowsAdded(t)]
        /\ rest' = [rest EXCEPT ![h] = Left(@, t)]
        /\ UNCHANGED <<stage, cmd, answer, crossed, belief, told, silent>>

AllAdded(h) ==
    /\ stage[h] = "adding" /\ rest[h] = {}
    /\ Answer(h, Types, {}, count[h])
    /\ UNCHANGED <<subs, rest>>

(* The handler returns; its variables are gone.                            *)
Return(h) ==
    /\ stage' = [stage EXCEPT ![h] = "idle"]
    /\ cmd' = [cmd EXCEPT ![h] = NoCommand]
    /\ rest' = [rest EXCEPT ![h] = {}]
    /\ count' = [count EXCEPT ![h] = 0]
    /\ answer' = [answer EXCEPT ![h] = Unknown]
    /\ crossed' = crossed \ {h}
    /\ UNCHANGED subs

(* The answer reaches the user.  Two conflicting commands may be answered  *)
(* in another order than they were carried out in, so nothing follows from *)
(* the answers of crossed ones.  An answer that comes after its handler    *)
(* has given up on it is taken for none.  The user's account ends with the *)
(* first change that was not announced.                                    *)
Reply(h) ==
    /\ stage[h] = "reply"
    /\ belief' = [t \in Types |->
                    IF h \in crossed \/ answer[h][t] = "unknown"
                    THEN belief[t] ELSE answer[h][t]]
    /\ told' = IF silent THEN told ELSE told + count[h]
    /\ Return(h)
    /\ UNCHANGED silent

(* The handler returns an error without an answer, or the process ends:    *)
(* AnswerCallback, ensurePrefs, a statement or the send failed.  A failure *)
(* that took effect all the same is the action that has it, then this.     *)
Fail(h) ==
    /\ Faults /\ stage[h] # "idle"
    /\ silent' = (silent \/ count[h] # 0)
    /\ Return(h)
    /\ UNCHANGED <<belief, told>>

-----------------------------------------------------------------------------

Handle(h) ==
    \/ SubscribeToEvent(h) \/ UnsubscribeFromEvent(h) \/ UnsubscribeAll(h)
    \/ GetSubscriptions(h)
    \/ SubscribeAll(h) \/ AddNext(h) \/ AllAdded(h)
    \/ Reply(h)

Next == \E h \in Handlers : Begin(h) \/ Handle(h) \/ Fail(h)

Spec == Init /\ [][Next]_vars

-----------------------------------------------------------------------------
(* Properties.                                                             *)

(* What the bot has told the user is true until the user's next command:   *)
(* an answer to a command that no conflicting one overlapped agrees with   *)
(* the rows, and goes on agreeing with them whatever else is at work, with *)
(* a "subscribe all" half done or failed in its loop before or after       *)
(* (handler.go:123-200, postgres.go:81-93).                                *)
ToldIsTrue ==
    \A t \in Types : /\ belief[t] = "in" => t \in subs
                     /\ belief[t] = "out" => t \notin subs

(* "Added" and "Removed" in the answers add up to the rows, overlapping    *)
(* commands included, as long as no change has gone without an answer.     *)
RepliesAddUp ==
    ~silent => Cardinality(subs) = told + SumFunction(count)

(* The types a command at work may change.                                 *)
Asked == {t \in Types : \E h \in Handlers : Writes(cmd[h]) /\ t \in cmd[h].types}

Promise == INSTANCE SubscriptionPromise WITH rows <- subs, asked <- Asked

(* The commands together, however they overlap and wherever they fail, do  *)
(* what the bot promises a user: only rows he asked to change do change,   *)
(* and he is told of a type when nothing is changing it any more           *)
(* (handler.go:123-200, postgres.go:62-111).                               *)
ImplementsPromise == Promise!Spec
=============================================================================
