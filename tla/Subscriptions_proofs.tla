------------------------ MODULE Subscriptions_proofs ------------------------
(***************************************************************************)
(* For any number of overlapping commands, of event types and of failures: *)
(* what the bot has told a user about his subscriptions is true, the       *)
(* figures of its answers add up to the rows, the commands keep            *)
(* SubscriptionPromise, and each step of one, taken or failed, brings it   *)
(* nearer its end, that of the loop of SubscribeAll included.              *)
(*                                                                         *)
(* ToldIsTrue says nothing of the answers that are still to be sent, so it *)
(* is strengthened to IInv: a command that no conflicting one overlapped   *)
(* holds an answer that agrees with the rows, or has inserted all the      *)
(* types it is past; and while a command that writes is at work, the user  *)
(* believes nothing about its types.                                       *)
(*                                                                         *)
(* The figures are a sum over the handlers.  What the proofs need of sums  *)
(* is shown by induction over the subsets of a finite set, through its     *)
(* least counterexample.                                                   *)
(***************************************************************************)
EXTENDS Subscriptions, FiniteSetTheorems, TLAPS

(* Each of two conflicting commands knows that it was overlapped.          *)
CrossedInv ==
    \A g, h \in Handlers :
        g # h /\ Conflict(cmd[g], cmd[h]) => g \in crossed

(* Handlers speak of the types of their command only, and at their end.    *)
AnswerScope ==
    \A h \in Handlers, t \in Types :
        answer[h][t] # "unknown" => stage[h] = "reply" /\ t \in cmd[h].types

LoopScope == \A h \in Handlers : stage[h] = "adding" => cmd[h].name = "subscribe_all"

(* The answer that is to be sent agrees with the rows.                     *)
AnswerTrue ==
    \A h \in Handlers \ crossed, t \in Types :
        /\ answer[h][t] = "in" => t \in subs
        /\ answer[h][t] = "out" => t \notin subs

LoopTrue ==
    \A h \in Handlers \ crossed :
        stage[h] = "adding" => Types \ rest[h] \subseteq subs

(* Nothing is believed about a type while its row may change.              *)
NotBelieved ==
    \A h \in Handlers, t \in Types :
        Writes(cmd[h]) /\ t \in cmd[h].types => belief[t] = "unknown"

IInv ==
    /\ TypeOK
    /\ CrossedInv
    /\ AnswerScope
    /\ LoopScope
    /\ AnswerTrue
    /\ LoopTrue
    /\ NotBelieved
    /\ ToldIsTrue

-----------------------------------------------------------------------------
(* Facts about the types of commands and the number of rows.               *)
LEMMA CommandFacts ==
    ASSUME NEW c \in Commands \cup {NoCommand}
    PROVE  /\ c.types \subseteq Types \cup {OtherType}
           /\ c.name \in {"subscribe_all", "unsubscribe_all", "list"} => c.types = Types
BY DEF Commands, NoCommand

LEMMA CountFacts ==
    ASSUME NEW S \in SUBSET Types
    PROVE  Cardinality(S) \in Nat
BY TypesAssumption, FS_Subset, FS_CardinalityType

(* An answer is well typed.                                                *)
LEMMA AnswerType ==
    ASSUME TypeOK, NEW h \in Handlers, NEW ins, NEW outs, NEW n \in Int,
           stage[h] # "idle", Answer(h, ins, outs, n), subs' \subseteq Types,
           rest' = rest
    PROVE  TypeOK'
<1>1. answer' \in [Handlers -> [Types -> Verdicts]]
    BY DEF TypeOK, Answer, Verdicts
<1>2. /\ stage' \in [Handlers -> Stages]
      /\ cmd' \in [Handlers -> Commands \cup {NoCommand}]
      /\ \A g \in Handlers : stage'[g] # "idle" <=> cmd'[g] \in Commands
    BY DEF TypeOK, Answer, Stages
<1>3. count' \in [Handlers -> Int] /\ rest' \in [Handlers -> SUBSET Types]
    BY DEF TypeOK, Answer
<1> QED
    BY <1>1, <1>2, <1>3 DEF TypeOK, Answer

LEMMA ReturnType ==
    ASSUME TypeOK, NEW h \in Handlers, Return(h),
           belief' \in [Types -> Verdicts], told' \in Int, silent' \in BOOLEAN
    PROVE  TypeOK'
<1>1. NoCommand \notin Commands
    BY DEF NoCommand, Commands
<1>2. /\ stage' \in [Handlers -> Stages]
      /\ cmd' \in [Handlers -> Commands \cup {NoCommand}]
      /\ \A g \in Handlers : stage'[g] # "idle" <=> cmd'[g] \in Commands
    BY <1>1 DEF TypeOK, Return, Stages
<1>3. answer' \in [Handlers -> [Types -> Verdicts]]
    BY DEF TypeOK, Return, Verdicts, Unknown
<1>4. count' \in [Handlers -> Int] /\ rest' \in [Handlers -> SUBSET Types]
    BY DEF TypeOK, Return
<1> QED
    BY <1>2, <1>3, <1>4 DEF TypeOK, Return

LEMMA TypeInit == Init => TypeOK
<1>1. NoCommand \notin Commands
    BY DEF NoCommand, Commands
<1> SUFFICES ASSUME Init PROVE TypeOK
    OBVIOUS
<1>2. told \in Int
    BY CountFacts DEF Init
<1>3. /\ stage \in [Handlers -> Stages]
      /\ cmd \in [Handlers -> Commands \cup {NoCommand}]
      /\ \A h \in Handlers : stage[h] # "idle" <=> cmd[h] \in Commands
    BY <1>1 DEF Init, Stages
<1>4. belief \in [Types -> Verdicts] /\ answer \in [Handlers -> [Types -> Verdicts]]
    BY DEF Init, Verdicts, Unknown
<1>5. rest \in [Handlers -> SUBSET Types] /\ count \in [Handlers -> Int]
    BY DEF Init
<1>6. subs \subseteq Types /\ crossed \subseteq Handlers /\ silent \in BOOLEAN
    BY DEF Init
<1> QED
    BY <1>2, <1>3, <1>4, <1>5, <1>6 DEF TypeOK

LEMMA TypeStep == TypeOK /\ [Next]_vars => TypeOK'
<1> SUFFICES ASSUME TypeOK, [Next]_vars PROVE TypeOK'
    OBVIOUS
<1>1. ASSUME NEW h \in Handlers, Begin(h) PROVE TypeOK'
    <2>1. PICK c \in Commands :
            LET others == {g \in Handlers : Conflict(c, cmd[g])} IN
            /\ cmd' = [cmd EXCEPT ![h] = c]
            /\ crossed' = crossed \cup others \cup (IF others = {} THEN {} ELSE {h})
            /\ belief' = [t \in Types |->
                            IF Writes(c) /\ t \in c.types THEN "unknown" ELSE belief[t]]
        BY <1>1 DEF Begin
    <2>2. belief' \in [Types -> Verdicts] /\ crossed' \subseteq Handlers
        BY <2>1 DEF TypeOK, Verdicts
    <2>3. /\ stage' \in [Handlers -> Stages]
          /\ cmd' \in [Handlers -> Commands \cup {NoCommand}]
          /\ \A g \in Handlers : stage'[g] # "idle" <=> cmd'[g] \in Commands
        BY <1>1, <2>1 DEF Begin, TypeOK, Stages
    <2> QED
        BY <1>1, <2>2, <2>3 DEF Begin, TypeOK
<1>2. ASSUME NEW h \in Handlers, SubscribeToEvent(h) PROVE TypeOK'
    <2>1. \A t : RowsAdded(t) \in Int
        BY DEF RowsAdded
    <2> QED
        BY <1>2, <2>1, AnswerType DEF SubscribeToEvent, IsSupportedType, TypeOK
<1>3. ASSUME NEW h \in Handlers, UnsubscribeFromEvent(h) PROVE TypeOK'
    BY <1>3, AnswerType DEF UnsubscribeFromEvent, RowsWithout, TypeOK
<1>4. ASSUME NEW h \in Handlers, UnsubscribeAll(h) PROVE TypeOK'
    <2>1. -Cardinality(subs) \in Int
        BY CountFacts DEF TypeOK
    <2> QED
        BY <1>4, <2>1, AnswerType DEF UnsubscribeAll
<1>5. ASSUME NEW h \in Handlers, GetSubscriptions(h) PROVE TypeOK'
    BY <1>5, AnswerType DEF GetSubscriptions, TypeOK
<1>6. ASSUME NEW h \in Handlers, SubscribeAll(h) PROVE TypeOK'
    BY <1>6 DEF SubscribeAll, TypeOK, Stages
<1>7. ASSUME NEW h \in Handlers, AddNext(h) PROVE TypeOK'
    <2>1. PICK t \in rest[h] :
            /\ subs' = subs \cup {t}
            /\ count' = [count EXCEPT ![h] = count[h] + RowsAdded(t)]
            /\ rest' = [rest EXCEPT ![h] = Left(rest[h], t)]
        BY <1>7 DEF AddNext
    <2>2. RowsAdded(t) \in Int /\ Left(rest[h], t) \subseteq Types /\ t \in Types
        BY DEF RowsAdded, Left, TypeOK
    <2>3. count' \in [Handlers -> Int] /\ rest' \in [Handlers -> SUBSET Types]
        BY <2>1, <2>2 DEF TypeOK
    <2> QED
        BY <1>7, <2>1, <2>2, <2>3 DEF AddNext, TypeOK
<1>8. ASSUME NEW h \in Handlers, AllAdded(h) PROVE TypeOK'
    BY <1>8, AnswerType DEF AllAdded, TypeOK
<1>9. ASSUME NEW h \in Handlers, Reply(h) PROVE TypeOK'
    <2>1. belief' \in [Types -> Verdicts] /\ told' \in Int /\ silent' \in BOOLEAN
        BY <1>9 DEF Reply, TypeOK
    <2> QED
        BY <1>9, <2>1, ReturnType DEF Reply
<1>10. ASSUME NEW h \in Handlers, Fail(h) PROVE TypeOK'
    <2>1. belief' \in [Types -> Verdicts] /\ told' \in Int /\ silent' \in BOOLEAN
        BY <1>10 DEF Fail, TypeOK
    <2> QED
        BY <1>10, <2>1, ReturnType DEF Fail
<1>11. ASSUME UNCHANGED vars PROVE TypeOK'
    BY <1>11 DEF vars, TypeOK
<1> QED
    BY <1>1, <1>2, <1>3, <1>4, <1>5, <1>6, <1>7, <1>8, <1>9, <1>10, <1>11
    DEF Next, Handle

(* The bot's bookkeeping is well typed for any number of handlers and      *)
(* types.                                                                  *)
THEOREM TypeCorrect == Spec => []TypeOK
BY TypeInit, TypeStep, PTL DEF Spec

-----------------------------------------------------------------------------
(* A handler's step between its begin and its end.                         *)

(* Only the rows of the types of its command may change, and its own       *)
(* answer has to agree with the new rows.  Then the answers of the others  *)
(* agree with them too, because a command on the same types would have     *)
(* crossed this one, and of these types nothing is believed.               *)
LEMMA StepKeeps ==
    ASSUME IInv, TypeOK', NEW h \in Handlers,
           UNCHANGED <<cmd, crossed, belief>>,
           subs' = subs \/ Writes(cmd[h]),
           \A t \in Types \ cmd[h].types : t \in subs' <=> t \in subs,
           \A g \in Handlers \ {h} :
               stage'[g] = stage[g] /\ rest'[g] = rest[g] /\ answer'[g] = answer[g],
           \A t \in Types :
               answer'[h][t] # "unknown" => stage'[h] = "reply" /\ t \in cmd[h].types,
           stage'[h] = "adding" => cmd[h].name = "subscribe_all",
           h \notin crossed =>
               /\ \A t \in Types : /\ answer'[h][t] = "in" => t \in subs'
                                   /\ answer'[h][t] = "out" => t \notin subs'
               /\ stage'[h] = "adding" => Types \ rest'[h] \subseteq subs'
    PROVE  IInv'
<1>1. CrossedInv' /\ AnswerScope' /\ LoopScope' /\ NotBelieved'
    <2>1. CrossedInv'
        BY DEF IInv, CrossedInv
    <2>2. AnswerScope'
        BY DEF IInv, AnswerScope
    <2>3. LoopScope'
        BY DEF IInv, LoopScope
    <2>4. NotBelieved'
        BY DEF IInv, NotBelieved
    <2> QED
        BY <2>1, <2>2, <2>3, <2>4
<1>2. ASSUME NEW g \in Handlers \ crossed, g # h, NEW t \in cmd[g].types \cap Types
      PROVE  t \in subs' <=> t \in subs
    <2>1. CASE subs' = subs
        BY <2>1
    <2>2. CASE Writes(cmd[h])
        <3>1. ~Conflict(cmd[g], cmd[h])
            BY <1>2 DEF IInv, CrossedInv
        <3>2. t \notin cmd[h].types
            BY <2>2, <3>1, <1>2 DEF Conflict
        <3> QED
            BY <3>2
    <2> QED
        BY <2>1, <2>2
<1>3. AnswerTrue'
    <2> SUFFICES ASSUME NEW g \in Handlers \ crossed', NEW t \in Types
                 PROVE  /\ answer'[g][t] = "in" => t \in subs'
                        /\ answer'[g][t] = "out" => t \notin subs'
        BY DEF AnswerTrue
    <2>1. CASE g = h
        BY <2>1
    <2>2. CASE g # h
        <3>1. answer'[g] = answer[g]
            BY <2>2
        <3>2. CASE answer[g][t] = "unknown"
            BY <3>1, <3>2
        <3>3. CASE answer[g][t] # "unknown"
            <4>1. t \in subs' <=> t \in subs
                BY <2>2, <3>3, <1>2 DEF IInv, AnswerScope
            <4> QED
                BY <3>1, <4>1 DEF IInv, AnswerTrue
        <3> QED
            BY <3>2, <3>3
    <2> QED
        BY <2>1, <2>2
<1>4. LoopTrue'
    <2> SUFFICES ASSUME NEW g \in Handlers \ crossed', stage'[g] = "adding",
                        NEW t \in Types, t \notin rest'[g]
                 PROVE  t \in subs'
        BY DEF LoopTrue
    <2>1. CASE g = h
        BY <2>1
    <2>2. CASE g # h
        <3>1. cmd[g].types = Types
            BY <2>2, CommandFacts DEF IInv, LoopScope, TypeOK
        <3>2. t \in subs
            BY <2>2 DEF IInv, LoopTrue
        <3> QED
            BY <2>2, <3>1, <3>2, <1>2
    <2> QED
        BY <2>1, <2>2
<1>5. ToldIsTrue'
    <2> SUFFICES ASSUME NEW t \in Types, belief[t] # "unknown"
                 PROVE  t \in subs' <=> t \in subs
        BY DEF IInv, ToldIsTrue
    <2> QED
        BY DEF IInv, NotBelieved
<1> QED
    BY <1>1, <1>3, <1>4, <1>5 DEF IInv

(* The statements after which the handler answers.                         *)
LEMMA AnswerKeeps ==
    ASSUME IInv, TypeOK', NEW h \in Handlers, NEW ins, NEW outs, NEW n,
           Answer(h, ins, outs, n), rest' = rest,
           subs' = subs \/ Writes(cmd[h]),
           \A t \in Types \ cmd[h].types : t \in subs' <=> t \in subs,
           (ins \cup outs) \cap Types \subseteq cmd[h].types,
           h \notin crossed => ins \subseteq subs' /\ outs \cap subs' = {}
    PROVE  IInv'
<1>1. stage' = [stage EXCEPT ![h] = "reply"]
    BY DEF Answer
<1>2. /\ answer'[h] = [t \in Types |-> IF t \in ins THEN "in"
                                     ELSE IF t \in outs THEN "out" ELSE "unknown"]
      /\ \A g \in Handlers \ {h} : answer'[g] = answer[g]
    BY DEF Answer, IInv, TypeOK
<1>3. stage'[h] = "reply" /\ \A g \in Handlers \ {h} : stage'[g] = stage[g]
    BY <1>1 DEF IInv, TypeOK
<1>4. UNCHANGED <<cmd, crossed, belief>>
    BY DEF Answer
<1>5. \A t \in Types : answer'[h][t] # "unknown" => t \in cmd[h].types
    BY <1>2
<1>6. h \notin crossed =>
        \A t \in Types : /\ answer'[h][t] = "in" => t \in subs'
                         /\ answer'[h][t] = "out" => t \notin subs'
    BY <1>2
<1> QED
    BY <1>2, <1>3, <1>4, <1>5, <1>6, StepKeeps

(* A handler returns: what it knew is gone, and so is the reason for not   *)
(* believing anything about its types.                                     *)
LEMMA ReturnKeeps ==
    ASSUME IInv, TypeOK', NEW h \in Handlers, Return(h), ToldIsTrue',
           \A g \in Handlers \ {h}, t \in Types :
               Writes(cmd[g]) /\ t \in cmd[g].types => belief'[t] = "unknown"
    PROVE  IInv'
<1>1. /\ cmd'[h] = NoCommand /\ stage'[h] = "idle" /\ answer'[h] = Unknown
      /\ \A g \in Handlers \ {h} : /\ cmd'[g] = cmd[g] /\ stage'[g] = stage[g]
                                   /\ answer'[g] = answer[g] /\ rest'[g] = rest[g]
      /\ crossed' = crossed \ {h} /\ subs' = subs
    BY DEF Return, IInv, TypeOK
<1>2. /\ ~Writes(NoCommand)
      /\ \A c : ~Conflict(NoCommand, c) /\ ~Conflict(c, NoCommand)
    BY DEF Writes, Conflict, NoCommand
<1>3. CrossedInv'
    BY <1>1, <1>2 DEF IInv, CrossedInv
<1>4. AnswerScope' /\ LoopScope'
    BY <1>1 DEF IInv, AnswerScope, LoopScope, Unknown
<1>5. AnswerTrue'
    BY <1>1 DEF IInv, AnswerTrue, Unknown
<1>6. LoopTrue'
    BY <1>1 DEF IInv, LoopTrue
<1>7. NotBelieved'
    BY <1>1, <1>2 DEF NotBelieved
<1> QED
    BY <1>3, <1>4, <1>5, <1>6, <1>7 DEF IInv

-----------------------------------------------------------------------------
(* One lemma per kind of action.                                           *)

LEMMA BeginInv ==
    ASSUME IInv, TypeOK', NEW h \in Handlers, Begin(h)
    PROVE  IInv'
<1>1. PICK c \in Commands :
        LET others == {g \in Handlers : Conflict(c, cmd[g])} IN
        /\ cmd' = [cmd EXCEPT ![h] = c]
        /\ crossed' = crossed \cup others \cup (IF others = {} THEN {} ELSE {h})
        /\ belief' = [t \in Types |->
                        IF Writes(c) /\ t \in c.types THEN "unknown" ELSE belief[t]]
    BY DEF Begin
<1>2. /\ stage[h] = "idle" /\ stage'[h] = "begun"
      /\ \A g \in Handlers \ {h} : stage'[g] = stage[g]
      /\ UNCHANGED <<subs, rest, answer>>
    BY DEF Begin, IInv, TypeOK
<1>3. cmd'[h] = c /\ \A g \in Handlers \ {h} : cmd'[g] = cmd[g]
    BY <1>1 DEF IInv, TypeOK
<1>4. crossed \subseteq crossed'
    BY <1>1
<1>5. cmd[h] = NoCommand
    BY <1>2 DEF IInv, TypeOK
<1>6. \A t \in Types : answer[h][t] = "unknown"
    BY <1>5 DEF IInv, AnswerScope, NoCommand
<1>7. CrossedInv'
    <2> SUFFICES ASSUME NEW f \in Handlers, NEW g \in Handlers, f # g,
                        Conflict(cmd'[f], cmd'[g])
                 PROVE  f \in crossed'
        BY DEF CrossedInv
    <2>1. CASE f = h
        <3>1. Conflict(c, cmd[g])
            BY <1>3, <2>1
        <3> QED
            BY <1>1, <2>1, <3>1
    <2>2. CASE g = h
        <3>1. Conflict(cmd[f], c)
            BY <1>3, <2>2
        <3>2. Conflict(c, cmd[f])
            BY <3>1 DEF Conflict
        <3> QED
            BY <1>1, <3>2
    <2>3. CASE f # h /\ g # h
        BY <1>3, <1>4, <2>3 DEF IInv, CrossedInv
    <2> QED
        BY <2>1, <2>2, <2>3
<1>8. AnswerScope' /\ LoopScope'
    BY <1>2, <1>3, <1>6 DEF IInv, AnswerScope, LoopScope
<1>9. AnswerTrue' /\ LoopTrue'
    BY <1>2, <1>4 DEF IInv, AnswerTrue, LoopTrue
<1>10. NotBelieved'
    BY <1>1, <1>3 DEF IInv, NotBelieved
<1>11. ToldIsTrue'
    BY <1>1, <1>2 DEF IInv, ToldIsTrue
<1> QED
    BY <1>7, <1>8, <1>9, <1>10, <1>11 DEF IInv

LEMMA SubscribeToEventInv ==
    ASSUME IInv, TypeOK', NEW h \in Handlers, SubscribeToEvent(h)
    PROVE  IInv'
<1>1. PICK t \in cmd[h].types :
        /\ stage[h] = "begun" /\ cmd[h].name = "subscribe"
        /\ IF IsSupportedType(t)
           THEN subs' = subs \cup {t} /\ Answer(h, {t}, {}, RowsAdded(t))
           ELSE UNCHANGED subs /\ Answer(h, {}, {}, 0)
        /\ UNCHANGED rest
    BY DEF SubscribeToEvent
<1>2. Writes(cmd[h])
    BY <1>1 DEF Writes
<1>3. CASE IsSupportedType(t)
    BY <1>1, <1>2, <1>3, AnswerKeeps
<1>4. CASE ~IsSupportedType(t)
    BY <1>1, <1>2, <1>4, AnswerKeeps
<1> QED
    BY <1>3, <1>4

LEMMA UnsubscribeFromEventInv ==
    ASSUME IInv, TypeOK', NEW h \in Handlers, UnsubscribeFromEvent(h)
    PROVE  IInv'
<1>1. PICK t \in cmd[h].types :
        /\ stage[h] = "begun" /\ cmd[h].name = "unsubscribe"
        /\ subs' = subs \ {t}
        /\ Answer(h, {}, {t}, IF t \in subs THEN -1 ELSE 0)
        /\ UNCHANGED rest
    BY DEF UnsubscribeFromEvent, RowsWithout
<1>2. Writes(cmd[h])
    BY <1>1 DEF Writes
<1> QED
    BY <1>1, <1>2, AnswerKeeps DEF RowsWithout

LEMMA UnsubscribeAllInv ==
    ASSUME IInv, TypeOK', NEW h \in Handlers, UnsubscribeAll(h)
    PROVE  IInv'
<1>1. Writes(cmd[h]) /\ cmd[h].types = Types
    BY CommandFacts DEF UnsubscribeAll, Writes, IInv, TypeOK
<1> QED
    BY <1>1, AnswerKeeps DEF UnsubscribeAll

LEMMA GetSubscriptionsInv ==
    ASSUME IInv, TypeOK', NEW h \in Handlers, GetSubscriptions(h)
    PROVE  IInv'
<1>1. cmd[h].types = Types /\ subs \subseteq Types
    BY CommandFacts DEF GetSubscriptions, IInv, TypeOK
<1> QED
    BY <1>1, AnswerKeeps DEF GetSubscriptions

LEMMA SubscribeAllInv ==
    ASSUME IInv, TypeOK', NEW h \in Handlers, SubscribeAll(h)
    PROVE  IInv'
<1>1. /\ \A g \in Handlers \ {h} : stage'[g] = stage[g] /\ rest'[g] = rest[g]
      /\ rest'[h] = Types /\ cmd[h].name = "subscribe_all"
      /\ UNCHANGED <<subs, cmd, answer, crossed, belief>>
    BY DEF SubscribeAll, IInv, TypeOK
<1>2. \A t \in Types : answer'[h][t] = "unknown"
    BY <1>1 DEF SubscribeAll, IInv, AnswerScope
<1> QED
    BY <1>1, <1>2, StepKeeps

LEMMA AddNextInv ==
    ASSUME IInv, TypeOK', NEW h \in Handlers, AddNext(h)
    PROVE  IInv'
<1>1. PICK t \in rest[h] :
        /\ stage[h] = "adding" /\ subs' = subs \cup {t}
        /\ rest' = [rest EXCEPT ![h] = Left(rest[h], t)]
        /\ UNCHANGED <<stage, cmd, answer, crossed, belief>>
    BY DEF AddNext
<1>2. rest'[h] = rest[h] \ {t} /\ \A g \in Handlers \ {h} : rest'[g] = rest[g]
    BY <1>1 DEF Left, IInv, TypeOK
<1>3. Writes(cmd[h]) /\ cmd[h].types = Types /\ cmd[h].name = "subscribe_all"
    BY <1>1, CommandFacts DEF IInv, TypeOK, LoopScope, Writes
<1>4. \A u \in Types : answer'[h][u] = "unknown"
    BY <1>1 DEF IInv, AnswerScope
<1>5. h \notin crossed => Types \ rest'[h] \subseteq subs'
    BY <1>1, <1>2 DEF IInv, LoopTrue
<1> QED
    BY <1>1, <1>2, <1>3, <1>4, <1>5, StepKeeps

LEMMA AllAddedInv ==
    ASSUME IInv, TypeOK', NEW h \in Handlers, AllAdded(h)
    PROVE  IInv'
<1>1. cmd[h].types = Types
    BY CommandFacts DEF AllAdded, IInv, TypeOK, LoopScope
<1>2. h \notin crossed => Types \subseteq subs
    BY DEF AllAdded, IInv, LoopTrue
<1> QED
    BY <1>1, <1>2, AnswerKeeps DEF AllAdded

LEMMA ReplyInv ==
    ASSUME IInv, TypeOK', NEW h \in Handlers, Reply(h)
    PROVE  IInv'
<1>1. /\ Return(h) /\ subs' = subs
      /\ belief' = [t \in Types |->
                      IF h \in crossed \/ answer[h][t] = "unknown"
                      THEN belief[t] ELSE answer[h][t]]
    BY DEF Reply, Return
<1>2. ToldIsTrue'
    BY <1>1 DEF IInv, ToldIsTrue, AnswerTrue
<1>3. ASSUME NEW g \in Handlers \ {h}, NEW t \in Types,
             Writes(cmd[g]), t \in cmd[g].types
      PROVE  belief'[t] = "unknown"
    <2>1. belief[t] = "unknown"
        BY <1>3 DEF IInv, NotBelieved
    <2>2. h \in crossed \/ answer[h][t] = "unknown"
        BY <1>3 DEF IInv, CrossedInv, AnswerScope, Conflict
    <2> QED
        BY <1>1, <2>1, <2>2
<1> QED
    BY <1>1, <1>2, <1>3, ReturnKeeps

LEMMA FailInv ==
    ASSUME IInv, TypeOK', NEW h \in Handlers, Fail(h)
    PROVE  IInv'
<1>1. Return(h) /\ subs' = subs /\ belief' = belief
    BY DEF Fail, Return
<1>2. ToldIsTrue'
    BY <1>1 DEF IInv, ToldIsTrue
<1>3. \A g \in Handlers \ {h}, t \in Types :
        Writes(cmd[g]) /\ t \in cmd[g].types => belief'[t] = "unknown"
    BY <1>1 DEF IInv, NotBelieved
<1> QED
    BY <1>1, <1>2, <1>3, ReturnKeeps

LEMMA InvInit == Init => IInv
<1> SUFFICES ASSUME Init PROVE IInv
    OBVIOUS
<1>1. CrossedInv /\ NotBelieved
    BY DEF Init, CrossedInv, Conflict, NotBelieved, Writes, NoCommand
<1>2. AnswerScope /\ LoopScope /\ AnswerTrue /\ LoopTrue /\ ToldIsTrue
    BY DEF Init, AnswerScope, LoopScope, AnswerTrue, LoopTrue, ToldIsTrue, Unknown
<1> QED
    BY <1>1, <1>2, TypeInit DEF IInv

LEMMA InvStep == IInv /\ [Next]_vars => IInv'
<1> SUFFICES ASSUME IInv, [Next]_vars PROVE IInv'
    OBVIOUS
<1>1. TypeOK'
    BY TypeStep DEF IInv
<1>2. ASSUME NEW h \in Handlers, Begin(h) \/ Fail(h) PROVE IInv'
    BY <1>1, <1>2, BeginInv, FailInv
<1>3. ASSUME NEW h \in Handlers, Handle(h) PROVE IInv'
    BY <1>1, <1>3, SubscribeToEventInv, UnsubscribeFromEventInv, UnsubscribeAllInv,
       GetSubscriptionsInv, SubscribeAllInv, AddNextInv, AllAddedInv, ReplyInv
    DEF Handle
<1>4. ASSUME UNCHANGED vars PROVE IInv'
    BY <1>4 DEF vars, IInv, TypeOK, CrossedInv, AnswerScope, LoopScope, AnswerTrue,
       LoopTrue, NotBelieved, ToldIsTrue
<1> QED
    BY <1>2, <1>3, <1>4 DEF Next

(* The bot does not mislead a user about his subscriptions: what the       *)
(* answer to a command that no conflicting one overlapped says is true of  *)
(* the rows until the user's next command on the same types, for any       *)
(* number of goroutines, types and failures (handler.go:123-200,           *)
(* postgres.go:81-93).                                                     *)
THEOREM AnswersAreTrue == Spec => []ToldIsTrue
<1>1. IInv => ToldIsTrue
    BY DEF IInv
<1> QED
    BY InvInit, InvStep, <1>1, PTL DEF Spec

-----------------------------------------------------------------------------
(* The commands implement the promise.  What a handler does between its    *)
(* begin and its end is a Change: Asked stays, and so does every row that  *)
(* its command is not about.                                               *)
LEMMA StatementChanges ==
    ASSUME IInv, NEW h \in Handlers, Handle(h), ~Reply(h)
    PROVE  /\ UNCHANGED <<cmd, belief>>
           /\ \A t \in Types : (t \in subs' <=> t \in subs) \/ t \in Asked
<1>1. CASE SubscribeToEvent(h)
    <2>1. Writes(cmd[h]) /\ UNCHANGED <<cmd, belief>>
        BY <1>1 DEF SubscribeToEvent, Writes, Answer
    <2>2. PICK u \in cmd[h].types : subs' = subs \cup {u} \/ subs' = subs
        BY <1>1 DEF SubscribeToEvent
    <2> QED
        BY <2>1, <2>2 DEF Asked
<1>2. CASE UnsubscribeFromEvent(h)
    <2>1. Writes(cmd[h]) /\ UNCHANGED <<cmd, belief>>
        BY <1>2 DEF UnsubscribeFromEvent, Writes, Answer
    <2>2. PICK u \in cmd[h].types : subs' = subs \ {u}
        BY <1>2 DEF UnsubscribeFromEvent, RowsWithout
    <2> QED
        BY <2>1, <2>2 DEF Asked
<1>3. CASE UnsubscribeAll(h)
    <2>1. Writes(cmd[h]) /\ cmd[h].types = Types /\ UNCHANGED <<cmd, belief>>
        BY <1>3, CommandFacts DEF UnsubscribeAll, Writes, Answer, IInv, TypeOK
    <2> QED
        BY <2>1 DEF Asked
<1>4. CASE GetSubscriptions(h) \/ SubscribeAll(h) \/ AllAdded(h)
    BY <1>4 DEF GetSubscriptions, SubscribeAll, AllAdded, Answer
<1>5. CASE AddNext(h)
    <2>1. stage[h] = "adding" /\ UNCHANGED <<cmd, belief>>
        BY <1>5 DEF AddNext
    <2>2. Writes(cmd[h]) /\ cmd[h].types = Types
        BY <2>1, CommandFacts DEF IInv, TypeOK, LoopScope, Writes
    <2> QED
        BY <2>1, <2>2 DEF Asked
<1> QED
    BY <1>1, <1>2, <1>3, <1>4, <1>5 DEF Handle

(* A handler that returns leaves Asked to the others, and what it tells of *)
(* a type that was not crossed none of them is changing.                   *)
LEMMA ReturnConcludes ==
    ASSUME IInv, NEW h \in Handlers, Return(h)
    PROVE  /\ Asked' \subseteq Asked /\ subs' = subs
           /\ \A t \in Types :
                h \notin crossed /\ answer[h][t] # "unknown" => t \notin Asked'
<1>1. /\ cmd'[h] = NoCommand /\ ~Writes(NoCommand) /\ subs' = subs
      /\ \A g \in Handlers \ {h} : cmd'[g] = cmd[g]
    BY DEF Return, IInv, TypeOK, Writes, NoCommand
<1>2. \A t \in Types : t \in Asked' =>
        \E g \in Handlers \ {h} : Writes(cmd[g]) /\ t \in cmd[g].types
    BY <1>1 DEF Asked
<1>3. ASSUME NEW t \in Types, h \notin crossed, answer[h][t] # "unknown"
      PROVE  t \notin Asked'
    <2>1. t \in cmd[h].types
        BY <1>3 DEF IInv, AnswerScope
    <2>2. \A g \in Handlers \ {h} : ~Conflict(cmd[h], cmd[g])
        BY <1>3 DEF IInv, CrossedInv
    <2> QED
        BY <1>2, <2>1, <2>2 DEF Conflict
<1>4. Asked' \subseteq Asked
    BY <1>2 DEF Asked
<1> QED
    BY <1>1, <1>3, <1>4

LEMMA BeginAsks ==
    ASSUME IInv, NEW h \in Handlers, Begin(h)
    PROVE  Promise!Ask
<1>1. PICK c \in Commands :
        /\ cmd' = [cmd EXCEPT ![h] = c]
        /\ belief' = [t \in Types |->
                        IF Writes(c) /\ t \in c.types THEN "unknown" ELSE belief[t]]
    BY DEF Begin
<1>2. cmd'[h] = c /\ \A g \in Handlers \ {h} : cmd'[g] = cmd[g]
    BY <1>1 DEF IInv, TypeOK
<1>3. ~Writes(cmd[h])
    BY DEF Begin, IInv, TypeOK, NoCommand, Writes
<1> DEFINE T == {t \in Types : Writes(c) /\ t \in c.types}
<1>4. Asked' = Asked \cup T
    BY <1>2, <1>3 DEF Asked
<1>5. belief' = [t \in Types |-> IF t \in T THEN "unknown" ELSE belief[t]]
    BY <1>1
<1>6. subs' = subs
    BY DEF Begin
<1> HIDE DEF T
<1>7. T \in SUBSET Types
    BY DEF T
<1> QED
    BY <1>4, <1>5, <1>6, <1>7 DEF Promise!Ask

LEMMA ReplyConcludes ==
    ASSUME IInv, NEW h \in Handlers, Reply(h)
    PROVE  Promise!Conclude
<1> DEFINE T == {t \in Types : h \notin crossed /\ answer[h][t] # "unknown"}
<1>1. Asked' \subseteq Asked /\ subs' = subs /\ T \in SUBSET (Types \ Asked')
    BY ReturnConcludes DEF Reply
<1>2. ASSUME NEW t \in T
      PROVE  answer[h][t] = IF t \in subs THEN "in" ELSE "out"
    BY <1>2 DEF IInv, AnswerTrue, TypeOK, Verdicts
<1>3. belief' = [t \in Types |-> IF t \notin T THEN belief[t]
                                 ELSE IF t \in subs THEN "in" ELSE "out"]
    BY <1>2 DEF Reply
<1> HIDE DEF T
<1> QED
    BY <1>1, <1>3 DEF Promise!Conclude

LEMMA FailConcludes ==
    ASSUME IInv, NEW h \in Handlers, Fail(h)
    PROVE  Promise!Conclude
<1>1. Asked' \subseteq Asked /\ subs' = subs /\ belief' = belief
    BY ReturnConcludes DEF Fail
<1> DEFINE T == {t \in Types : FALSE}
<1>2. T \in SUBSET (Types \ Asked')
    OBVIOUS
<1>3. belief' = [t \in Types |-> IF t \notin T THEN belief[t]
                                 ELSE IF t \in subs THEN "in" ELSE "out"]
    BY <1>1 DEF IInv, TypeOK
<1> HIDE DEF T
<1> QED
    BY <1>1, <1>2, <1>3 DEF Promise!Conclude

(* Whatever commands a user sends, however they overlap and wherever they  *)
(* fail, the bot keeps its promise: only rows that he asked to change do   *)
(* change, and what he is told is true, of types nothing is changing any   *)
(* more (handler.go:123-200, postgres.go:62-111).                          *)
THEOREM PromiseIsKept == Spec => ImplementsPromise
<1>1. Init => Promise!Init
    BY DEF Init, Promise!Init, Unknown, Asked, Writes, NoCommand
<1>2. IInv /\ IInv' /\ [Next]_vars => [Promise!Next]_(Promise!promised)
  <2> SUFFICES ASSUME IInv, IInv', [Next]_vars
               PROVE  Promise!Next \/ UNCHANGED <<subs, Asked, belief>>
      BY DEF Promise!promised
  <2>1. ASSUME NEW h \in Handlers, Begin(h) PROVE Promise!Next
      BY <2>1, BeginAsks DEF Promise!Next
  <2>2. ASSUME NEW h \in Handlers, Handle(h) PROVE Promise!Next
    <3>1. CASE Reply(h)
        BY <3>1, ReplyConcludes DEF Promise!Next
    <3>2. CASE ~Reply(h)
      <4>1. /\ UNCHANGED <<cmd, belief>>
            /\ \A t \in Types : (t \in subs' <=> t \in subs) \/ t \in Asked
          BY <2>2, <3>2, StatementChanges
      <4>2. Asked' = Asked
          BY <4>1 DEF Asked
      <4>3. subs' \subseteq Types
          BY DEF IInv, TypeOK
      <4> QED
          BY <4>1, <4>2, <4>3 DEF Promise!Next, Promise!Change
    <3> QED
        BY <3>1, <3>2
  <2>3. ASSUME NEW h \in Handlers, Fail(h) PROVE Promise!Next
      BY <2>3, FailConcludes DEF Promise!Next
  <2>4. CASE UNCHANGED vars
      BY <2>4 DEF vars, Asked
  <2> QED
      BY <2>1, <2>2, <2>3, <2>4 DEF Next
<1> QED
    BY <1>1, <1>2, InvInit, InvStep, PTL DEF Spec, ImplementsPromise, Promise!Spec

-----------------------------------------------------------------------------
(* Sums.                                                                   *)

(* A set of numbers has a least one.                                       *)
LEMMA Least ==
    ASSUME NEW B \in SUBSET Nat, B # {}
    PROVE  \E n \in B : \A m \in B : ~(m < n)
<1>1. PICK n \in B : \A m \in B : ~(<<m, n>> \in OpToRel(<, Nat))
    BY WFMin, NatLessThanWellFounded
<1> QED
    BY <1>1 DEF OpToRel

(* Induction over the subsets of a finite set, for a set of good ones.     *)
LEMMA SubsetInduction ==
    ASSUME NEW S, IsFiniteSet(S), NEW Good,
           \A T \in SUBSET S : (\A U \in SUBSET T : U # T => U \in Good) => T \in Good
    PROVE  S \in Good
<1> SUFFICES ASSUME S \notin Good PROVE FALSE
    OBVIOUS
<1> DEFINE Bad == (SUBSET S) \ Good
           Sizes == {Cardinality(T) : T \in Bad}
<1>1. \A T \in SUBSET S : IsFiniteSet(T) /\ Cardinality(T) \in Nat
    BY FS_Subset, FS_CardinalityType
<1>2. Sizes \in SUBSET Nat /\ Sizes # {}
    BY <1>1
<1>3. PICK n \in Sizes : \A m \in Sizes : ~(m < n)
  <2> HIDE DEF Sizes
  <2> QED
      BY <1>2, Least
<1>4. PICK T \in Bad : Cardinality(T) = n
    OBVIOUS
<1>5. ASSUME NEW U \in SUBSET T, U # T PROVE U \in Good
  <2>1. Cardinality(U) < n
      BY <1>1, <1>4, <1>5, FS_Subset
  <2> QED
      BY <1>3, <2>1
<1> QED
    BY <1>4, <1>5

(* SumFunctionOnSet (module Functions) is a fold, whose recursion goes     *)
(* through the subsets and takes one element away at a time.  IsSum says   *)
(* that g is the function it defines; it is unique, and there is one.      *)
Any(T) == CHOOSE x \in T : TRUE

IsSum(g, f, S) ==
    g = [T \in SUBSET S |-> IF T = {} THEN 0 ELSE f[Any(T)] + g[T \ {Any(T)}]]

LEMMA AnyFact == \A T : T # {} => Any(T) \in T
BY DEF Any

LEMMA IsSumFacts ==
    ASSUME NEW f, NEW D, NEW s, IsSum(s, f, D)
    PROVE  \A T \in SUBSET D : s[T] = IF T = {} THEN 0 ELSE f[Any(T)] + s[T \ {Any(T)}]
BY Zenon DEF IsSum

LEMMA SumUnique ==
    ASSUME NEW f, NEW R, NEW S, NEW g, NEW h, IsSum(g, f, R), IsSum(h, f, S),
           NEW T \in SUBSET (R \cap S), IsFiniteSet(T)
    PROVE  g[T] = h[T]
<1> DEFINE Good == {U \in SUBSET T : g[U] = h[U]}
<1>1. ASSUME NEW U \in SUBSET T, \A V \in SUBSET U : V # U => V \in Good
      PROVE  U \in Good
  <2>1. U \in SUBSET R /\ U \in SUBSET S
      OBVIOUS
  <2>2. g[U] = IF U = {} THEN 0 ELSE f[Any(U)] + g[U \ {Any(U)}]
      BY <2>1, Zenon DEF IsSum
  <2>3. h[U] = IF U = {} THEN 0 ELSE f[Any(U)] + h[U \ {Any(U)}]
      BY <2>1, Zenon DEF IsSum
  <2>4. U # {} => U \ {Any(U)} \in Good
      BY <1>1, AnyFact
  <2> QED
      BY <2>2, <2>3, <2>4
<1> HIDE DEF Good
<1>2. T \in Good
    BY <1>1, SubsetInduction
<1> QED
    BY <1>2 DEF Good

LEMMA SumExists ==
    ASSUME NEW f, NEW S, IsFiniteSet(S)
    PROVE  \E g : IsSum(g, f, S)
<1> DEFINE Good == {T \in SUBSET S : \E g : IsSum(g, f, T)}
           G(T) == CHOOSE g : IsSum(g, f, T)
<1>1. ASSUME NEW T \in SUBSET S, \A U \in SUBSET T : U # T => U \in Good
      PROVE  T \in Good
  <2>1. ASSUME NEW U \in SUBSET T, U # T PROVE IsSum(G(U), f, U)
    <3>1. \E g : IsSum(g, f, U)
        BY <1>1, <2>1
    <3> QED
        BY <3>1
  <2> DEFINE v(U) == IF U = {} THEN 0
                     ELSE f[Any(U)] + G(U \ {Any(U)})[U \ {Any(U)}]
             h == [U \in SUBSET T |-> v(U)]
  <2>2. ASSUME NEW U \in SUBSET T, U # T PROVE h[U] = G(U)[U]
    <3> HIDE DEF G
    <3>1. G(U)[U] = IF U = {} THEN 0 ELSE f[Any(U)] + G(U)[U \ {Any(U)}]
        BY <2>1, <2>2, IsSumFacts
    <3>2. CASE U # {}
      <4>1. PICK x \in U : x = Any(U)
          BY <3>2, AnyFact
      <4>2. U \ {x} \in SUBSET T /\ U \ {x} # T
          BY <4>1
      <4>3. IsSum(G(U \ {x}), f, U \ {x}) /\ IsSum(G(U), f, U)
          BY <2>1, <2>2, <4>2
      <4>4. IsFiniteSet(U \ {x})
          BY FS_Subset
      <4>5. G(U)[U \ {x}] = G(U \ {x})[U \ {x}]
          BY <4>3, <4>4, SumUnique
      <4> QED
          BY <3>1, <3>2, <4>1, <4>5
    <3>3. CASE U = {}
        BY <3>1, <3>3
    <3> QED
        BY <3>2, <3>3
  <2>3. ASSUME NEW U \in SUBSET T
        PROVE  v(U) = IF U = {} THEN 0 ELSE f[Any(U)] + h[U \ {Any(U)}]
    <3>1. CASE U # {}
      <4>1. U \ {Any(U)} \in SUBSET T /\ U \ {Any(U)} # T
          BY <3>1, AnyFact
      <4>2. h[U \ {Any(U)}] = G(U \ {Any(U)})[U \ {Any(U)}]
          BY <2>2, <4>1
      <4> QED
          BY <3>1, <4>2
    <3>2. CASE U = {}
        BY <3>2
    <3> QED
        BY <3>1, <3>2
  <2> HIDE DEF v
  <2>4. h = [U \in SUBSET T |-> IF U = {} THEN 0 ELSE f[Any(U)] + h[U \ {Any(U)}]]
      BY <2>3
  <2>5. IsSum(h, f, T)
      BY <2>4, Zenon DEF IsSum
  <2> QED
      BY <2>5
<1> HIDE DEF Good
<1>2. S \in Good
    BY <1>1, SubsetInduction
<1> QED
    BY <1>2 DEF Good

LEMMA SumEquation ==
    ASSUME NEW f, NEW S, IsFiniteSet(S)
    PROVE  SumFunctionOnSet(f, S) =
             IF S = {} THEN 0 ELSE f[Any(S)] + SumFunctionOnSet(f, S \ {Any(S)})
<1> DEFINE G(T) == CHOOSE g : IsSum(g, f, T)
<1>1. \A T : SumFunctionOnSet(f, T) = G(T)[T]
    BY DEF SumFunctionOnSet, FoldFunctionOnSet, MapThenFoldSet, IsSum, Any
<1>2. ASSUME NEW T, IsFiniteSet(T) PROVE IsSum(G(T), f, T)
    BY <1>2, SumExists
<1> HIDE DEF G
<1>3. G(S)[S] = IF S = {} THEN 0 ELSE f[Any(S)] + G(S)[S \ {Any(S)}]
  <2>1. IsSum(G(S), f, S) /\ S \in SUBSET S
      BY <1>2
  <2> QED
      BY <2>1, Zenon DEF IsSum
<1>4. ASSUME S # {} PROVE G(S)[S \ {Any(S)}] = G(S \ {Any(S)})[S \ {Any(S)}]
  <2>1. PICK T : T = S \ {Any(S)}
      OBVIOUS
  <2>2. IsFiniteSet(T)
      BY <2>1, FS_Subset
  <2>3. IsSum(G(S), f, S) /\ IsSum(G(T), f, T)
      BY <1>2, <2>2
  <2> QED
      BY <2>1, <2>2, <2>3, SumUnique
<1> QED
    BY <1>1, <1>3, <1>4

(* A sum of integers is one, and a change of one summand changes it by as  *)
(* much.                                                                   *)
LEMMA SumChange ==
    ASSUME NEW S, IsFiniteSet(S), NEW f \in [S -> Int], NEW x \in S, NEW n \in Int
    PROVE  /\ SumFunction(f) \in Int
           /\ SumFunction([f EXCEPT ![x] = n]) = SumFunction(f) + n - f[x]
<1>1. PICK g : g = [f EXCEPT ![x] = n]
    OBVIOUS
<1>2. g \in [S -> Int] /\ g[x] = n /\ \A y \in S : y # x => g[y] = f[y]
    BY <1>1
<1> DEFINE F(T) == SumFunctionOnSet(f, T)
           E(T) == SumFunctionOnSet(g, T)
           Good == {T \in SUBSET S :
                      /\ F(T) \in Int /\ E(T) \in Int
                      /\ E(T) = F(T) + IF x \in T THEN n - f[x] ELSE 0}
<1>3. ASSUME NEW T \in SUBSET S, \A U \in SUBSET T : U # T => U \in Good
      PROVE  T \in Good
  <2>1. IsFiniteSet(T)
      BY FS_Subset
  <2>2. /\ F(T) = IF T = {} THEN 0 ELSE f[Any(T)] + F(T \ {Any(T)})
        /\ E(T) = IF T = {} THEN 0 ELSE g[Any(T)] + E(T \ {Any(T)})
      BY <2>1, SumEquation
  <2>3. CASE T = {}
      BY <2>2, <2>3
  <2>4. CASE T # {}
    <3>1. PICK y \in T : y = Any(T)
        BY <2>4, AnyFact
    <3>2. PICK U : U = T \ {y}
        OBVIOUS
    <3>3. U \in Good
        BY <1>3, <3>2
    <3>4. F(T) = f[y] + F(U) /\ E(T) = g[y] + E(U)
        BY <2>2, <2>4, <3>1, <3>2
    <3> HIDE DEF F, E
    <3>5. f[y] \in Int /\ f[x] \in Int /\ g[y] = IF y = x THEN n ELSE f[y]
        BY <1>2
    <3>6. x \in T <=> (x \in U \/ x = y)
        BY <3>2
    <3>7. x \in U => x # y
        BY <3>2
    <3> QED
        BY <3>3, <3>4, <3>5, <3>6, <3>7
  <2> QED
      BY <2>3, <2>4
<1>4. S \in Good
  <2> HIDE DEF Good
  <2> QED
      BY <1>3, SubsetInduction
<1>5. DOMAIN f = S /\ DOMAIN g = S
    BY <1>2
<1>6. SumFunction(f) = F(S) /\ SumFunction(g) = E(S)
    BY <1>5 DEF SumFunction
<1> HIDE DEF F, E
<1> QED
    BY <1>1, <1>4, <1>6

LEMMA SumOfZeros ==
    ASSUME NEW S, IsFiniteSet(S)
    PROVE  SumFunction([x \in S |-> 0]) = 0
<1>1. PICK f : f = [x \in S |-> 0]
    OBVIOUS
<1> DEFINE Good == {T \in SUBSET S : SumFunctionOnSet(f, T) = 0}
<1>2. ASSUME NEW T \in SUBSET S, \A U \in SUBSET T : U # T => U \in Good
      PROVE  T \in Good
  <2>1. IsFiniteSet(T)
      BY FS_Subset
  <2>2. SumFunctionOnSet(f, T) =
          IF T = {} THEN 0 ELSE f[Any(T)] + SumFunctionOnSet(f, T \ {Any(T)})
      BY <2>1, SumEquation
  <2>3. T # {} => f[Any(T)] = 0 /\ T \ {Any(T)} \in Good
      BY <1>1, <1>2, AnyFact
  <2> QED
      BY <2>2, <2>3
<1>3. S \in Good
  <2> HIDE DEF Good
  <2> QED
      BY <1>2, SubsetInduction
<1> QED
    BY <1>1, <1>3 DEF SumFunction

-----------------------------------------------------------------------------
(* Do the answers add up?  A handler that counts starts from nothing.      *)
NothingCounted ==
    \A h \in Handlers : stage[h] \in {"idle", "begun"} => count[h] = 0

AInv == TypeOK /\ NothingCounted /\ RepliesAddUp

(* The rows, the user's account and a handler's count change together.     *)
LEMMA Balance ==
    ASSUME AInv, TypeOK', NEW h \in Handlers, NEW n \in Int,
           count' = [count EXCEPT ![h] = n],
           ~silent' => ~silent,
           ~silent' => Cardinality(subs') - told' = Cardinality(subs) - told + n - count[h]
    PROVE  RepliesAddUp'
<1>1. /\ SumFunction(count) \in Int
      /\ SumFunction(count') = SumFunction(count) + n - count[h]
  <2>1. count \in [Handlers -> Int]
      BY DEF AInv, TypeOK
  <2> QED
      BY <2>1, SumChange, HandlersAssumption
<1>2. PICK i \in Int, j \in Int : i = SumFunction(count) /\ j = SumFunction(count')
    BY <1>1 DEF AInv, TypeOK
<1>3. PICK k \in Nat, l \in Nat : k = Cardinality(subs) /\ l = Cardinality(subs')
    BY CountFacts DEF AInv, TypeOK
<1>4. told \in Int /\ told' \in Int /\ count[h] \in Int
    BY DEF AInv, TypeOK
<1>5. ~silent => k = told + i
    BY <1>2, <1>3 DEF AInv, RepliesAddUp
<1>6. ~silent' => l = told' + j
    BY <1>1, <1>2, <1>3, <1>4, <1>5
<1> QED
    BY <1>2, <1>3, <1>6 DEF RepliesAddUp

(* A statement adds or removes the row of one type.                        *)
LEMMA RowChange ==
    ASSUME NEW S \in SUBSET Types, NEW t \in Types
    PROVE  /\ Cardinality(S \cup {t}) = Cardinality(S) + IF t \in S THEN 0 ELSE 1
           /\ Cardinality(S \ {t}) = Cardinality(S) + IF t \in S THEN -1 ELSE 0
<1>1. IsFiniteSet(S)
    BY TypesAssumption, FS_Subset
<1>2. PICK k \in Nat : k = Cardinality(S)
    BY CountFacts
<1>3. Cardinality(S \cup {t}) = IF t \in S THEN Cardinality(S) ELSE Cardinality(S) + 1
    BY <1>1, FS_AddElement
<1>4. Cardinality(S \ {t}) = IF t \in S THEN Cardinality(S) - 1 ELSE Cardinality(S)
    BY <1>1, FS_RemoveElement
<1> QED
    BY <1>2, <1>3, <1>4

LEMMA AnswerBalance ==
    ASSUME AInv, TypeOK', NEW h \in Handlers, NEW ins, NEW outs, NEW n \in Int,
           Answer(h, ins, outs, n),
           Cardinality(subs') = Cardinality(subs) + n - count[h]
    PROVE  AInv'
<1>1. /\ stage' = [stage EXCEPT ![h] = "reply"] /\ count' = [count EXCEPT ![h] = n]
      /\ told' = told /\ silent' = silent
    BY DEF Answer
<1>2. NothingCounted'
    BY <1>1 DEF AInv, NothingCounted, TypeOK
<1>3. Cardinality(subs') - told' = Cardinality(subs) - told + n - count[h]
  <2>1. PICK k \in Nat, l \in Nat : k = Cardinality(subs) /\ l = Cardinality(subs')
      BY CountFacts DEF AInv, TypeOK
  <2>2. l = k + n - count[h] /\ told \in Int /\ count[h] \in Int
      BY <2>1 DEF AInv, TypeOK
  <2>3. l - told = k - told + n - count[h]
      BY <2>2
  <2> QED
      BY <1>1, <2>1, <2>3
<1>4. RepliesAddUp'
    BY <1>1, <1>3, Balance
<1> QED
    BY <1>2, <1>4 DEF AInv

(* The count of a handler that returns passes into the user's account, or  *)
(* the account ends.                                                       *)
LEMMA ReturnBalance ==
    ASSUME AInv, TypeOK', NEW h \in Handlers, Return(h),
           ~silent' => ~silent /\ told' = told + count[h]
    PROVE  AInv'
<1> DEFINE n == 0
<1>1. /\ stage' = [stage EXCEPT ![h] = "idle"] /\ count' = [count EXCEPT ![h] = n]
      /\ subs' = subs /\ n \in Int
    BY DEF Return
<1>2. NothingCounted'
    BY <1>1 DEF AInv, NothingCounted, TypeOK
<1>3. ~silent' => Cardinality(subs') - told' = Cardinality(subs) - told + n - count[h]
  <2>1. PICK k \in Nat : k = Cardinality(subs)
      BY CountFacts DEF AInv, TypeOK
  <2>2. told \in Int /\ count[h] \in Int
      BY DEF AInv, TypeOK
  <2>3. k - (told + count[h]) = k - told + n - count[h]
      BY <2>2
  <2> QED
      BY <1>1, <2>1, <2>3
<1>4. RepliesAddUp'
  <2> HIDE DEF n
  <2> QED
      BY <1>1, <1>3, Balance
<1> QED
    BY <1>2, <1>4 DEF AInv

LEMMA AddsUpInit == Init => AInv
<1> SUFFICES ASSUME Init PROVE AInv
    OBVIOUS
<1>1. SumFunction(count) = 0
  <2>1. count = [h \in Handlers |-> 0]
      BY DEF Init
  <2>2. SumFunction([h \in Handlers |-> 0]) = 0
      BY SumOfZeros, HandlersAssumption
  <2> QED
      BY <2>1, <2>2
<1>2. told = Cardinality(subs) /\ told \in Int
    BY TypeInit DEF Init, TypeOK
<1>3. RepliesAddUp
    BY <1>1, <1>2 DEF RepliesAddUp
<1> QED
    BY <1>3, TypeInit DEF AInv, NothingCounted, Init

LEMMA AddsUpStep == AInv /\ [Next]_vars => AInv'
<1> SUFFICES ASSUME AInv, [Next]_vars PROVE AInv'
    OBVIOUS
<1>1. TypeOK'
    BY TypeStep DEF AInv
<1>2. ASSUME NEW h \in Handlers, stage[h] = "begun" PROVE count[h] = 0
    BY <1>2 DEF AInv, NothingCounted
<1>3. \A S \in SUBSET Types : Cardinality(S) \in Nat
    BY CountFacts
<1>4. subs \in SUBSET Types
    BY DEF AInv, TypeOK
<1>5. ASSUME NEW h \in Handlers, Begin(h) PROVE AInv'
  <2>1. /\ stage[h] = "idle" /\ stage' = [stage EXCEPT ![h] = "begun"]
        /\ UNCHANGED <<subs, count, told, silent>>
      BY <1>5 DEF Begin
  <2> QED
      BY <1>1, <2>1 DEF AInv, NothingCounted, RepliesAddUp, TypeOK
<1>6. ASSUME NEW h \in Handlers, SubscribeToEvent(h) PROVE AInv'
  <2>1. PICK t \in cmd[h].types :
          /\ stage[h] = "begun"
          /\ IF IsSupportedType(t)
             THEN subs' = subs \cup {t} /\ Answer(h, {t}, {}, RowsAdded(t))
             ELSE UNCHANGED subs /\ Answer(h, {}, {}, 0)
      BY <1>6 DEF SubscribeToEvent
  <2>2. count[h] = 0
      BY <1>2, <2>1
  <2>3. CASE t \in Types
    <3>1. PICK n \in Int : n = RowsAdded(t)
        BY DEF RowsAdded
    <3>2. Cardinality(subs') = Cardinality(subs) + n - count[h]
      <4>1. Cardinality(subs') = Cardinality(subs) + n
          BY <1>4, <2>1, <2>3, <3>1, RowChange DEF RowsAdded, IsSupportedType
      <4> QED
          BY <1>3, <1>4, <2>2, <4>1
    <3>3. Answer(h, {t}, {}, n)
        BY <2>1, <2>3, <3>1 DEF IsSupportedType
    <3> QED
        BY <1>1, <3>2, <3>3, AnswerBalance
  <2>4. CASE t \notin Types
    <3>1. Cardinality(subs') = Cardinality(subs) + 0 - count[h]
        BY <1>3, <1>4, <2>1, <2>2, <2>4 DEF IsSupportedType
    <3> QED
        BY <1>1, <2>1, <2>4, <3>1, AnswerBalance DEF IsSupportedType
  <2> QED
      BY <2>3, <2>4
<1>7. ASSUME NEW h \in Handlers, UnsubscribeFromEvent(h) PROVE AInv'
  <2>1. PICK t \in cmd[h].types :
          /\ stage[h] = "begun" /\ subs' = subs \ {t}
          /\ Answer(h, {}, {t}, IF t \in subs THEN -1 ELSE 0)
      BY <1>7 DEF UnsubscribeFromEvent, RowsWithout
  <2>2. PICK n \in Int : n = IF t \in subs THEN -1 ELSE 0
      OBVIOUS
  <2>3. Cardinality(subs') = Cardinality(subs) + n
    <3>1. CASE t \in Types
        BY <1>4, <2>1, <2>2, <3>1, RowChange
    <3>2. CASE t \notin Types
      <4>1. subs' = subs /\ n = 0
          BY <1>4, <2>1, <2>2, <3>2
      <4> QED
          BY <1>3, <1>4, <4>1
    <3> QED
        BY <3>1, <3>2
  <2>4. Cardinality(subs') = Cardinality(subs) + n - count[h]
      BY <1>2, <1>3, <1>4, <2>1, <2>3
  <2> QED
      BY <1>1, <2>1, <2>2, <2>4, AnswerBalance
<1>8. ASSUME NEW h \in Handlers, UnsubscribeAll(h) PROVE AInv'
  <2>1. PICK k \in Nat : k = Cardinality(subs)
      BY <1>3, <1>4
  <2>2. Cardinality(subs') = 0
      BY <1>8, FS_EmptySet DEF UnsubscribeAll
  <2>3. Cardinality(subs') = Cardinality(subs) + (-k) - count[h]
      BY <1>2, <1>8, <2>1, <2>2 DEF UnsubscribeAll
  <2>4. Answer(h, {}, Types, -k) /\ -k \in Int
      BY <1>8, <2>1 DEF UnsubscribeAll
  <2> QED
      BY <1>1, <2>3, <2>4, AnswerBalance
<1>9. ASSUME NEW h \in Handlers, GetSubscriptions(h) PROVE AInv'
  <2>1. Cardinality(subs') = Cardinality(subs) + 0 - count[h]
      BY <1>2, <1>3, <1>4, <1>9 DEF GetSubscriptions
  <2> QED
      BY <1>1, <1>9, <2>1, AnswerBalance DEF GetSubscriptions
<1>10. ASSUME NEW h \in Handlers, SubscribeAll(h) PROVE AInv'
  <2>1. /\ stage' = [stage EXCEPT ![h] = "adding"]
        /\ UNCHANGED <<subs, count, told, silent>>
      BY <1>10 DEF SubscribeAll
  <2> QED
      BY <1>1, <2>1 DEF AInv, NothingCounted, RepliesAddUp, TypeOK
<1>11. ASSUME NEW h \in Handlers, AddNext(h) PROVE AInv'
  <2>1. PICK t \in rest[h] :
          /\ stage[h] = "adding" /\ subs' = subs \cup {t}
          /\ count' = [count EXCEPT ![h] = count[h] + RowsAdded(t)]
          /\ UNCHANGED <<stage, told, silent>>
      BY <1>11 DEF AddNext
  <2>2. PICK n \in Int : n = RowsAdded(t)
      BY DEF RowsAdded
  <2>3. PICK k \in Nat, l \in Nat : k = Cardinality(subs) /\ l = Cardinality(subs')
      BY <1>1, <1>3, <1>4 DEF TypeOK
  <2>4. l = k + n
      BY <1>4, <2>1, <2>2, <2>3, RowChange DEF RowsAdded, AInv, TypeOK
  <2>5. PICK c \in Int, d \in Int : c = count[h] /\ d = told
      BY DEF AInv, TypeOK
  <2>6. l - d = k - d + (c + n) - c
      BY <2>4, <2>5
  <2>7. Cardinality(subs') - told' = Cardinality(subs) - told + (c + n) - count[h]
      BY <2>1, <2>3, <2>5, <2>6
  <2>8. count' = [count EXCEPT ![h] = c + n] /\ c + n \in Int
      BY <2>1, <2>2, <2>5
  <2>9. RepliesAddUp'
      BY <1>1, <2>1, <2>7, <2>8, Balance
  <2>10. NothingCounted'
      BY <2>1 DEF AInv, NothingCounted, TypeOK
  <2> QED
      BY <1>1, <2>9, <2>10 DEF AInv
<1>12. ASSUME NEW h \in Handlers, AllAdded(h) PROVE AInv'
  <2>1. PICK c \in Int : c = count[h]
      BY DEF AInv, TypeOK
  <2>2. Cardinality(subs') = Cardinality(subs) + c - count[h]
      BY <1>3, <1>4, <1>12, <2>1 DEF AllAdded
  <2>3. Answer(h, Types, {}, c)
      BY <1>12, <2>1 DEF AllAdded
  <2> QED
      BY <1>1, <2>2, <2>3, AnswerBalance
<1>13. ASSUME NEW h \in Handlers, Reply(h) PROVE AInv'
    BY <1>1, <1>13, ReturnBalance DEF Reply
<1>14. ASSUME NEW h \in Handlers, Fail(h) PROVE AInv'
  <2>1. ~silent' => ~silent /\ count[h] = 0 /\ told' = told
      BY <1>14 DEF Fail
  <2>2. ~silent' => told' = told + count[h]
      BY <2>1 DEF AInv, TypeOK
  <2> QED
      BY <1>1, <1>14, <2>1, <2>2, ReturnBalance DEF Fail
<1>15. ASSUME UNCHANGED vars PROVE AInv'
    BY <1>1, <1>15 DEF vars, AInv, NothingCounted, RepliesAddUp
<1> QED
    BY <1>5, <1>6, <1>7, <1>8, <1>9, <1>10, <1>11, <1>12, <1>13, <1>14, <1>15
    DEF Next, Handle

(* What the bot reports as added and removed adds up to the rows: however  *)
(* many commands overlap and fail, the user who adds up the answers, and   *)
(* what the commands at work have still to tell him, has the number of his *)
(* rows, unless a change has gone without an answer (handler.go:123-200,   *)
(* postgres.go:62-111).                                                    *)
THEOREM AnswersAddUp == Spec => []RepliesAddUp
<1>1. AInv => RepliesAddUp
    BY DEF AInv
<1> QED
    BY AddsUpInit, AddsUpStep, <1>1, PTL DEF Spec

-----------------------------------------------------------------------------
(* The statements and the answer that a command has still before it, at    *)
(* the most.                                                               *)
StepsLeft(h) ==
    CASE stage[h] = "begun"  -> Cardinality(Types) + 3
      [] stage[h] = "adding" -> Cardinality(rest[h]) + 2
      [] stage[h] = "reply"  -> 1
      [] stage[h] = "idle"   -> 0

CommandsComeNearer ==
    \A h \in Handlers :
        stage[h] # "idle" =>
            \/ StepsLeft(h)' < StepsLeft(h)
            \/ /\ UNCHANGED <<StepsLeft(h), stage[h], rest[h], cmd[h]>>
               /\ ~Handle(h) /\ ~Fail(h)

LEMMA StepsAreNatural ==
    ASSUME TypeOK, NEW h \in Handlers
    PROVE  /\ StepsLeft(h) \in Nat
           /\ Cardinality(Types) \in Nat
           /\ Cardinality(rest[h]) \in Nat /\ Cardinality(rest[h]) <= Cardinality(Types)
<1>1. rest[h] \subseteq Types
    BY DEF TypeOK
<1>2. /\ IsFiniteSet(Types) /\ IsFiniteSet(rest[h])
      /\ Cardinality(rest[h]) <= Cardinality(Types)
    BY <1>1, TypesAssumption, FS_Subset
<1>3. Cardinality(Types) \in Nat /\ Cardinality(rest[h]) \in Nat
    BY <1>2, FS_CardinalityType
<1> QED
    BY <1>2, <1>3 DEF StepsLeft, TypeOK, Stages

LEMMA HandleComesNearer ==
    ASSUME TypeOK, NEW h \in Handlers, stage[h] # "idle", Handle(h) \/ Fail(h)
    PROVE  StepsLeft(h)' < StepsLeft(h)
<1>1. CASE \/ SubscribeToEvent(h) \/ UnsubscribeFromEvent(h) \/ UnsubscribeAll(h)
           \/ GetSubscriptions(h)
  <2>1. stage[h] = "begun" /\ stage'[h] = "reply"
      BY <1>1 DEF SubscribeToEvent, UnsubscribeFromEvent, UnsubscribeAll, GetSubscriptions,
                  Answer, TypeOK
  <2>2. StepsLeft(h)' = 1 /\ StepsLeft(h) = Cardinality(Types) + 3
      BY <2>1 DEF StepsLeft
  <2> QED
      BY <2>2, StepsAreNatural
<1>2. CASE SubscribeAll(h)
  <2>1. stage[h] = "begun" /\ stage'[h] = "adding" /\ rest'[h] = Types
      BY <1>2 DEF SubscribeAll, TypeOK
  <2>2. StepsLeft(h)' = Cardinality(Types) + 2 /\ StepsLeft(h) = Cardinality(Types) + 3
      BY <2>1 DEF StepsLeft
  <2> QED
      BY <2>2, StepsAreNatural
<1>3. CASE AddNext(h)
  <2>1. PICK t \in rest[h] : AddNext(h) /\ rest' = [rest EXCEPT ![h] = Left(@, t)]
      BY <1>3 DEF AddNext
  <2>2. stage[h] = "adding" /\ stage'[h] = "adding" /\ rest'[h] = rest[h] \ {t}
      BY <2>1 DEF AddNext, Left, TypeOK
  <2>3. rest[h] \subseteq Types
      BY DEF TypeOK
  <2>4. PICK S, T : S = rest[h] /\ T = rest'[h]
      OBVIOUS
  <2>5. IsFiniteSet(S) /\ t \in S /\ T = S \ {t}
      BY <2>2, <2>3, <2>4, TypesAssumption, FS_Subset
  <2>6. Cardinality(T) = Cardinality(S) - 1
      BY <2>5, FS_RemoveElement
  <2>7. StepsLeft(h)' = Cardinality(T) + 2 /\ StepsLeft(h) = Cardinality(S) + 2
      BY <2>2, <2>4 DEF StepsLeft
  <2>8. Cardinality(S) \in Nat
      BY <2>5, FS_CardinalityType
  <2> QED
      BY <2>6, <2>7, <2>8
<1>4. CASE AllAdded(h)
  <2>1. stage[h] = "adding" /\ stage'[h] = "reply"
      BY <1>4 DEF AllAdded, Answer, TypeOK
  <2>2. StepsLeft(h)' = 1 /\ StepsLeft(h) = Cardinality(rest[h]) + 2
      BY <2>1 DEF StepsLeft
  <2> QED
      BY <2>2, StepsAreNatural
<1>5. CASE Reply(h) \/ Fail(h)
  <2>1. stage'[h] = "idle"
      BY <1>5 DEF Reply, Fail, Return, TypeOK
  <2>2. StepsLeft(h)' = 0
      BY <2>1 DEF StepsLeft
  <2>3. StepsLeft(h) # 0 /\ StepsLeft(h) \in Nat
      BY StepsAreNatural DEF StepsLeft, TypeOK, Stages
  <2> QED
      BY <2>2, <2>3
<1> QED
    BY <1>1, <1>2, <1>3, <1>4, <1>5 DEF Handle

LEMMA OthersDoNotTouch ==
    ASSUME TypeOK, NEW g \in Handlers, NEW h \in Handlers, g # h,
           Begin(g) \/ Handle(g) \/ Fail(g)
    PROVE  UNCHANGED <<stage[h], rest[h], cmd[h]>>
BY DEF TypeOK, Begin, Handle, Fail, SubscribeToEvent, UnsubscribeFromEvent,
       UnsubscribeAll, GetSubscriptions, SubscribeAll, AddNext, AllAdded, Reply,
       Answer, Return

(* Every statement, answer and failure of a command brings it nearer its   *)
(* end, by at least one of the steps it has left, and a step that is not   *)
(* its own leaves it where it is: nothing is done over again, an iteration *)
(* of SubscribeAll's loop is always one fewer to do, and no overlapping    *)
(* command sets it back (handler.go:123-200, postgres.go:81-93).           *)
THEOREM CommandsGetOn == Spec => [][CommandsComeNearer]_vars
<1>1. ASSUME TypeOK, [Next]_vars
      PROVE  [CommandsComeNearer]_vars
  <2> SUFFICES ASSUME ~UNCHANGED vars, NEW h \in Handlers, stage[h] # "idle"
               PROVE  \/ StepsLeft(h)' < StepsLeft(h)
                      \/ /\ UNCHANGED <<StepsLeft(h), stage[h], rest[h], cmd[h]>>
                         /\ ~Handle(h) /\ ~Fail(h)
      BY DEF CommandsComeNearer
  <2>1. CASE Handle(h) \/ Fail(h)
      BY <1>1, <2>1, HandleComesNearer
  <2>2. CASE ~Handle(h) /\ ~Fail(h)
    <3>1. PICK g \in Handlers : Begin(g) \/ Handle(g) \/ Fail(g)
        BY <1>1 DEF Next
    <3>2. g # h
        BY <2>2, <3>1 DEF Begin
    <3>3. UNCHANGED <<stage[h], rest[h], cmd[h]>>
        BY <1>1, <3>1, <3>2, OthersDoNotTouch
    <3>4. StepsLeft(h)' = StepsLeft(h)
        BY <3>3 DEF StepsLeft
    <3> QED
        BY <2>2, <3>3, <3>4
  <2> QED
      BY <2>1, <2>2
<1> QED
    BY <1>1, TypeCorrect, PTL DEF Spec
=============================================================================
