---------------------------- MODULE Deduplicator ----------------------------
(***************************************************************************)
(* internal/notifications/dedup.go: a map from "type|ip" keys to the time  *)
(* the key was last let through, swept of old entries on every call that   *)
(* lets an event through.                                                  *)
(*                                                                         *)
(* ShouldNotify runs under the mutex d.mu from its first read of the map   *)
(* to its last, so it is one action whatever the number of callers.        *)
(* time.Now carries Go's monotonic clock: time never goes back.            *)
(***************************************************************************)
EXTENDS Integers

CONSTANTS
    Keys,            \* the keys event.Type + "|" + source IP (or "no-ip")
    WindowSettings,  \* values of DEDUP_WINDOW_SECONDS to consider
    MaxTime,         \* bound on the clock
    NoVerdict        \* no call has been made yet

ASSUME SettingsAssumption == WindowSettings \subseteq Int
ASSUME MaxTimeAssumption == MaxTime \in Nat
ASSUME NoVerdictAssumption ==
    NoVerdict \notin [key : Keys, ok : BOOLEAN, at : Nat]

VARIABLES
    enabled,  \* field enabled
    window,   \* field window
    seen,     \* field seen: a time for every key, Absent when not in the map
    now,      \* what d.now() returns
    verdict,  \* the last call: its key, its answer and when it was made
    lastYes   \* history: when each key was last let through, never forgotten

vars == <<enabled, window, seen, now, verdict, lastYes>>

Absent == -1

(* NewDeduplicator replaces a window that is not positive by 60 seconds.   *)
NewWindow(windowSeconds) == IF windowSeconds <= 0 THEN 60 ELSE windowSeconds

TypeOK ==
    /\ enabled \in BOOLEAN
    /\ window \in Nat \ {0}
    /\ seen \in [Keys -> Nat \cup {Absent}]
    /\ now \in Nat
    /\ verdict \in [key : Keys, ok : BOOLEAN, at : Nat] \cup {NoVerdict}
    /\ lastYes \in [Keys -> Nat \cup {Absent}]

Init ==
    /\ enabled \in BOOLEAN
    /\ window \in {NewWindow(w) : w \in WindowSettings}
    /\ seen = [k \in Keys |-> Absent]
    /\ now = 0
    /\ verdict = NoVerdict
    /\ lastYes = [k \in Keys |-> Absent]

(* Mutant of Recent: a key is refused up to and including the window.      *)
RecentInclusive(k) == seen[k] # Absent /\ now - seen[k] <= window

(* lastSeen, ok := d.seen[key]; ok && now.Sub(lastSeen) < d.window         *)
Recent(k) == seen[k] # Absent /\ now - seen[k] < window

(* Mutants of Sweep: everything but this moment's entry goes; nothing goes;*)
(* the cutoff is subtracted from the entries.                              *)
SweepAll(map) == [k \in Keys |-> IF map[k] < now THEN Absent ELSE map[k]]

SweepNothing(map) == map

SweepShifted(map) ==
    [k \in Keys |-> IF map[k] = Absent THEN Absent ELSE map[k] - window]

(* The loop that deletes every entry strictly older than now - window.     *)
Sweep(map) ==
    [k \in Keys |-> IF map[k] # Absent /\ map[k] < now - window
                    THEN Absent ELSE map[k]]

Answer(k, ok) == verdict' = [key |-> k, ok |-> ok, at |-> now]

PassThrough(k) ==
    /\ ~enabled
    /\ Answer(k, TRUE)
    /\ lastYes' = [lastYes EXCEPT ![k] = now]
    /\ UNCHANGED <<enabled, window, seen, now>>

Suppress(k) ==
    /\ enabled /\ Recent(k)
    /\ Answer(k, FALSE)
    /\ UNCHANGED <<enabled, window, seen, now, lastYes>>

Accept(k) ==
    /\ enabled /\ ~Recent(k)
    /\ Answer(k, TRUE)
    /\ seen' = Sweep([seen EXCEPT ![k] = now])
    /\ lastYes' = [lastYes EXCEPT ![k] = now]
    /\ UNCHANGED <<enabled, window, now>>

ShouldNotify(k) == PassThrough(k) \/ Suppress(k) \/ Accept(k)

(* Calls are spaced by any amount of time, up to the bound on the clock.   *)
Tick ==
    /\ now' \in (now + 1)..MaxTime
    /\ UNCHANGED <<enabled, window, seen, verdict, lastYes>>

Next == Tick \/ \E k \in Keys : ShouldNotify(k)

Spec == Init /\ [][Next]_vars

-----------------------------------------------------------------------------
(* Properties.                                                             *)

(* The map is the recent part of the full history: an entry holds the time *)
(* its key was last let through, and a key that is missing was either      *)
(* never let through or let through longer ago than the window.  So the    *)
(* sweep in ShouldNotify never forgets a key it still has to refuse.       *)
SeenIsRecentHistory ==
    enabled => \A k \in Keys :
        IF seen[k] # Absent
        THEN seen[k] = lastYes[k] /\ seen[k] <= now
        ELSE lastYes[k] # Absent => now - lastYes[k] > window

(* dedup.go refuses an event only because an event with the same key was   *)
(* let through less than a window earlier: never at exactly the window,    *)
(* never because of a time the map kept too long, never when disabled.     *)
SuppressedWithinWindow ==
    verdict # NoVerdict /\ ~verdict.ok =>
        /\ enabled
        /\ lastYes[verdict.key] # Absent
        /\ verdict.at - lastYes[verdict.key] < window

(* The map does not grow with the history: after a call that lets an event *)
(* through, every entry left in it is at most a window old.                *)
SweptAfterAccept ==
    enabled /\ verdict # NoVerdict /\ verdict.ok =>
        \A k \in Keys : seen[k] # Absent => verdict.at - seen[k] <= window

(* An enabled deduplicator lets two events with one key through only when  *)
(* they are at least a window apart, whatever was swept in between.        *)
LetThroughSpacing ==
    enabled => \A k \in Keys :
        lastYes'[k] # lastYes[k] /\ lastYes[k] # Absent =>
            lastYes'[k] - lastYes[k] >= window

SpacedByWindow == [][LetThroughSpacing]_vars

(* ShouldNotify implements the promise of SuppressionWindow: the hot keys  *)
(* are those with a recent entry in the map.                               *)
HotKeys == IF enabled THEN {k \in Keys : Recent(k)} ELSE {}

LastAnswer ==
    IF verdict = NoVerdict THEN NoVerdict
                           ELSE [key |-> verdict.key, ok |-> verdict.ok]

Promise == INSTANCE SuppressionWindow WITH hot <- HotKeys, verdict <- LastAnswer

ImplementsWindow == Promise!Spec
=============================================================================
