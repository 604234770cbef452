----------------------------- MODULE QuietHours -----------------------------
(***************************************************************************)
(* IsInQuietHours and parseHourMinute of internal/notifications/filter.go, *)
(* against a clock that goes round the day.                                *)
(*                                                                         *)
(* A setting is what strings.Cut and strconv.Atoi make of the string: a    *)
(* pair <<hour, minute>> of integers, or Unreadable when the string is     *)
(* empty, has no colon or has something else than numbers around it.       *)
(***************************************************************************)
EXTENDS Integers

CONSTANTS
    Settings,    \* values of QUIET_HOURS_START and QUIET_HOURS_END
    Unreadable   \* a setting that is not two integers around a colon

ASSUME SettingsAssumption ==
    /\ Settings \subseteq (Int \X Int) \cup {Unreadable}
    /\ Unreadable \notin Int \X Int

VARIABLES
    start,    \* config.QuietHoursStart
    end,      \* config.QuietHoursEnd
    current   \* now.Hour()*60 + now.Minute()

vars == <<start, end, current>>

MinutesPerDay == 1440

(* parseHourMinute succeeds on an hour and a minute in range ...           *)
Parses(setting) ==
    /\ setting # Unreadable
    /\ setting[1] >= 0 /\ setting[1] <= 23
    /\ setting[2] >= 0 /\ setting[2] <= 59

(* ... and returns the minute of the day.                                  *)
Minutes(setting) == setting[1] * 60 + setting[2]

(* Mutant of IsInQuietHours: a span over midnight stops there.             *)
QuietUntilMidnight ==
    /\ Parses(start) /\ Parses(end)
    /\ current >= Minutes(start)
    /\ Minutes(start) <= Minutes(end) => current < Minutes(end)

IsInQuietHours ==
    /\ Parses(start) /\ Parses(end)
    /\ IF Minutes(start) <= Minutes(end)
       THEN current >= Minutes(start) /\ current < Minutes(end)
       ELSE current >= Minutes(start) \/ current < Minutes(end)

(* What the proofs need of the clock; no line of the program can break it, *)
(* so no run checks it.                                                    *)
TypeOK ==
    /\ {start, end} \subseteq Settings
    /\ current \in 0..(MinutesPerDay - 1)

(* The settings are read once, by config.Load; the program may start at    *)
(* any time of day.                                                        *)
Init ==
    /\ start \in Settings
    /\ end \in Settings
    /\ current \in 0..(MinutesPerDay - 1)

Tick ==
    /\ current' = (current + 1) % MinutesPerDay
    /\ UNCHANGED <<start, end>>

Next == Tick

Spec == Init /\ [][Next]_vars

-----------------------------------------------------------------------------
(* Properties.                                                             *)

(* How many minutes after m the clock comes to stand at n.                 *)
MinutesFrom(m, n) == (n - m) % MinutesPerDay

(* The two branches of IsInQuietHours are one rule: with two readable      *)
(* settings it is quiet for as many minutes as lie from start to end,      *)
(* counted from start round the clock, midnight or not; never when they    *)
(* are equal, and never when one of them cannot be read.                   *)
QuietIsOneSpan ==
    IsInQuietHours <=>
        /\ Parses(start) /\ Parses(end)
        /\ MinutesFrom(Minutes(start), current) < MinutesFrom(Minutes(start), Minutes(end))

(* Quiet begins at the start minute and nowhere else, and ends at the end  *)
(* minute and nowhere else: midnight is no boundary (filter.go:23-26).     *)
Edges ==
    /\ ~IsInQuietHours /\ IsInQuietHours' => current' = Minutes(start)
    /\ IsInQuietHours /\ ~IsInQuietHours' => current' = Minutes(end)

EdgesOnlyAtSettings == [][Edges]_vars
=============================================================================
