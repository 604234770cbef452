---------------------------- MODULE MCQuietHours ----------------------------
(***************************************************************************)
(* TLC instance of QuietHours: both ends of the day, spans that do and do  *)
(* not cross midnight, equal settings, the out-of-range 24:00 and 12:60,   *)
(* and a string that is not a time at all, against every minute of a day.  *)
(***************************************************************************)
EXTENDS QuietHours

MCSettings == {<<0, 0>>, <<0, 1>>, <<8, 0>>, <<22, 30>>, <<23, 59>>,
               <<24, 0>>, <<12, 60>>, <<-1, 0>>, Unreadable}
=============================================================================
