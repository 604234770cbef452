--------------------------- MODULE MCDeduplicator ---------------------------
(***************************************************************************)
(* TLC instance of Deduplicator: three keys, the windows 1, 2 and 3 (the   *)
(* range config.Load accepts starts at 1), and a clock of MaxTime, long    *)
(* enough for an entry to expire, be swept and be entered again.           *)
(***************************************************************************)
EXTENDS Deduplicator

CONSTANTS k1, k2, k3

MCKeys == {k1, k2, k3}
MCWindowSettings == {1, 2, 3}
=============================================================================
