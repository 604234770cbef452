---------------------------- MODULE MCPreferences ----------------------------
(***************************************************************************)
(* TLC instances of Preferences: two supported languages, so that the      *)
(* locale can be changed away from its default and back, and a client      *)
(* whose language is not among them.  Of the timezones that exist one is   *)
(* enough: the default, which nothing checked, is another one, so that a   *)
(* choice is told from it, from the blank and from one that is refused.    *)
(***************************************************************************)
EXTENDS Preferences, TLC

CONSTANTS h1, h2, en, pt, ja, utc, mars, venus

MCSymmetry == Permutations(Handlers)
=============================================================================
