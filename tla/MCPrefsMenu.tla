---------------------------- MODULE MCPrefsMenu ----------------------------
(* One language: the short-message flag alone takes a menu out of date.    *)
(* Of the timezones on the keyboard the zone files lack one; the default   *)
(* is the other (Preferences has a default that nothing can find).         *)
EXTENDS PrefsMenu
=============================================================================
