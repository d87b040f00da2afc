--------------------------- MODULE MCCloseEvening ---------------------------
(***************************************************************************)
(* The calendars CloseEvening is checked on.  A day of seven minutes has   *)
(* one before the open and one after close+15, and a capture slot that is  *)
(* no close.  The shorter ones, for two or three days, open at the equity  *)
(* close; the shortest has no minute after close+15 but midnight.          *)
(***************************************************************************)
EXTENDS CloseEvening
=============================================================================
