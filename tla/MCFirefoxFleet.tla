--------------------------- MODULE MCFirefoxFleet ---------------------------
(***************************************************************************)
(* One goal's browser, its replay and the hourly reaper.                   *)
(***************************************************************************)
EXTENDS FirefoxFleet
=============================================================================
