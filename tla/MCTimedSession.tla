--------------------------- MODULE MCTimedSession ---------------------------
(***************************************************************************)
(* Small instances of TimedSession: one client and its two timers.         *)
(***************************************************************************)
EXTENDS TimedSession

MCTimers == SessionTimers
=============================================================================
