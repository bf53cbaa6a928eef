---------------------------- MODULE MCTimerQueue ----------------------------
(***************************************************************************)
(* Three timers, offsets that tie with one another and with the clock.     *)
(***************************************************************************)
EXTENDS TimerQueue
=============================================================================
