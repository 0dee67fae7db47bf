--------------------------- MODULE MCEventTimers ---------------------------
(* Instance of EventTimers for TLC: three timers with delays of one to     *)
(* three milliseconds, so that one is armed before, between and behind the *)
(* others; the word sizes are the smallest the assumptions allow.          *)
EXTENDS EventTimers

CONSTANTS e1, e2, e3

MCTimer == {e1, e2, e3}
MCDelay == 1 .. 3
=============================================================================
