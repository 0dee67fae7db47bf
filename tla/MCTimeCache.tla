---------------------------- MODULE MCTimeCache ----------------------------
(* Instance of TimeCache for TLC: a ring of three slots and two signals,   *)
(* each of which may come again, so that the ring comes round while a line *)
(* is being copied.                                                        *)
EXTENDS TimeCache, TLC

CONSTANTS sigterm, sigquit

MCSignal == {sigterm, sigquit}
Symm == Permutations(MCSignal)
=============================================================================
