----------------------------- MODULE MCPollSet -----------------------------
(* Instance of PollSet for TLC: three connections over three descriptors,  *)
(* so that a slot can be moved past a slot that stays.                     *)
EXTENDS PollSet

CONSTANTS c1, c2, c3, f1, f2, f3

MCConn == {c1, c2, c3}
MCFd   == {f1, f2, f3}
=============================================================================
