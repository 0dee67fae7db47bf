------------------------- MODULE MCUnexpectedEvent -------------------------
(* Instance of UnexpectedEvent for TLC: three connections, of which one    *)
(* descriptor can be used again while its old slot is still in the array.  *)
EXTENDS UnexpectedEvent, TLC

CONSTANTS c1, c2, c3, f1, f2

MCConn == {c1, c2, c3}
MCFd   == {f1, f2}
MCListening == {}

Symm == Permutations(MCConn) \cup Permutations(MCFd)
=============================================================================
