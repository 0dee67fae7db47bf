---------------------------- MODULE MCEventLoop ----------------------------
(* Instance of EventLoop for TLC: a listening connection and an accepted   *)
(* one, so that a handler reaches events of another connection that are    *)
(* posted behind its own.                                                  *)
EXTENDS EventLoop, TLC

CONSTANTS l, c1, f1, f2

MCConn == {l, c1}
MCFd   == {f1, f2}
MCListening == {l}
=============================================================================
