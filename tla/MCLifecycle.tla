---------------------------- MODULE MCLifecycle ----------------------------
(* Instance of Lifecycle for TLC: one server that may be started twice,    *)
(* one lingx -t and two lingx -s.                                          *)
EXTENDS Lifecycle

MCSignalName == {"stop", "reopen"}
=============================================================================
