---------------------------- MODULE MCStartup ------------------------------
(* Instance of Startup for TLC: the log files and levels of MCLogChain.    *)
EXTENDS Startup

MCName == {"a.log", "b.log"}
MCWord == {1, 7, 8, 128, 256}
=============================================================================
