---------------------------- MODULE MCLogChain -----------------------------
(* Instance of LogChain for TLC: two log files and the default one; plain  *)
(* levels below and above error, the word debug and two debug bits.        *)
EXTENDS LogChain

MCName == {"a.log", "b.log"}
MCWord == {1, 7, 8, 128, 256}
=============================================================================
