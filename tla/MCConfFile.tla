----------------------------- MODULE MCConfFile ----------------------------
(* Instance of ConfFile for TLC: every text of up to five characters, over *)
(* a buffer of three.                                                      *)
EXTENDS ConfFile

MCChar == {"a", "blank", "newline", ";", "{", "}", "#", "\\", "quote", "$", ")"}
=============================================================================
