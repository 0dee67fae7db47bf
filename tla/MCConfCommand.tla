--------------------------- MODULE MCConfCommand ---------------------------
(* A value of a flag that is neither on nor off is 2.  Eight directives set  *)
(* all flags inside an events block, or repeat one of them.                *)
EXTENDS ConfCommand

MCValue == {OFF, ON, 2}
=============================================================================
