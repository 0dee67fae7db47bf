------------------------------ MODULE MCQueue -------------------------------
(* Two queues and three elements, two of which compare equal.              *)
EXTENDS Queue

CONSTANTS h1, h2, e1, e2, e3

MCRank == [x \in {e1, e2, e3} |-> IF x = e3 THEN 1 ELSE 2]
=============================================================================
