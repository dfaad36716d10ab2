------------------------------ MODULE MCFramePull ------------------------------
(* FramePull for TLC: of its VPSS channels one is configured without a     *)
(* queue.                                                                  *)
EXTENDS FramePull

CONSTANT c1

MCDepth == [c \in Chn |-> IF c = c1 THEN 0 ELSE 2]
===============================================================================
