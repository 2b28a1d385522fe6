---------------------------- MODULE MCCheckTrace ----------------------------
(***************************************************************************)
(* The histories to check: two threads on every object, and three on the   *)
(* queue, whose calls can then overlap in every way three calls can.       *)
(***************************************************************************)
EXTENDS CheckTrace

TwoOrThree == [p \in Checked |-> IF p = "QUEUE" THEN {1, 2, 3} ELSE {1, 2}]
=============================================================================
