------------------------ MODULE MCSpillOperatorGroup ------------------------
(***************************************************************************)
(* Three operators: the smallest group in which two wait, one coordinates, *)
(* and an operator woken early can wait again before the last one is woken. *)
(***************************************************************************)
EXTENDS SpillOperatorGroup

CONSTANTS o1, o2, o3
=============================================================================
