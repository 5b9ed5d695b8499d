--------------------------- MODULE MCBufferManager ---------------------------
(* Two blocks of different sizes.  Either both live through a spill and a  *)
(* read, or one of them through two of each.                               *)
EXTENDS BufferManager

UnequalSizes == [b \in Block |-> b]
Sequences == {<<2, 2>>, <<5, 0>>}
=============================================================================
