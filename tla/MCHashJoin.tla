----------------------------- MODULE MCHashJoin -----------------------------
(***************************************************************************)
(* Two builders and two probers.  Keys 0 and 2 are in one partition of the *)
(* first level, 1 and 3 in the other, and each pair is told apart at the   *)
(* second.  Key 2 has no match; the prober with key 3 has nothing to       *)
(* contribute to the only partition of the second level that comes from    *)
(* the second of the first.                                                *)
(***************************************************************************)
EXTENDS HashJoin

CONSTANTS o1, o2, p1, p2

MCBuildKeys == (o1 :> {0, 1}) @@ (o2 :> {1, 2})
MCProbeKeys == (p1 :> {0, 1}) @@ (p2 :> {0, 3})
MCNullRows == {<<o1, 1>>}
=============================================================================
