---------------------------- MODULE MCTaskDriver ----------------------------
(***************************************************************************)
(* Instances of TaskDriver for TLC: see the configurations.                *)
(***************************************************************************)
EXTENDS TaskDriver
=============================================================================
