------------------------------ MODULE MCLevels ------------------------------
(***************************************************************************)
(* LevelLifecycle for TLC: Init takes every level.                         *)
(***************************************************************************)
EXTENDS LevelLifecycle

=============================================================================
