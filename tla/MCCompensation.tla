--------------------------- MODULE MCCompensation ---------------------------
(***************************************************************************)
(* Compensation for TLC.                                                   *)
(***************************************************************************)
EXTENDS Compensation

=============================================================================
