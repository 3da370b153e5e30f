--------------------------- MODULE MCModelAdaptor ---------------------------
(***************************************************************************)
(* ModelAdaptor for TLC.                                                   *)
(***************************************************************************)
EXTENDS ModelAdaptor

=============================================================================
