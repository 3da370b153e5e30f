---------------------------- MODULE MCExperiment ----------------------------
(***************************************************************************)
(* ExperimentRun for TLC.                                                  *)
(***************************************************************************)
EXTENDS ExperimentRun

=============================================================================
