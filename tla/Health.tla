------------------------------- MODULE Health -------------------------------
(***************************************************************************)
(* The Health region of a constituent's lifecycle statechart.  The region  *)
(* is the same, line for line, in the four charts the repository           *)
(* generates; the level-4 chart is the one the definitions are read from.  *)
(*                                                                         *)
(* A micro step hands the region the set E of in-events that are raised.   *)
(***************************************************************************)

\* HEALTH_ORDER, from the best to the worst.
HealthStates == {"ideal", "defective", "faulty", "erroneous",
                 "malfunctioning", "degraded", "failed"}

HealthEvents == {"full_recovery", "degrade", "improve"}

\* One step down the order; there is none below "failed".
Worse == [ideal          |-> "defective",
          defective      |-> "faulty",
          faulty         |-> "erroneous",
          erroneous      |-> "malfunctioning",
          malfunctioning |-> "degraded",
          degraded       |-> "failed",
          failed         |-> "failed"]

\* One step up the order; there is none above "ideal".
Better == [ideal          |-> "ideal",
           defective      |-> "ideal",
           faulty         |-> "defective",
           erroneous      |-> "faulty",
           malfunctioning |-> "erroneous",
           degraded       |-> "malfunctioning",
           failed         |-> "degraded"]

(***************************************************************************)
(* The reaction of the region in health h: full_recovery comes before      *)
(* degrade, degrade before improve; "failed" does not react to degrade and *)
(* "ideal" reacts to nothing else (both are fixed points of the tables).   *)
(***************************************************************************)
HealthReact(h, E) ==
  IF      "full_recovery" \in E /\ h # "ideal"   THEN "ideal"
  ELSE IF "degrade" \in E /\ h # "failed"        THEN Worse[h]
  ELSE IF "improve" \in E                        THEN Better[h]
  ELSE h

=============================================================================
