----------------------------- MODULE LevelCharts -----------------------------
(***************************************************************************)
(* The other charts the repository generates, next to the level-4 one: the *)
(* three simpler levels (lv1_reactive, lv2_proactive, lv3_controlled) and  *)
(* the level-4 chart of the experiments (lv4_adaptive_experiment).         *)
(* Reactions are written as in AdaptiveChart, and reuse its definitions    *)
(* where the code is the same.                                             *)
(*                                                                         *)
(* At levels 1 and 2 Passive is a leaf; Active is one at level 1 and       *)
(* Participating at levels 2 and 3.                                        *)
(***************************************************************************)
EXTENDS AdaptiveChart, Naturals

Experiment == 5  \* the level-4 chart without timers

Levels == 1..Experiment

------------------------------------------------------------------------------
(***************************************************************************)
(* Level 1, reactive: membership follows the events, health is ignored.    *)
(***************************************************************************)
ReactiveBelonging == {"disengaged", "prepared", "passive", "active"}

ReactivePreparedReact(E) ==
  IF      "disengage_from_so_s" \in E THEN "disengaged"
  ELSE IF "join_so_s" \in E           THEN "passive"
  ELSE "prepared"

ReactivePassiveReact(E) ==
  IF      "leave_so_s" \in E         THEN "prepared"
  ELSE IF "join_constellation" \in E THEN "active"
  ELSE "passive"

\* Faulty variant of ReactiveActiveReact: the target is a leaf of other levels.
ReactiveActiveReactElsewhere(E) ==
  IF "leave_constellation" \in E THEN "available" ELSE "active"

ReactiveActiveReact(E) ==
  IF "leave_constellation" \in E THEN "passive" ELSE "active"

ReactiveReact(b, E) ==
  CASE b = "disengaged" -> DisengagedReact("ideal", E)
    [] b = "prepared"   -> ReactivePreparedReact(E)
    [] b = "passive"    -> ReactivePassiveReact(E)
    [] b = "active"     -> ReactiveActiveReact(E)

\* All of Active is validated at this level.
ReactiveEmitted(t) ==
  [observed |-> t \in {"passive", "active"}, validated |-> t = "active",
   compensating |-> FALSE]

------------------------------------------------------------------------------
(***************************************************************************)
(* Level 2, proactive: pending states with timers; failure evicts.         *)
(***************************************************************************)
ProactiveBelonging ==
  {"disengaged", "prepared", "passive", "pending_entry", "participating",
   "pending_exit"}

\* Faulty variant of ProactivePreparedReact: a failed constituent may join.
ProactivePreparedReactUnguarded(h, E) ==
  IF      "disengage_from_so_s" \in E THEN "disengaged"
  ELSE IF "join_so_s" \in E           THEN "passive"
  ELSE "prepared"

ProactivePreparedReact(h, E) ==
  IF      "disengage_from_so_s" \in E       THEN "disengaged"
  ELSE IF "join_so_s" \in E /\ h # "failed" THEN "passive"
  ELSE "prepared"

\* Faulty variant of ProactivePassiveReact: failure does not evict.
ProactivePassiveReactIgnoringFailure(h, E) ==
  IF      "join_constellation" \in E THEN "pending_entry"
  ELSE IF "leave_so_s" \in E         THEN "prepared"
  ELSE "passive"

ProactivePassiveReact(h, E) ==
  IF      "join_constellation" \in E            THEN "pending_entry"
  ELSE IF "leave_so_s" \in E \/ h = "failed"    THEN "prepared"
  ELSE "passive"

ProactivePendingEntryReact(h, E) ==
  IF      "leave_constellation" \in E THEN "pending_exit"
  ELSE IF "entry_delay" \in E         THEN "participating"
  ELSE ActiveReact("pending_entry", h, E)

ProactiveParticipatingReact(h, E) ==
  IF "leave_constellation" \in E THEN "pending_exit"
  ELSE ActiveReact("participating", h, E)

\* A denied exit has precedence over the end of the delay.
ProactivePendingExitReact(h, E) ==
  IF      "exit_denied" \in E THEN "participating"
  ELSE IF "exit_delay" \in E  THEN "passive"
  ELSE ActiveReact("pending_exit", h, E)

ProactiveReact(b, h, E) ==
  CASE b = "disengaged"    -> DisengagedReact(h, E)
    [] b = "prepared"      -> ProactivePreparedReact(h, E)
    [] b = "passive"       -> ProactivePassiveReact(h, E)
    [] b = "pending_entry" -> ProactivePendingEntryReact(h, E)
    [] b = "participating" -> ProactiveParticipatingReact(h, E)
    [] b = "pending_exit"  -> ProactivePendingExitReact(h, E)

------------------------------------------------------------------------------
(***************************************************************************)
(* Level 3, controlled: admission is negotiated and depends on health.     *)
(***************************************************************************)
ControlledBelonging ==
  (Belonging \ Participating) \cup {"participating"}

ControlledPendingEntryReact(h, E) ==
  IF      "leave_constellation" \in E THEN "pending_exit"
  ELSE IF "entry_delay" \in E         THEN "participating"
  ELSE ActiveReact("pending_entry", h, E)

ControlledParticipatingReact(h, E) ==
  IF "leave_constellation" \in E THEN "pending_exit"
  ELSE ActiveReact("participating", h, E)

\* The end of the delay has precedence over a denied exit.
ControlledPendingExitReact(h, E) ==
  IF      "exit_delay" \in E  THEN "available"
  ELSE IF "exit_denied" \in E THEN "participating"
  ELSE ActiveReact("pending_exit", h, E)

ControlledReact(b, h, E) ==
  CASE b \in {"disengaged", "prepared", "available", "negotiating"}
                           -> React(b, h, E)
    [] b = "pending_entry" -> ControlledPendingEntryReact(h, E)
    [] b = "participating" -> ControlledParticipatingReact(h, E)
    [] b = "pending_exit"  -> ControlledPendingExitReact(h, E)

------------------------------------------------------------------------------
(***************************************************************************)
(* The experiments' chart has no timers: the event constellation_stable    *)
(* takes the place of both time events.                                    *)
(***************************************************************************)
ExperimentReact(b, h, E) ==
  React(b, h, IF "constellation_stable" \in E THEN E \cup TimeEvents ELSE E)

ExperimentEvents == BelongingEvents \cup {"constellation_stable"} \cup HealthEvents

------------------------------------------------------------------------------
(***************************************************************************)
(* Every chart has its own copy of the Health region, line for line that   *)
(* of level 4; at level 1 the region is there, but nothing heeds it.       *)
(***************************************************************************)
ReactiveHealthReact(h, E)   == HealthReact(h, E)
ProactiveHealthReact(h, E)  == HealthReact(h, E)
ControlledHealthReact(h, E) == HealthReact(h, E)
ExperimentHealthReact(h, E) == HealthReact(h, E)

------------------------------------------------------------------------------
(***************************************************************************)
(* The charts side by side.                                           *)
(***************************************************************************)
BelongingAt(level) ==
  CASE level = 1 -> ReactiveBelonging
    [] level = 2 -> ProactiveBelonging
    [] level = 3 -> ControlledBelonging
    [] level \in {4, Experiment} -> Belonging

ReactAt(level, b, h, E) ==
  CASE level = 1 -> ReactiveReact(b, E)
    [] level = 2 -> ProactiveReact(b, h, E)
    [] level = 3 -> ControlledReact(b, h, E)
    [] level = 4 -> React(b, h, E)
    [] level = Experiment -> ExperimentReact(b, h, E)

HealthReactAt(level, h, E) ==
  CASE level = 1 -> ReactiveHealthReact(h, E)
    [] level = 2 -> ProactiveHealthReact(h, E)
    [] level = 3 -> ControlledHealthReact(h, E)
    [] level = 4 -> HealthReact(h, E)
    [] level = Experiment -> ExperimentHealthReact(h, E)

\* The in-events a chart has raise methods for.
EventsAt(level) == IF level = Experiment THEN ExperimentEvents
                   ELSE BelongingEvents \cup HealthEvents

\* Levels 2 and 3 have the entry actions of level 4 but for the restricted
\* role: compensation is never enabled.
LeafEntered(b, t) ==
  LET Around(x) == WithEnclosing(x)
                     \cup (IF x = "participating" THEN {"active"} ELSE {})
  IN  Around(t) \ Around(b)

\* Faulty variant of DelayedEmitted: leaving a role does not end validation.
DelayedEmittedKeepingRole(s, b, t) ==
  LET In(S) == LeafEntered(b, t) \cap S # {}
  IN  [observed  |-> \/ In({"passive", "active"})
                     \/ (s.observed /\ ~In({"disengaged", "prepared"})),
       validated |-> \/ In({"participating"})
                     \/ (s.validated /\ ~In({"disengaged", "prepared", "passive"})),
       compensating |-> FALSE]

DelayedEmitted(s, b, t) ==
  LET In(S) == LeafEntered(b, t) \cap S # {}
  IN  [observed  |-> \/ In({"passive", "active"})
                     \/ (s.observed /\ ~In({"disengaged", "prepared"})),
       validated |-> \/ In({"participating"})
                     \/ /\ s.validated
                        /\ ~In({"disengaged", "prepared", "passive", "active",
                                "pending_exit"}),
       compensating |-> FALSE]

EmittedAt(level, s, b, t) ==
  CASE level = 1        -> IF b = t THEN s ELSE ReactiveEmitted(t)
    [] level \in {2, 3} -> IF b = t THEN s ELSE DelayedEmitted(s, b, t)
    [] level \in {4, Experiment} -> Emitted(s, b, t)

\* The experiments' chart sets and unsets no timer.
RearmedAt(level, armed, b, t) ==
  IF level = Experiment THEN armed ELSE Rearmed(armed, b, t)

=============================================================================
