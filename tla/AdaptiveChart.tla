---------------------------- MODULE AdaptiveChart ----------------------------
(***************************************************************************)
(* The Belonging region of the level-4 chart (app/state_charts/            *)
(* lv4_adaptive.py), the one the Orchestrator loads: what one micro step   *)
(* does, as operators without state.                                       *)
(*                                                                         *)
(* A leaf state has a reaction XReact(h, E) for the health h and the set E *)
(* of raised in-events.  It yields the leaf state the region is in         *)
(* afterwards; as no transition of the chart is a self-loop, yielding the  *)
(* leaf itself means that no transition is taken.  A leaf that takes no    *)
(* transition of its own falls through to the state that encloses it, as   *)
(* the "If no transition was taken" blocks of the code do.                 *)
(***************************************************************************)
EXTENDS Health

Belonging == {"disengaged", "prepared", "available", "negotiating",
              "pending_entry", "full_role", "restricted_role", "pending_exit"}

Passive       == {"available", "negotiating"}
Participating == {"full_role", "restricted_role"}
Active        == {"pending_entry", "pending_exit"} \cup Participating
Inside        == Passive \cup Active

\* belonging_main(): the enclosing state a leaf is reported under.
MainOf(b) == IF b \in Passive THEN "passive"
             ELSE IF b \in Active THEN "active" ELSE b

BelongingEvents ==
  {"prepare_for_so_s", "disengage_from_so_s", "join_so_s", "leave_so_s",
   "join_request", "join_invitation", "admission_rejected",
   "join_constellation", "leave_constellation", "exit_denied",
   "uncertainty_threshold_exceeded"}

\* __time_events[0] and [1], raised by the timers of the two pending states.
TimeEvents == {"entry_delay", "exit_delay"}

InEvents == BelongingEvents \cup HealthEvents \cup TimeEvents

------------------------------------------------------------------------------
(***************************************************************************)
(* Reactions.                                                              *)
(***************************************************************************)

\* Faulty variant of Role: Participating is entered without choosing a role.
RoleUnresolved(h) == IF h \in {"erroneous", "malfunctioning"}
                     THEN "restricted_role" ELSE "participating"

\* choice_0: the role taken on entering Participating.  Every other health,
\* "degraded" and "failed" included, leads to the full role.
Role(h) == IF h \in {"erroneous", "malfunctioning"} THEN "restricted_role"
                                                    ELSE "full_role"

DisengagedReact(h, E) ==
  IF "prepare_for_so_s" \in E THEN "prepared" ELSE "disengaged"

PreparedReact(h, E) ==
  IF      "disengage_from_so_s" \in E          THEN "disengaged"
  ELSE IF "join_so_s" \in E /\ h # "failed"    THEN "available"
  ELSE "prepared"

\* Faulty variant of PassiveReact: failure does not evict.
PassiveReactIgnoringFailure(b, h, E) == IF "leave_so_s" \in E THEN "prepared" ELSE b

PassiveReact(b, h, E) ==
  IF h = "failed" \/ "leave_so_s" \in E THEN "prepared" ELSE b

NegotiatingReact(h, E) ==
  IF      "admission_rejected" \in E THEN "available"
  ELSE IF "join_constellation" \in E THEN "pending_entry"
  ELSE PassiveReact("negotiating", h, E)

AvailableReact(h, E) ==
  IF \/ "join_request" \in E /\ h = "ideal"
     \/ "join_invitation" \in E /\ h \in {"ideal", "defective", "faulty"}
  THEN "negotiating"
  ELSE PassiveReact("available", h, E)

\* Faulty variant of ActiveReact: failure does not evict.
ActiveReactIgnoringFailure(b, h, E) == b

ActiveReact(b, h, E) == IF h = "failed" THEN "prepared" ELSE b

\* Faulty variant of PendingEntryReact: the time event has a guard on health.
PendingEntryReactGuarded(h, E) ==
  IF      "entry_delay" \in E /\ h # "degraded" THEN Role(h)
  ELSE IF "leave_constellation" \in E           THEN "pending_exit"
  ELSE ActiveReact("pending_entry", h, E)

PendingEntryReact(h, E) ==
  IF      "entry_delay" \in E         THEN Role(h)
  ELSE IF "leave_constellation" \in E THEN "pending_exit"
  ELSE ActiveReact("pending_entry", h, E)

ParticipatingReact(b, h, E) ==
  IF "leave_constellation" \in E \/ h = "degraded" THEN "pending_exit"
  ELSE ActiveReact(b, h, E)

FullRoleReact(h, E) ==
  IF h \in {"erroneous", "malfunctioning"} THEN "restricted_role"
  ELSE ParticipatingReact("full_role", h, E)

RestrictedRoleReact(h, E) ==
  IF      h \in {"ideal", "defective", "faulty"}    THEN "full_role"
  ELSE IF "uncertainty_threshold_exceeded" \in E    THEN "pending_exit"
  ELSE ParticipatingReact("restricted_role", h, E)

PendingExitReact(h, E) ==
  IF      "exit_delay" \in E                        THEN "available"
  ELSE IF "exit_denied" \in E /\ h # "degraded"     THEN Role(h)
  ELSE ActiveReact("pending_exit", h, E)

\* __micro_step, Belonging half: dispatch on state_vector[0].
React(b, h, E) ==
  CASE b = "disengaged"      -> DisengagedReact(h, E)
    [] b = "prepared"        -> PreparedReact(h, E)
    [] b = "negotiating"     -> NegotiatingReact(h, E)
    [] b = "available"       -> AvailableReact(h, E)
    [] b = "pending_entry"   -> PendingEntryReact(h, E)
    [] b = "full_role"       -> FullRoleReact(h, E)
    [] b = "restricted_role" -> RestrictedRoleReact(h, E)
    [] b = "pending_exit"    -> PendingExitReact(h, E)

------------------------------------------------------------------------------
(***************************************************************************)
(* What entering and leaving states does.                                  *)
(***************************************************************************)

\* A leaf with the composite states around it.
WithEnclosing(b) ==
  {b} \cup (IF b \in Passive       THEN {"passive"}       ELSE {})
      \cup (IF b \in Active        THEN {"active"}        ELSE {})
      \cup (IF b \in Participating THEN {"participating"} ELSE {})

\* The states whose entry action runs on the transition from b to t: a
\* composite state that holds both is neither left nor entered.
Entered(b, t) == WithEnclosing(t) \ WithEnclosing(b)

Signals == [observed : BOOLEAN, validated : BOOLEAN, compensating : BOOLEAN]

NoSignals == [observed |-> FALSE, validated |-> FALSE, compensating |-> FALSE]

\* Faulty variant of Emitted: Pending Exit has no entry action for the signals.
EmittedKeepingRole(s, b, t) ==
  LET In(S)   == Entered(b, t) \cap S # {}
      resting == {"disengaged", "prepared", "passive", "active"}
  IN  [observed     |-> \/ In({"passive", "active"})
                        \/ (s.observed /\ ~In({"disengaged", "prepared"})),
       validated    |-> In({"participating"}) \/ (s.validated /\ ~In(resting)),
       compensating |-> In({"restricted_role"}) \/ (s.compensating /\ ~In(resting))]

\* The last value each of emit_observed, emit_validated, compensation_enabled
\* carried, after the entry actions of the transition from b to t.
Emitted(s, b, t) ==
  LET In(S)   == Entered(b, t) \cap S # {}
      resting == {"disengaged", "prepared", "passive", "active", "pending_exit"}
  IN  [observed     |-> \/ In({"passive", "active"})
                        \/ (s.observed /\ ~In({"disengaged", "prepared"})),
       validated    |-> In({"participating"}) \/ (s.validated /\ ~In(resting)),
       compensating |-> In({"restricted_role"}) \/ (s.compensating /\ ~In(resting))]

\* set_timer on entering and unset_timer on leaving the pending states.
TimerOf == [entry_delay |-> "pending_entry", exit_delay |-> "pending_exit"]

\* Faulty variant of Rearmed: no timer is unset on leaving a state.
RearmedWithoutUnset(armed, b, t) ==
  [e \in TimeEvents |-> (t = TimerOf[e] /\ b # t) \/ armed[e]]

Rearmed(armed, b, t) ==
  [e \in TimeEvents |-> IF t = TimerOf[e] /\ b # t THEN TRUE
                        ELSE IF b = TimerOf[e] /\ b # t THEN FALSE
                        ELSE armed[e]]

=============================================================================
