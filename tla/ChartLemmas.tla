----------------------------- MODULE ChartLemmas -----------------------------
(***************************************************************************)
(* What the proofs about charts need to know of the level-4 chart: one     *)
(* micro step, as AdaptiveChart has it.                                    *)
(***************************************************************************)
EXTENDS AdaptiveChart, Naturals, TLAPS

\* The Belonging region only ever goes to one of its leaves.
LEMMA ReactType ==
  ASSUME NEW b \in Belonging, NEW h \in HealthStates, NEW E
  PROVE  React(b, h, E) \in Belonging
<1> USE DEF Role, PassiveReact, ActiveReact, ParticipatingReact
<1>1. CASE b = "disengaged"
  BY <1>1 DEF Belonging, React, DisengagedReact
<1>2. CASE b = "prepared"
  BY <1>2 DEF Belonging, React, PreparedReact
<1>3. CASE b = "negotiating"
  BY <1>3 DEF Belonging, React, NegotiatingReact
<1>4. CASE b = "available"
  BY <1>4 DEF Belonging, React, AvailableReact
<1>5. CASE b = "pending_entry"
  BY <1>5 DEF Belonging, React, PendingEntryReact
<1>6. CASE b = "full_role"
  BY <1>6 DEF Belonging, React, FullRoleReact
<1>7. CASE b = "restricted_role"
  BY <1>7 DEF Belonging, React, RestrictedRoleReact
<1>8. CASE b = "pending_exit"
  BY <1>8 DEF Belonging, React, PendingExitReact
<1>. QED
  BY <1>1, <1>2, <1>3, <1>4, <1>5, <1>6, <1>7, <1>8 DEF Belonging

\* The Health region only ever goes to one of its states.
LEMMA HealthReactType ==
  ASSUME NEW h \in HealthStates, NEW E
  PROVE  HealthReact(h, E) \in HealthStates
<1>1. Worse[h] \in HealthStates /\ Better[h] \in HealthStates
  BY DEF HealthStates, Worse, Better
<1>. QED
  BY <1>1 DEF HealthReact, HealthStates

\* Pending Entry has no entry action for validation or compensation: it relies
\* on being entered from outside Active only, which is what this lemma says.
LEMMA EntryFromNegotiating ==
  ASSUME NEW b \in Belonging, NEW h \in HealthStates, NEW E,
         React(b, h, E) = "pending_entry"
  PROVE  b \in {"negotiating", "pending_entry"}
BY DEF Belonging, React, Role, DisengagedReact, PreparedReact, NegotiatingReact,
       AvailableReact, PassiveReact, FullRoleReact, RestrictedRoleReact,
       ParticipatingReact, PendingExitReact, ActiveReact

\* Signals that agree with leaf b agree with t once the entry actions of a
\* transition from b to t have run: no transition can leave a stale one.
SignalsFit(s, b) ==
  /\ s.observed <=> b \in Inside
  /\ s.validated <=> b \in Participating
  /\ b = "restricted_role" => s.compensating
  /\ s.compensating => b \in Participating

LEMMA EmittedFits ==
  ASSUME NEW b \in Belonging, NEW t \in Belonging, NEW s \in Signals,
         SignalsFit(s, b), t = "pending_entry" => b \notin Participating
  PROVE  Emitted(s, b, t) \in Signals /\ SignalsFit(Emitted(s, b, t), t)
<1> DEFINE N == Entered(b, t)
<1>1. /\ "passive" \in N       <=> t \in Passive /\ b \notin Passive
      /\ "active" \in N        <=> t \in Active /\ b \notin Active
      /\ "participating" \in N <=> t \in Participating /\ b \notin Participating
  BY DEF Entered, WithEnclosing, Belonging, Passive, Active, Participating
<1>2. \A x \in {"disengaged", "prepared", "restricted_role", "pending_exit"} :
        x \in N <=> t = x /\ b # x
  BY DEF Entered, WithEnclosing, Belonging, Passive, Active, Participating
<1>3. \A x : N \cap {x} # {} <=> x \in N
  OBVIOUS
<1>4. \A x, y : N \cap {x, y} # {} <=> x \in N \/ y \in N
  OBVIOUS
<1>5. N \cap {"disengaged", "prepared", "passive", "active", "pending_exit"} # {}
        <=> \/ "disengaged" \in N \/ "prepared" \in N \/ "passive" \in N
            \/ "active" \in N \/ "pending_exit" \in N
  OBVIOUS
<1> HIDE DEF N
<1> DEFINE Rested == \/ "disengaged" \in N \/ "prepared" \in N
                     \/ "passive" \in N \/ "active" \in N
                     \/ "pending_exit" \in N
<1>6. /\ Emitted(s, b, t) \in Signals
      /\ Emitted(s, b, t).observed <=>
           \/ "passive" \in N \/ "active" \in N
           \/ (s.observed /\ ~("disengaged" \in N \/ "prepared" \in N))
      /\ Emitted(s, b, t).validated <=>
           "participating" \in N \/ (s.validated /\ ~Rested)
      /\ Emitted(s, b, t).compensating <=>
           "restricted_role" \in N \/ (s.compensating /\ ~Rested)
  BY <1>3, <1>4, <1>5 DEF Emitted, Signals, N
<1> HIDE DEF Rested
<1>11. Rested <=> \/ t = "disengaged" /\ b # "disengaged"
                  \/ t = "prepared" /\ b # "prepared"
                  \/ t = "pending_exit" /\ b # "pending_exit"
                  \/ t \in Passive /\ b \notin Passive
                  \/ t \in Active /\ b \notin Active
  BY <1>1, <1>2 DEF Rested
<1>7. Emitted(s, b, t).observed <=> t \in Inside
  BY <1>1, <1>2, <1>6
  DEF Belonging, SignalsFit, Inside, Passive, Active, Participating
<1>8. Emitted(s, b, t).validated <=> t \in Participating
  BY <1>1, <1>2, <1>6, <1>11
  DEF Belonging, SignalsFit, Passive, Active, Participating
<1>9. t = "restricted_role" => Emitted(s, b, t).compensating
  BY <1>1, <1>2, <1>6, <1>11
  DEF Belonging, SignalsFit, Passive, Active, Participating
<1>10. Emitted(s, b, t).compensating => t \in Participating
  BY <1>1, <1>2, <1>6, <1>11
  DEF Belonging, SignalsFit, Passive, Active, Participating
<1>. QED
  BY <1>6, <1>7, <1>8, <1>9, <1>10 DEF SignalsFit

\* Run to completion is idempotent without events: after one eventless micro
\* step a second one changes nothing.  (What one of them can be worth: a
\* degraded full role leaves by it, a failed constituent is evicted by it.)
SettledAt(b, h) == React(b, h, {}) = b

LEMMA OneCycleSettles ==
  ASSUME NEW b \in Belonging, NEW h \in HealthStates
  PROVE  SettledAt(React(b, h, {}), h)
BY DEF Belonging, HealthStates, SettledAt, React, Role, DisengagedReact,
       PreparedReact, NegotiatingReact, AvailableReact, PassiveReact,
       PendingEntryReact, FullRoleReact, RestrictedRoleReact,
       ParticipatingReact, PendingExitReact, ActiveReact

\* The same with a time event, except for the role it gives to a degraded
\* constituent: choice_0 knows no better for it than the full role.
Excused(b, h) == b = "full_role" /\ h = "degraded"

LEMMA TimeEventSettles ==
  ASSUME NEW b \in Belonging, NEW h \in HealthStates, NEW e \in TimeEvents,
         SettledAt(b, h) \/ Excused(b, h)
  PROVE  SettledAt(React(b, h, {e}), h) \/ Excused(React(b, h, {e}), h)
<1>1. CASE b = TimerOf[e]
  <2>1. h # "failed"
    BY <1>1 DEF TimerOf, TimeEvents, SettledAt, Excused, React,
                PendingEntryReact, PendingExitReact, ActiveReact
  <2>2. CASE e = "entry_delay"
    <3>1. React(b, h, {e}) = Role(h)
      BY <1>1, <2>2 DEF TimerOf, React, PendingEntryReact
    <3>2. SettledAt(Role(h), h) \/ Excused(Role(h), h)
      BY <2>1 DEF HealthStates, Role, SettledAt, Excused, React, FullRoleReact,
                  RestrictedRoleReact, ParticipatingReact, ActiveReact
    <3>. QED
      BY <3>1, <3>2
  <2>3. CASE e = "exit_delay"
    <3>1. React(b, h, {e}) = "available"
      BY <1>1, <2>3 DEF TimerOf, React, PendingExitReact
    <3>2. SettledAt("available", h)
      BY <2>1 DEF SettledAt, React, AvailableReact, PassiveReact
    <3>. QED
      BY <3>1, <3>2
  <2>. QED
    BY <2>2, <2>3 DEF TimeEvents
<1>2. CASE b # TimerOf[e]
  <2>1. React(b, h, {e}) = React(b, h, {})
    BY <1>2 DEF Belonging, TimeEvents, TimerOf, React, DisengagedReact,
       PreparedReact, NegotiatingReact, AvailableReact, PassiveReact,
       PendingEntryReact, FullRoleReact, RestrictedRoleReact,
       ParticipatingReact, PendingExitReact, ActiveReact
  <2>. QED
    BY <2>1, OneCycleSettles
<1>. QED
  BY <1>1, <1>2

\* A time event ends the pending state it belongs to.
LEMMA TimeEventEndsPending ==
  ASSUME NEW h \in HealthStates, NEW e \in TimeEvents
  PROVE  React(TimerOf[e], h, {e}) # TimerOf[e]
BY DEF TimeEvents, TimerOf, React, Role, PendingEntryReact, PendingExitReact

\* The Health region does not react to anything but health events.
LEMMA HealthKept ==
  ASSUME NEW h, NEW E, E \cap HealthEvents = {}
  PROVE  HealthReact(h, E) = h
<1>1. "full_recovery" \notin E /\ "degrade" \notin E /\ "improve" \notin E
  BY DEF HealthEvents
<1>. QED
  BY <1>1 DEF HealthReact

\* A chart that is well typed, with fitting signals.
ChartFits(b, h, s) == b \in Belonging /\ h \in HealthStates /\ s \in Signals /\ SignalsFit(s, b)

\* A run_cycle keeps the chart well typed and its signals fitting.
LEMMA CycleFits ==
  ASSUME NEW b, NEW h, NEW s, NEW E, ChartFits(b, h, s)
  PROVE  ChartFits(React(b, h, E), HealthReact(h, E), Emitted(s, b, React(b, h, E)))
<1>1. React(b, h, E) \in Belonging /\ HealthReact(h, E) \in HealthStates
  BY ReactType, HealthReactType DEF ChartFits
<1>2. React(b, h, E) = "pending_entry" => b \notin Participating
  BY EntryFromNegotiating DEF ChartFits, Participating
<1>3. /\ Emitted(s, b, React(b, h, E)) \in Signals
      /\ SignalsFit(Emitted(s, b, React(b, h, E)), React(b, h, E))
  BY <1>1, <1>2, EmittedFits DEF ChartFits
<1>. QED
  BY <1>1, <1>3 DEF ChartFits

\* A run_cycle keeps a timer with each pending state, and nowhere else, even
\* when one of the time events that were on their way is the one it consumes.
TimersFit(b, a, n) == \A e \in TimeEvents :
  /\ b = TimerOf[e] => a[e] \/ n[e] > 0
  /\ a[e] => b = TimerOf[e]

LEMMA CycleKeepsTimers ==
  ASSUME NEW b, NEW t, NEW a \in [TimeEvents -> BOOLEAN], NEW n, NEW m,
         TimersFit(b, a, n),
         \A e \in TimeEvents : m[e] = n[e] \/ (b = TimerOf[e] => t # b)
  PROVE  TimersFit(t, Rearmed(a, b, t), m) /\ Rearmed(a, b, t) \in [TimeEvents -> BOOLEAN]
<1>1. Rearmed(a, b, t) \in [TimeEvents -> BOOLEAN]
  BY DEF Rearmed
<1>2. ASSUME NEW e \in TimeEvents
      PROVE  /\ t = TimerOf[e] => Rearmed(a, b, t)[e] \/ m[e] > 0
             /\ Rearmed(a, b, t)[e] => t = TimerOf[e]
  BY <1>2 DEF Rearmed, TimersFit
<1>. QED
  BY <1>1, <1>2 DEF TimersFit

=============================================================================
