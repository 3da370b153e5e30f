--------------------------- MODULE LifecycleProofs ---------------------------
(***************************************************************************)
(* Theorems about Lifecycle for every set of constituents and every bound, *)
(* and about ModelAdaptor, whose navigation drives it.                     *)
(***************************************************************************)
EXTENDS ModelAdaptor, ChartLemmas

------------------------------------------------------------------------------
(***************************************************************************)
(* The inductive invariant.  TypeOK and SignalsMatchBelonging are almost   *)
(* inductive by themselves.  HealthIsEnforced is not: that a degraded role *)
(* is not restricted, that a timer never finds a failed constituent, needs *)
(* what the last eventless cycle left behind, which is RestIsSettled.      *)
(***************************************************************************)
IInv == TypeOK /\ SignalsMatchBelonging /\ RestIsSettled /\ PendingHasTimer

\* What a run_cycle on the chart of c does to all the charts.
LEMMA CycleEffect ==
  ASSUME TypeOK, SignalsMatchBelonging, NEW c \in Constituents, NEW E, RunCycle(c, E)
  PROVE  /\ bel' \in [Constituents -> Belonging]
         /\ health' \in [Constituents -> HealthStates]
         /\ signals' \in [Constituents -> Signals]
         /\ armed' \in [Constituents -> [TimeEvents -> BOOLEAN]]
         /\ SignalsMatchBelonging'
         /\ bel'[c] = React(bel[c], health[c], E)
         /\ health'[c] = HealthReact(health[c], E)
         /\ armed'[c] = Rearmed(armed[c], bel[c], bel'[c])
         /\ \A d \in Constituents : d # c =>
              bel'[d] = bel[d] /\ health'[d] = health[d] /\ armed'[d] = armed[d]
<1>1. /\ bel'[c] = React(bel[c], health[c], E)
      /\ health'[c] = HealthReact(health[c], E)
      /\ signals'[c] = Emitted(signals[c], bel[c], bel'[c])
      /\ armed'[c] = Rearmed(armed[c], bel[c], bel'[c])
  BY DEF RunCycle, TypeOK
<1>2. \A d \in Constituents : d # c => /\ bel'[d] = bel[d] /\ health'[d] = health[d]
                                      /\ signals'[d] = signals[d] /\ armed'[d] = armed[d]
  BY DEF RunCycle, TypeOK
<1>3. ASSUME NEW d \in Constituents PROVE ChartFits(bel[d], health[d], signals[d])
  BY <1>3 DEF ChartFits, TypeOK, SignalsMatchBelonging, SignalsFit
<1>4. ChartFits(bel'[c], health'[c], signals'[c])
  BY <1>1, <1>3, CycleFits
<1>5. ASSUME NEW d \in Constituents PROVE ChartFits(bel'[d], health'[d], signals'[d])
  BY <1>2, <1>3, <1>4
<1>6. /\ bel' \in [Constituents -> Belonging]
      /\ health' \in [Constituents -> HealthStates]
      /\ signals' \in [Constituents -> Signals]
  BY <1>5 DEF RunCycle, TypeOK, ChartFits
<1>7. armed' \in [Constituents -> [TimeEvents -> BOOLEAN]]
  BY DEF RunCycle, TypeOK, Rearmed
<1>8. SignalsMatchBelonging'
  BY <1>5 DEF SignalsMatchBelonging, ChartFits, SignalsFit
<1>. QED
  BY <1>1, <1>2, <1>6, <1>7, <1>8

\* PendingHasTimer after a run_cycle, when the only time event that may have
\* been consumed is one that ends the state it was for.
LEMMA CycleTimers ==
  ASSUME TypeOK, SignalsMatchBelonging, PendingHasTimer,
         NEW c \in Constituents, NEW E, RunCycle(c, E),
         \A d \in Constituents, e \in TimeEvents :
           elapsed'[d][e] = elapsed[d][e] \/ (d = c /\ e \in E)
  PROVE  PendingHasTimer'
<1>1. \A d \in Constituents : TimersFit(bel[d], armed[d], elapsed[d])
  BY DEF PendingHasTimer, TimersFit
<1>2. TimersFit(bel'[c], armed'[c], elapsed'[c])
  <2>1. /\ bel[c] \in Belonging /\ bel'[c] \in Belonging
        /\ armed[c] \in [TimeEvents -> BOOLEAN]
        /\ bel'[c] = React(bel[c], health[c], E)
        /\ armed'[c] = Rearmed(armed[c], bel[c], bel'[c])
    BY CycleEffect DEF TypeOK
  <2>2. ASSUME NEW e \in TimeEvents, e \in E, bel[c] = TimerOf[e] PROVE bel'[c] # bel[c]
    BY <2>1, <2>2 DEF TimeEvents, TimerOf, React, Role, PendingEntryReact, PendingExitReact
  <2>3. \A e \in TimeEvents : elapsed'[c][e] = elapsed[c][e]
                               \/ (bel[c] = TimerOf[e] => bel'[c] # bel[c])
    BY <2>2
  <2>. QED
    BY <1>1, <2>1, <2>3, CycleKeepsTimers
<1>3. \A d \in Constituents : d # c => TimersFit(bel'[d], armed'[d], elapsed'[d])
  BY <1>1, CycleEffect DEF TimersFit
<1>. QED
  BY <1>2, <1>3 DEF PendingHasTimer, TimersFit

------------------------------------------------------------------------------
\* RestIsSettled for one chart.
Settled(b, h) == SettledAt(b, h) \/ Excused(b, h)

LEMMA InitIInv == Init => IInv
BY MaxElapsedAssumption
   DEF Init, IInv, TypeOK, SignalsMatchBelonging, RestIsSettled, PendingHasTimer,
       AtRest, Belonging, HealthStates, Signals, NoSignals, Phases, Callers,
       TimeEvents, TimerOf, Inside, Passive, Active, Participating, React,
       DisengagedReact

\* A cycle that begins or goes on with a call leaves the chart to be settled
\* by the call's second cycle.
LEMMA FirstCycle ==
  ASSUME IInv, NEW c \in Constituents, NEW p \in Callers, NEW from, NEW E,
         Goto(c, p, from, "raised"), RunCycle(c, E), UNCHANGED elapsed
  PROVE  IInv'
<1> USE DEF IInv
<1>1. TypeOK'
  BY CycleEffect DEF TypeOK, Goto, Phases
<1>2. SignalsMatchBelonging'
  BY CycleEffect
<1>3. PendingHasTimer'
  BY CycleTimers
<1>4. RestIsSettled'
  <2> SUFFICES ASSUME NEW d \in Constituents, AtRest(d)'
               PROVE  Settled(bel'[d], health'[d])
    BY DEF RestIsSettled, Settled, SettledAt, Excused
  <2>1. d # c
    BY DEF AtRest, Goto, TypeOK
  <2>2. AtRest(d)
    BY <2>1 DEF AtRest, Goto, TypeOK
  <2>3. bel'[d] = bel[d] /\ health'[d] = health[d]
    BY <2>1, CycleEffect
  <2>. QED
    BY <2>2, <2>3 DEF RestIsSettled, Settled, SettledAt, Excused
<1>. QED
  BY <1>1, <1>2, <1>3, <1>4

LEMMA SecondCycle ==
  ASSUME IInv, NEW c \in Constituents, NEW p \in Callers, Settle(c, p)
  PROVE  IInv'
<1> USE DEF IInv
<1>0. RunCycle(c, {}) /\ UNCHANGED elapsed /\ Goto(c, p, "raised", "settled")
  BY DEF Settle
<1>1. TypeOK'
  BY <1>0, CycleEffect DEF TypeOK, Goto, Phases
<1>2. SignalsMatchBelonging'
  BY <1>0, CycleEffect
<1>3. PendingHasTimer'
  BY <1>0, CycleTimers
<1>4. RestIsSettled'
  <2> SUFFICES ASSUME NEW d \in Constituents, AtRest(d)'
               PROVE  Settled(bel'[d], health'[d])
    BY DEF RestIsSettled, Settled, SettledAt, Excused
  <2>1. CASE d = c
    <3>1. bel'[c] = React(bel[c], health[c], {}) /\ health'[c] = health[c]
      BY <1>0, CycleEffect, HealthKept
    <3>2. SettledAt(bel'[c], health'[c])
      BY <3>1, OneCycleSettles DEF TypeOK
    <3>. QED
      BY <2>1, <3>2 DEF Settled
  <2>2. CASE d # c
    <3>1. AtRest(d)
      BY <1>0, <2>2 DEF AtRest, Goto, TypeOK
    <3>2. bel'[d] = bel[d] /\ health'[d] = health[d]
      BY <1>0, <2>2, CycleEffect
    <3>. QED
      BY <3>1, <3>2 DEF RestIsSettled, Settled, SettledAt, Excused
  <2>. QED
    BY <2>1, <2>2
<1>. QED
  BY <1>1, <1>2, <1>3, <1>4

LEMMA TimerCycle ==
  ASSUME IInv, NEW c \in Constituents, NEW e \in TimeEvents, TimeElapsed(c, e)
  PROVE  IInv'
<1> USE DEF IInv
<1>0. RunCycle(c, {e}) /\ UNCHANGED phase
  BY DEF TimeElapsed
<1>1. elapsed' \in [Constituents -> [TimeEvents -> 0..MaxElapsed]]
  BY MaxElapsedAssumption DEF TimeElapsed, TypeOK
<1>2. \A d \in Constituents, f \in TimeEvents :
        elapsed'[d][f] = elapsed[d][f] \/ (d = c /\ f \in {e})
  BY DEF TimeElapsed, TypeOK
<1>3. TypeOK'
  BY <1>0, <1>1, CycleEffect DEF TypeOK
<1>4. SignalsMatchBelonging'
  BY <1>0, CycleEffect
<1>5. PendingHasTimer'
  BY <1>0, <1>2, CycleTimers
<1>6. RestIsSettled'
  <2> SUFFICES ASSUME NEW d \in Constituents, AtRest(d)'
               PROVE  Settled(bel'[d], health'[d])
    BY DEF RestIsSettled, Settled, SettledAt, Excused
  <2>1. Settled(bel[d], health[d])
    BY <1>0 DEF AtRest, RestIsSettled, Settled, SettledAt, Excused
  <2>2. CASE d = c
    <3>1. {e} \cap HealthEvents = {}
      BY DEF TimeEvents, HealthEvents
    <3>2. bel'[c] = React(bel[c], health[c], {e}) /\ health'[c] = health[c]
      BY <1>0, <3>1, CycleEffect, HealthKept
    <3>. QED
      BY <2>1, <2>2, <3>2, TimeEventSettles DEF Settled, TypeOK
  <2>3. CASE d # c
    BY <1>0, <2>1, <2>3, CycleEffect
  <2>. QED
    BY <2>2, <2>3
<1>. QED
  BY <1>3, <1>4, <1>5, <1>6

LEMMA ExpireKeeps ==
  ASSUME IInv, NEW c \in Constituents, NEW e \in TimeEvents, Expire(c, e)
  PROVE  IInv'
<1> USE DEF IInv
<1>1. TypeOK'
  BY MaxElapsedAssumption DEF Expire, TypeOK
<1>2. SignalsMatchBelonging' /\ RestIsSettled'
  BY DEF Expire, SignalsMatchBelonging, RestIsSettled, AtRest
<1>3. PendingHasTimer'
  BY DEF Expire, PendingHasTimer, TypeOK
<1>. QED
  BY <1>1, <1>2, <1>3

\* The steps of a caller that leave the chart alone.
LEMMA PhaseStep ==
  ASSUME IInv, NEW c \in Constituents, NEW p \in Callers,
         NEW from, NEW to \in Phases, from # "raised",
         Goto(c, p, from, to), UNCHANGED <<chart, elapsed>>
  PROVE  IInv'
<1> USE DEF IInv, chart
<1>1. TypeOK'
  BY DEF TypeOK, Goto
<1>2. SignalsMatchBelonging' /\ PendingHasTimer'
  BY DEF SignalsMatchBelonging, PendingHasTimer
<1>3. \A d \in Constituents : AtRest(d)' => AtRest(d)
  BY DEF AtRest, Goto, TypeOK
<1>4. RestIsSettled'
  BY <1>3 DEF RestIsSettled
<1>. QED
  BY <1>1, <1>2, <1>4

LEMMA StepIInv == IInv /\ [Next]_vars => IInv'
<1> SUFFICES ASSUME IInv, [Next]_vars PROVE IInv'
  OBVIOUS
<1> USE DEF Callers
<1>1. ASSUME NEW c \in Constituents, NEW event \in MainEvents, Raise(c, event)
      PROVE  IInv'
  BY <1>1, FirstCycle DEF Raise
<1>2. ASSUME NEW c \in Constituents, Refresh(c) PROVE IInv'
  BY <1>2, PhaseStep DEF Refresh, Phases
<1>3. ASSUME NEW c \in Constituents, NEW p \in Callers, Settle(c, p) PROVE IInv'
  BY <1>3, SecondCycle
<1>4. ASSUME NEW c \in Constituents, NEW p \in Callers, Return(c, p) PROVE IInv'
  BY <1>4, PhaseStep DEF Return, Phases
<1>5. ASSUME NEW c \in Constituents, Compensate(c) PROVE IInv'
  BY <1>5, PhaseStep DEF Compensate, Phases
<1>6. ASSUME NEW c \in Constituents, EmitReconstructed(c) PROVE IInv'
  BY <1>6, PhaseStep DEF EmitReconstructed, Phases
<1>7. ASSUME NEW c \in Constituents, ExceedUncertainty(c) PROVE IInv'
  BY <1>7, FirstCycle DEF ExceedUncertainty
<1>8. ASSUME NEW c \in Constituents, NEW e \in TimeEvents, Expire(c, e) PROVE IInv'
  BY <1>8, ExpireKeeps
<1>9. ASSUME NEW c \in Constituents, NEW e \in TimeEvents, TimeElapsed(c, e) PROVE IInv'
  BY <1>9, TimerCycle
<1>10. CASE UNCHANGED vars
  BY <1>10 DEF vars, IInv, TypeOK, SignalsMatchBelonging, RestIsSettled, AtRest,
               PendingHasTimer
<1>. QED
  BY <1>1, <1>2, <1>3, <1>4, <1>5, <1>6, <1>7, <1>8, <1>9, <1>10
  DEF Next, Continue, Timers

------------------------------------------------------------------------------
(***************************************************************************)
(* The theorems.                                                           *)
(***************************************************************************)

LEMMA Invariance == Spec => []IInv
BY InitIInv, StepIInv, PTL DEF Spec

\* Every reachable state of every number of charts is well typed.
THEOREM TypeCorrect == Spec => []TypeOK
<1>1. IInv => TypeOK
  BY DEF IInv
<1>. QED
  BY <1>1, Invariance, PTL

\* The flags the source and the reconstructor act on (emit_observed,
\* emit_validated, compensation_enabled) always agree with the leaf the
\* Belonging region is in, whatever calls and time events came before.
THEOREM SignalsCorrect == Spec => []SignalsMatchBelonging
<1>1. IInv => SignalsMatchBelonging
  BY DEF IInv
<1>. QED
  BY <1>1, Invariance, PTL

\* The second cycle of _raise is enough to make the chart stable, whoever
\* else runs cycles on it.
THEOREM RestSettled == Spec => []RestIsSettled
<1>1. IInv => RestIsSettled
  BY DEF IInv
<1>. QED
  BY <1>1, Invariance, PTL

\* Every pending state has its timer, no other state has one.
THEOREM PendingTimed == Spec => []PendingHasTimer
<1>1. IInv => PendingHasTimer
  BY DEF IInv
<1>. QED
  BY <1>1, Invariance, PTL

\* At rest no failed constituent is inside the SoS and the role is the one
\* the health asks for: it is what a stable leaf of the chart means.
LEMMA SettledIsHealthy ==
  ASSUME NEW b \in Belonging, NEW h \in HealthStates, Settled(b, h)
  PROVE  /\ b \in Inside => h # "failed"
         /\ b \in Participating =>
              (b = "restricted_role" <=> h \in {"erroneous", "malfunctioning"})
BY DEF Belonging, HealthStates, Inside, Passive, Active, Participating, Settled,
       SettledAt, Excused, React, NegotiatingReact, AvailableReact, PassiveReact,
       PendingEntryReact, FullRoleReact, RestrictedRoleReact, ParticipatingReact,
       PendingExitReact, ActiveReact

\* With no call under way no failed constituent is inside the SoS, and a role is
\* restricted exactly for the healths that call for it.
THEOREM HealthEnforced == Spec => []HealthIsEnforced
<1>1. ASSUME IInv PROVE HealthIsEnforced
  <2> SUFFICES ASSUME NEW c \in Constituents, AtRest(c)
               PROVE  /\ bel[c] \in Inside => health[c] # "failed"
                      /\ bel[c] \in Participating =>
                           (bel[c] = "restricted_role"
                              <=> health[c] \in {"erroneous", "malfunctioning"})
    BY DEF HealthIsEnforced
  <2>1. Settled(bel[c], health[c])
    BY <1>1 DEF IInv, RestIsSettled, Settled, SettledAt, Excused
  <2>. QED
    BY <1>1, <2>1, SettledIsHealthy DEF IInv, TypeOK
<1>. QED
  BY <1>1, Invariance, PTL

------------------------------------------------------------------------------
(***************************************************************************)
(* What a step may never do.                                               *)
(***************************************************************************)

\* The chart of c, as its subscribers and its timers see it, stays as it is.
Unmoved(c) == /\ bel'[c] = bel[c] /\ health'[c] = health[c]
              /\ signals'[c] = signals[c] /\ armed'[c] = armed[c]

\* A cycle that takes no transition leaves no trace.
LEMMA NoTransitionNoTrace ==
  ASSUME TypeOK, NEW c \in Constituents, NEW E, RunCycle(c, E),
         E \cap HealthEvents = {}, React(bel[c], health[c], E) = bel[c]
  PROVE  Unmoved(c)
<1>1. /\ bel'[c] = bel[c]
      /\ health'[c] = HealthReact(health[c], E)
      /\ signals'[c] = Emitted(signals[c], bel[c], bel[c])
      /\ armed'[c] = Rearmed(armed[c], bel[c], bel[c])
  BY DEF RunCycle, TypeOK
<1>2. health'[c] = health[c]
  BY <1>1, HealthKept
<1>3. Emitted(signals[c], bel[c], bel[c]) = signals[c]
  <2>1. Entered(bel[c], bel[c]) = {}
    BY DEF Entered
  <2>2. signals[c] \in Signals
    BY DEF TypeOK
  <2>. QED
    BY <2>1, <2>2 DEF Emitted, Signals
<1>4. Rearmed(armed[c], bel[c], bel[c]) = armed[c]
  BY DEF Rearmed, TypeOK
<1>. QED
  BY <1>1, <1>2, <1>3, <1>4 DEF Unmoved

\* The monitor tests allow_reconstruct long before it reports, and a timer
\* thread past its wait is not reached by unset_timer: what either brings may
\* come when the state it was for is left.  Then it finds nothing to do, unless
\* the chart is one of those that any cycle moves: between the two cycles of a
\* call, or with the full role a timer gave to a degraded constituent.
StaleEventsDoNothing == \A c \in Constituents :
  AtRest(c) /\ ~Excused(bel[c], health[c]) =>
    /\ ExceedUncertainty(c) /\ bel[c] # "restricted_role" => Unmoved(c)
    /\ \A e \in TimeEvents : TimeElapsed(c, e) /\ bel[c] # TimerOf[e] => Unmoved(c)

LEMMA StaleReaction ==
  ASSUME NEW b \in Belonging, NEW h \in HealthStates, SettledAt(b, h)
  PROVE  /\ b # "restricted_role" => React(b, h, {"uncertainty_threshold_exceeded"}) = b
         /\ \A e \in TimeEvents : b # TimerOf[e] => React(b, h, {e}) = b
<1>1. b # "restricted_role" =>
        React(b, h, {"uncertainty_threshold_exceeded"}) = React(b, h, {})
  BY DEF Belonging, React, DisengagedReact, PreparedReact, NegotiatingReact, AvailableReact,
         PassiveReact, PendingEntryReact, FullRoleReact, ParticipatingReact,
         PendingExitReact, ActiveReact
<1>2. ASSUME NEW e \in TimeEvents, b # TimerOf[e]
      PROVE  React(b, h, {e}) = React(b, h, {})
  BY <1>2 DEF Belonging, TimeEvents, TimerOf, React, DisengagedReact, PreparedReact,
         NegotiatingReact, AvailableReact, PassiveReact, PendingEntryReact, FullRoleReact,
         RestrictedRoleReact, ParticipatingReact, PendingExitReact, ActiveReact
<1>. QED
  BY <1>1, <1>2 DEF SettledAt

\* At rest, a report of uncertainty or a time event that is late for the state it
\* was meant for changes neither leaf, health, signals nor timers.
THEOREM StaleEventsHarmless == Spec => [][StaleEventsDoNothing]_vars
<1>1. IInv => StaleEventsDoNothing
  <2> SUFFICES ASSUME IInv, NEW c \in Constituents, AtRest(c), ~Excused(bel[c], health[c])
               PROVE  /\ ExceedUncertainty(c) /\ bel[c] # "restricted_role" => Unmoved(c)
                      /\ \A e \in TimeEvents :
                           TimeElapsed(c, e) /\ bel[c] # TimerOf[e] => Unmoved(c)
    BY DEF StaleEventsDoNothing
  <2>0. TypeOK /\ bel[c] \in Belonging /\ health[c] \in HealthStates
    BY DEF IInv, TypeOK
  <2>1. SettledAt(bel[c], health[c])
    BY DEF IInv, RestIsSettled, SettledAt, Excused
  <2>2. ASSUME ExceedUncertainty(c), bel[c] # "restricted_role"
        PROVE  Unmoved(c)
    <3>1. {"uncertainty_threshold_exceeded"} \cap HealthEvents = {}
      BY DEF HealthEvents
    <3>. QED
      BY <2>0, <2>1, <2>2, <3>1, StaleReaction, NoTransitionNoTrace DEF ExceedUncertainty
  <2>3. ASSUME NEW e \in TimeEvents, TimeElapsed(c, e), bel[c] # TimerOf[e]
        PROVE  Unmoved(c)
    <3>1. {e} \cap HealthEvents = {}
      BY DEF TimeEvents, HealthEvents
    <3>. QED
      BY <2>0, <2>1, <2>3, <3>1, StaleReaction, NoTransitionNoTrace DEF TimeElapsed
  <2>. QED
    BY <2>2, <2>3
<1>. QED
  BY <1>1, Invariance, PTL

\* The rung of a leaf on the ladder of Membership.
StageOfLeaf(b) == IF b \in {"disengaged", "prepared"} THEN b
                  ELSE IF b \in Passive THEN "passive" ELSE "active"

Ladder(c) == INSTANCE Membership WITH
  stage <- StageOfLeaf(bel[c]), failed <- health[c] = "failed", enforced <- TRUE

\* Each constituent climbs and descends the ladder one rung at a time, a failed
\* one does not get in, and failure alone makes it fall from active to prepared,
\* whatever its callers and its timers do to it between two cycles of a call.
OneRungAtATime == \A c \in Constituents : bel'[c] # bel[c] => Ladder(c)!Next

LEMMA ReactClimbs ==
  ASSUME NEW b \in Belonging, NEW h \in HealthStates, NEW E
  PROVE  LET s == StageOfLeaf(b)
             t == StageOfLeaf(React(b, h, E))
         IN  \/ t = s
             \/ s = "disengaged" /\ t = "prepared"
             \/ s = "prepared" /\ t = "passive" /\ h # "failed"
             \/ s = "passive" /\ t = "active"
             \/ s = "prepared" /\ t = "disengaged"
             \/ s = "passive" /\ t = "prepared"
             \/ s = "active" /\ t = "passive"
             \/ s = "active" /\ t = "prepared" /\ h = "failed"
BY DEF Belonging, StageOfLeaf, Passive, React, Role, DisengagedReact, PreparedReact,
       NegotiatingReact, AvailableReact, PassiveReact, PendingEntryReact, FullRoleReact,
       RestrictedRoleReact, ParticipatingReact, PendingExitReact, ActiveReact

LEMMA CycleClimbs ==
  ASSUME TypeOK, SignalsMatchBelonging, NEW c \in Constituents, NEW E, RunCycle(c, E)
  PROVE  OneRungAtATime
<1> SUFFICES ASSUME NEW d \in Constituents, bel'[d] # bel[d]
             PROVE  Ladder(d)!Next
  BY DEF OneRungAtATime
<1>1. d = c /\ bel'[c] = React(bel[c], health[c], E)
  BY CycleEffect
<1>2. bel[c] \in Belonging /\ health[c] \in HealthStates
  BY DEF TypeOK
<1>3. LET s == StageOfLeaf(bel[c])
          t == StageOfLeaf(bel'[c])
      IN  \/ t = s
          \/ s = "disengaged" /\ t = "prepared"
          \/ s = "prepared" /\ t = "passive" /\ health[c] # "failed"
          \/ s = "passive" /\ t = "active"
          \/ s = "prepared" /\ t = "disengaged"
          \/ s = "passive" /\ t = "prepared"
          \/ s = "active" /\ t = "passive"
          \/ s = "active" /\ t = "prepared" /\ health[c] = "failed"
  BY <1>1, <1>2, ReactClimbs
<1>. QED
  BY <1>1, <1>3 DEF Ladder!Next, Ladder!Climb, Ladder!Descend, Ladder!Evict

\* For any number of constituents, every step of Lifecycle takes each of them at
\* most one rung up or down the ladder of Membership, or evicts it for failure.
THEOREM MembershipClimbs == Spec => [][OneRungAtATime]_vars
<1>1. IInv /\ [Next]_vars => [OneRungAtATime]_vars
  <2> SUFFICES ASSUME IInv, Next PROVE OneRungAtATime
    OBVIOUS
  <2>0. TypeOK /\ SignalsMatchBelonging
    BY DEF IInv
  <2>1. bel' = bel => OneRungAtATime
    BY DEF OneRungAtATime
  <2>2. PICK c \in Constituents : \/ bel' = bel
                                  \/ \E E : RunCycle(c, E)
    BY DEF Next, Continue, Timers, Raise, Refresh, Settle, Return, Compensate,
           EmitReconstructed, ExceedUncertainty, Expire, TimeElapsed, chart
  <2>. QED
    BY <2>0, <2>1, <2>2, CycleClimbs
<1>. QED
  BY <1>1, Invariance, PTL DEF Spec

------------------------------------------------------------------------------
(***************************************************************************)
(* Navigation.                                                             *)
(***************************************************************************)

\* What the navigation needs of its constants to arrive: timers that keep their
\* time, and a few steps more than the way is long.
Ample == Punctual /\ MaxSteps > 5 /\ MaxHealthSteps > 6

------------------------------------------------------------------------------
(***************************************************************************)
(* The invariant.                                                          *)
(***************************************************************************)
NavShape == nav \in [at : NavAt, c : Constituents,
                     goal : Goals \cup HealthStates \cup {None},
                     event : MainEvents \cup {None}, before : Belonging \cup {None},
                     waits : Belonging \cup {None}, from : Belonging \cup {None},
                     steps : Nat, result : Results]

SnapshotShape == snapshot \in [Constituents -> [main : {MainOf(b) : b \in Belonging},
                                                sub : Belonging, health : HealthStates]]

Limit == IF nav.goal \in HealthStates THEN MaxHealthSteps ELSE MaxSteps

Underway == {"act", "called", "sleep", "compare"}

\* Where a navigation stands fits what it was asked for.
Navigating ==
  /\ nav.at # "idle" => nav.goal # None
  /\ nav.steps <= Limit
  /\ nav.at \in Underway => nav.steps < Limit
  /\ nav.at = "act" => nav.event # None
  /\ nav.at = "act" /\ nav.goal \in Goals => nav.event \in BelongingEvents
  /\ nav.at \in {"sleep", "compare"} => nav.goal \in Goals

\* The application's thread is in a call of the chart it navigates, or in none.
Calling == \A d \in Constituents :
  phase[d]["main"] # "idle" => nav.at = "called" /\ nav.c = d

\* How many steps of the order lie between a health and the goal.
Gap(goal, h) == IF Rank[goal] >= Rank[h] THEN Rank[goal] - Rank[h]
                                         ELSE Rank[h] - Rank[goal]

\* ensure_health comes one step closer each time.
Treating == nav.goal \in HealthStates =>
  /\ nav.at \in {"choose", "act"} => nav.steps + Gap(nav.goal, health[nav.c]) <= 6
  /\ nav.at = "act" => /\ health[nav.c] # nav.goal
                       /\ nav.event = HealthStep(nav.goal, health[nav.c])
  /\ nav.at = "called" => nav.steps + 1 + Gap(nav.goal, health[nav.c]) <= 6

Healthy  == {"ideal", "defective", "faulty"}
Pendings == {"pending_entry", "pending_exit"}

\* The leaves a healthy constituent can rest in.
Resorts == {"disengaged", "prepared", "available", "negotiating", "full_role"}

\* Outside main's calls a healthy constituent has no restricted role.
Unrestricted == \A d \in Constituents :
  phase[d]["main"] # "raised" /\ health[d] \in Healthy => bel[d] # "restricted_role"

\* Where the time event leads that ends a pending state.
Resolved(b) == CASE b = "pending_entry" -> "full_role"
                 [] b = "pending_exit"  -> "available"
                 [] OTHER               -> b

Place == [disengaged |-> 0, prepared |-> 1, available |-> 2, negotiating |-> 3,
          full_role |-> 4, participating |-> 4]

\* A bound on the steps from leaf b to the goal: one more on the way down, as a
\* role is left for Available and not for Negotiating.
Far(goal, b) == IF Place[goal] >= Place[b] THEN Place[goal] - Place[b]
                                           ELSE 1 + Place[b] - Place[goal]

Concerned == /\ nav.goal \in HealthyGoals /\ nav.from \notin Pendings
             /\ health[nav.c] \in Healthy

\* The step under way began in a leaf the goal is still to be reached from.
Setting ==
  /\ nav.before \in Resorts /\ ~Reached(nav.goal, nav.before)
  /\ nav.steps + Far(nav.goal, nav.before) <= 5

\* What the event leads to from there, and where that ends.
Onward(h) == React(nav.before, h, {Policy(nav.goal, nav.before)})

Landed == bel[nav.c] \in {Onward(health[nav.c]), Resolved(Onward(health[nav.c]))}

\* ensure_belonging comes one step closer each time.
Journey == Concerned =>
  /\ nav.at = "idle" => nav.result \in {None, "reached"}
  /\ nav.at = "choose" => /\ bel[nav.c] \in Resorts
                          /\ nav.steps + Far(nav.goal, bel[nav.c]) <= 5
  /\ nav.at \in Underway => Setting
  /\ nav.at = "act" => /\ bel[nav.c] = nav.before
                       /\ nav.event = Policy(nav.goal, nav.before)
  /\ nav.at = "called" => Landed
  /\ nav.at = "sleep" => Landed /\ nav.waits \in Pendings /\ nav.waits = Onward(health[nav.c])
  /\ nav.at = "compare" => Landed /\ bel[nav.c] \in Resorts

NavInv == NavShape /\ SnapshotShape /\ Navigating /\ Calling

GoalInv == NavInv /\ Treating /\ HealthIsReached /\ Unrestricted /\ Journey

------------------------------------------------------------------------------
(***************************************************************************)
(* What the tables say.                                                    *)
(***************************************************************************)
LEMMA PolicyType ==
  ASSUME NEW goal, NEW b
  PROVE  Policy(goal, b) # None => Policy(goal, b) \in BelongingEvents \cap MainEvents
BY DEF Policy, None, BelongingEvents, MainEvents

LEMMA HealthStepType ==
  ASSUME NEW goal, NEW h
  PROVE  HealthStep(goal, h) \in HealthEvents \cap MainEvents
BY DEF HealthStep, HealthEvents, BelongingEvents, MainEvents

LEMMA GoalsApart == Goals \cap HealthStates = {} /\ None \notin Goals \cup HealthStates
BY DEF Goals, RoleGoals, Participating, Belonging, HealthStates, None

\* Only health events change the health.
LEMMA HealthIndifferent ==
  ASSUME NEW h, NEW e, e \notin HealthEvents
  PROVE  HealthReact(h, {e}) = h
BY HealthKept

\* One step of ensure_health closes the gap by one at least.
LEMMA GapCloses ==
  ASSUME NEW goal \in HealthStates, NEW h \in HealthStates, h # goal
  PROVE  Gap(goal, HealthReact(h, {HealthStep(goal, h)})) + 1 <= Gap(goal, h)
<1>1. CASE goal = "ideal"
  BY <1>1 DEF HealthStates, HealthStep, HealthReact, Gap, Rank
<1>2. CASE goal # "ideal" /\ Rank[goal] > Rank[h]
  <2>1. HealthReact(h, {HealthStep(goal, h)}) = Worse[h]
    BY <1>2 DEF HealthStates, HealthStep, HealthReact, Rank
  <2>. QED
    BY <1>2, <2>1 DEF HealthStates, Gap, Rank, Worse
<1>3. CASE goal # "ideal" /\ ~(Rank[goal] > Rank[h])
  <2>1. HealthReact(h, {HealthStep(goal, h)}) = Better[h]
    BY <1>3 DEF HealthStates, HealthStep, HealthReact
  <2>. QED
    BY <1>3, <2>1 DEF HealthStates, Gap, Rank, Better
<1>. QED
  BY <1>1, <1>2, <1>3

LEMMA GapBounded ==
  ASSUME NEW goal \in HealthStates, NEW h \in HealthStates
  PROVE  Gap(goal, h) \in 0..6
BY DEF HealthStates, Gap, Rank

\* A healthy constituent never takes the restricted role.
LEMMA RoleIsFull ==
  ASSUME NEW b \in Belonging, NEW h \in Healthy, NEW E
  PROVE  React(b, h, E) # "restricted_role"
BY DEF Belonging, Healthy, React, Role, DisengagedReact, PreparedReact,
       NegotiatingReact, AvailableReact, PassiveReact, PendingEntryReact, FullRoleReact,
       RestrictedRoleReact, ParticipatingReact, PendingExitReact, ActiveReact

\* What others do to a healthy constituent: nothing, or to end a pending state.
Calm == {{}, {"entry_delay"}, {"exit_delay"}, {"uncertainty_threshold_exceeded"}}

LEMMA Drift ==
  ASSUME NEW b \in Resorts \cup Pendings, NEW h \in Healthy, NEW E \in Calm
  PROVE  React(b, h, E) \in {b, Resolved(b)}
BY DEF Resorts, Pendings, Healthy, Calm, Resolved, React, Role, DisengagedReact,
       PreparedReact, NegotiatingReact, AvailableReact, PassiveReact, PendingEntryReact,
       FullRoleReact, ParticipatingReact, PendingExitReact, ActiveReact

\* One step of ensure_belonging: the policy knows an event, and where that
\* leads in the end is another leaf, closer to the goal.
LEMMA FarCloses ==
  ASSUME NEW goal \in HealthyGoals, NEW b \in Resorts, NEW h \in Healthy,
         ~Reached(goal, b)
  PROVE  LET f == React(b, h, {Policy(goal, b)})
         IN  /\ Policy(goal, b) # None
             /\ f \in Resorts \cup Pendings
             /\ Resolved(f) \in Resorts \ {b}
             /\ Far(goal, Resolved(f)) + 1 <= Far(goal, b)
<1> USE DEF Resolved, None, HealthyGoals, Reached, Policy, RoleGoals, Active, Participating,
            Passive
<1>1. CASE b = "disengaged"
  BY <1>1 DEF React, DisengagedReact, Far, Place, Resorts
<1>2. CASE b = "prepared"
  BY <1>2 DEF React, PreparedReact, Healthy, Far, Place, Resorts
<1>3. CASE b = "available"
  BY <1>3 DEF React, AvailableReact, PassiveReact, Healthy, Far, Place, Resorts
<1>4. CASE b = "negotiating"
  BY <1>4 DEF React, NegotiatingReact, PassiveReact, Healthy, Far, Place, Resorts, Pendings
<1>5. CASE b = "full_role"
  BY <1>5 DEF React, FullRoleReact, ParticipatingReact, Healthy, Far, Place, Resorts,
              Pendings
<1>. QED
  BY <1>1, <1>2, <1>3, <1>4, <1>5 DEF Resorts

LEMMA FarBounded ==
  ASSUME NEW goal \in HealthyGoals, NEW b \in Resorts
  PROVE  Far(goal, b) \in 0..5
BY DEF HealthyGoals, Resorts, Far, Place

LEMMA LeavesSorted ==
  /\ Belonging = Resorts \cup Pendings \cup {"restricted_role"}
  /\ Resorts \cap Pendings = {}
  /\ HealthyGoals \subseteq Goals
BY DEF Belonging, Resorts, Pendings, HealthyGoals, Goals, RoleGoals

------------------------------------------------------------------------------
(***************************************************************************)
(* The steps of the navigation, field by field.                            *)
(***************************************************************************)
Same(fields) ==
  /\ "c" \in fields => nav'.c = nav.c
  /\ "goal" \in fields => nav'.goal = nav.goal
  /\ "event" \in fields => nav'.event = nav.event
  /\ "before" \in fields => nav'.before = nav.before
  /\ "waits" \in fields => nav'.waits = nav.waits
  /\ "from" \in fields => nav'.from = nav.from
  /\ "steps" \in fields => nav'.steps = nav.steps
  /\ "result" \in fields => nav'.result = nav.result

LEMMA BeginFields ==
  ASSUME NavShape, NEW c \in Constituents, NEW goal \in Goals \cup HealthStates,
         bel[c] \in Belonging, Begin(c, goal)
  PROVE  /\ NavShape' /\ nav'.at = "choose" /\ nav'.c = c /\ nav'.goal = goal
         /\ nav'.steps = 0 /\ nav'.from = bel[c] /\ nav'.result = None
BY DEF NavShape, Begin, NavAt, Results

LEMMA EndFields ==
  ASSUME NavShape, NEW result \in Results, End(result)
  PROVE  /\ NavShape' /\ nav'.at = "idle" /\ nav'.result = result
         /\ Same({"c", "goal", "from", "steps"})
BY DEF NavShape, End, NavAt, Same

LEMMA ChosenFields ==
  ASSUME NavShape, NEW event \in MainEvents, NEW b \in Belonging,
         nav' = [nav EXCEPT !.at = "act", !.event = event, !.before = b]
  PROVE  /\ NavShape' /\ nav'.at = "act" /\ nav'.event = event /\ nav'.before = b
         /\ Same({"c", "goal", "waits", "from", "steps", "result"})
BY DEF NavShape, NavAt, Same

LEMMA MovedFields ==
  ASSUME NavShape, NEW at \in NavAt, nav' = [nav EXCEPT !.at = at]
  PROVE  /\ NavShape' /\ nav'.at = at
         /\ Same({"c", "goal", "event", "before", "waits", "from", "steps", "result"})
BY DEF NavShape, NavAt, Same

LEMMA CountedFields ==
  ASSUME NavShape, nav' = [nav EXCEPT !.at = "choose", !.steps = @ + 1]
  PROVE  /\ NavShape' /\ nav'.at = "choose" /\ nav'.steps = nav.steps + 1
         /\ Same({"c", "goal", "event", "before", "waits", "from", "result"})
<1>1. nav.steps + 1 \in Nat
  BY DEF NavShape
<1>2. nav' = [nav EXCEPT !.at = "choose", !.steps = nav.steps + 1]
  OBVIOUS
<1> DEFINE n == nav.steps + 1
<1>3. n \in Nat /\ nav' = [nav EXCEPT !.at = "choose", !.steps = n]
  BY <1>1, <1>2
<1> HIDE DEF n
<1>4. /\ NavShape' /\ nav'.at = "choose" /\ nav'.steps = n
      /\ Same({"c", "goal", "event", "before", "waits", "from", "result"})
  BY <1>3 DEF NavShape, NavAt, Same
<1>. QED
  BY <1>4 DEF n

LEMMA WaitingFields ==
  ASSUME NavShape, NEW at \in NavAt, NEW b \in Belonging,
         nav' = [nav EXCEPT !.at = at, !.waits = b]
  PROVE  /\ NavShape' /\ nav'.at = at /\ nav'.waits = b
         /\ Same({"c", "goal", "event", "before", "from", "steps", "result"})
BY DEF NavShape, NavAt, Same

LEMMA SnapshotUpdated ==
  ASSUME TypeOK, SnapshotShape, NEW c \in Constituents, UpdateSnapshot(c)
  PROVE  SnapshotShape'
<1>1. Current(c) \in [main : {MainOf(b) : b \in Belonging}, sub : Belonging,
                      health : HealthStates]
  BY DEF TypeOK, Current
<1>. QED
  BY <1>1 DEF SnapshotShape, UpdateSnapshot

------------------------------------------------------------------------------
(***************************************************************************)
(* The navigation implements Lifecycle, and keeps its own types.           *)
(***************************************************************************)
LEMMA NavInitInv == NavInit => Init /\ NavInv
<1> SUFFICES ASSUME NavInit PROVE NavInv
  BY DEF NavInit
<1>1. TypeOK
  BY InitIInv DEF NavInit, IInv
<1>2. PICK c \in Constituents :
        nav = [at |-> "idle", c |-> c, goal |-> None, event |-> None, before |-> None,
               waits |-> None, from |-> None, steps |-> 0, result |-> None]
  BY DEF NavInit
<1>3. NavShape
  BY <1>2 DEF NavShape, NavAt, Results
<1>4. SnapshotShape
  <2>1. \A d \in Constituents :
          Current(d) \in [main : {MainOf(b) : b \in Belonging}, sub : Belonging,
                          health : HealthStates]
    BY <1>1 DEF TypeOK, Current
  <2>. QED
    BY <2>1 DEF NavInit, SnapshotShape
<1>5. Navigating
  BY <1>2, GoalsApart, StepsAssumption DEF Navigating, Limit, Underway
<1>6. Calling
  BY DEF NavInit, Init, Calling, Callers
<1>. QED
  BY <1>3, <1>4, <1>5, <1>6 DEF NavInv

LEMMA NavImplements ==
  ASSUME NavInv, [NavNext]_navVars
  PROVE  [Next]_vars
<1> USE DEF Callers
<1>1. ASSUME NEW c \in Constituents, Act(c) PROVE Next
  <2>1. nav.event \in MainEvents
    BY <1>1 DEF Act, At, NavInv, NavShape, Navigating
  <2>. QED
    BY <1>1, <2>1 DEF Act, Next
<1>2. ASSUME NEW c \in Constituents, NEW p \in Callers, Proceed(c, p) PROVE Next
  BY <1>2 DEF Proceed, Next, Continue
<1>3. ASSUME NEW c \in Constituents, Environment(c) PROVE Next
  BY <1>3 DEF Environment, Next
<1>4. ASSUME NEW c \in Constituents, Navigate(c), ~Act(c) PROVE UNCHANGED vars
  BY <1>4 DEF Navigate, ChooseBelonging, ChooseHealth, Await, Wake, Compare
<1>5. ASSUME NEW c \in Constituents, NEW goal, SetBelonging(c, goal) \/ SetHealth(c, goal)
      PROVE  UNCHANGED vars
  BY <1>5 DEF SetBelonging, SetHealth, Begin
<1>. QED
  BY <1>1, <1>2, <1>3, <1>4, <1>5 DEF NavNext, navVars

\* The steps of main that leave the charts alone.
LEMMA NavigateKeeps ==
  ASSUME TypeOK, NavInv, NEW c \in Constituents, Navigate(c), ~Act(c)
  PROVE  NavInv'
<1> USE DEF NavInv
<1>1. bel[c] \in Belonging /\ health[c] \in HealthStates /\ nav.steps \in Nat
      /\ nav.goal \in Goals \cup HealthStates \cup {None}
      /\ MaxSteps \in Nat /\ MaxHealthSteps \in Nat
  BY StepsAssumption DEF TypeOK, NavShape
<1>2. UNCHANGED vars
  BY DEF Navigate, ChooseBelonging, ChooseHealth, Await, Wake, Compare
<1>3. SnapshotShape'
  BY SnapshotUpdated DEF Navigate, ChooseBelonging, ChooseHealth, Await, Wake, Compare,
                         SnapshotShape
<1>4. CASE ChooseBelonging(c)
  <2>1. CASE \E result \in {"exhausted", "reached", "refused"} : End(result)
    <3>1. PICK result \in {"exhausted", "reached", "refused"} : End(result)
      BY <2>1
    <3>2. /\ NavShape' /\ nav'.at = "idle" /\ Same({"c", "goal", "from", "steps"})
      BY <3>1, EndFields DEF Results
    <3>3. Navigating' /\ Calling'
      BY <1>2, <1>4, <3>2
      DEF ChooseBelonging, At, Navigating, Calling, Same, Limit, Underway, vars
    <3>. QED
      BY <1>3, <3>2, <3>3
  <2>2. CASE /\ nav.steps < MaxSteps /\ Policy(nav.goal, bel[c]) # None
             /\ nav' = [nav EXCEPT !.at = "act", !.event = Policy(nav.goal, bel[c]),
                                   !.before = bel[c]]
    <3>1. Policy(nav.goal, bel[c]) \in BelongingEvents \cap MainEvents
      BY <2>2, PolicyType
    <3>2. /\ NavShape' /\ nav'.at = "act" /\ nav'.event = Policy(nav.goal, bel[c])
          /\ Same({"c", "goal", "waits", "from", "steps", "result"})
      BY <1>1, <2>2, <3>1, ChosenFields
    <3>3. nav.goal \in Goals /\ nav.goal \notin HealthStates /\ nav.at = "choose"
      BY <1>4, GoalsApart DEF ChooseBelonging, At
    <3>4. Navigating' /\ Calling'
      BY <1>1, <1>2, <2>2, <3>1, <3>2, <3>3, GoalsApart
      DEF Navigating, Calling, Same, Limit, Underway, vars, At
    <3>. QED
      BY <1>3, <3>2, <3>4
  <2>. QED
    BY <1>4, <2>1, <2>2 DEF ChooseBelonging
<1>5. CASE ChooseHealth(c)
  <2>1. CASE \E result \in {"error", "reached"} : End(result)
    <3>1. PICK result \in {"error", "reached"} : End(result)
      BY <2>1
    <3>2. /\ NavShape' /\ nav'.at = "idle" /\ Same({"c", "goal", "from", "steps"})
      BY <3>1, EndFields DEF Results
    <3>3. Navigating' /\ Calling'
      BY <1>2, <1>5, <3>2
      DEF ChooseHealth, At, Navigating, Calling, Same, Limit, Underway, vars
    <3>. QED
      BY <1>3, <3>2, <3>3
  <2>2. CASE /\ nav.steps < MaxHealthSteps
             /\ nav' = [nav EXCEPT !.at = "act", !.event = HealthStep(nav.goal, health[c]),
                                   !.before = bel[c]]
    <3>1. /\ NavShape' /\ nav'.at = "act" /\ nav'.event = HealthStep(nav.goal, health[c])
          /\ Same({"c", "goal", "waits", "from", "steps", "result"})
      BY <1>1, <2>2, HealthStepType, ChosenFields
    <3>2. nav'.event # None
      BY <3>1, HealthStepType DEF HealthEvents, None
    <3>3. nav.goal \in HealthStates /\ nav.goal \notin Goals /\ nav.at = "choose"
      BY <1>5, GoalsApart DEF ChooseHealth, At
    <3>4. Navigating' /\ Calling'
      BY <1>1, <1>2, <2>2, <3>1, <3>2, <3>3, GoalsApart
      DEF Navigating, Calling, Same, Limit, Underway, vars
    <3>. QED
      BY <1>3, <3>1, <3>4
  <2>. QED
    BY <1>5, <2>1, <2>2 DEF ChooseHealth
<1>6. CASE Await(c)
  <2>1. nav.at = "called" /\ nav.c = c /\ phase[c]["main"] = "idle"
    BY <1>6 DEF Await, At
  <2>2. Calling'
    BY <1>2, <2>1 DEF Calling, vars
  <2>3. CASE nav.goal \in HealthStates
    <3>1. /\ NavShape' /\ nav'.at = "choose" /\ nav'.steps = nav.steps + 1
          /\ nav'.goal = nav.goal
      BY <1>6, <2>3, CountedFields DEF Await, Same
    <3>2. Navigating'
      BY <1>1, <2>1, <3>1 DEF Navigating, Limit, Underway
    <3>. QED
      BY <1>3, <2>2, <3>1, <3>2
  <2>4. CASE nav.goal \notin HealthStates
    <3>1. PICK at \in {"sleep", "compare"} : nav' = [nav EXCEPT !.at = at, !.waits = bel[c]]
      BY <1>6, <2>4 DEF Await
    <3>2. /\ NavShape' /\ nav'.at = at /\ nav'.steps = nav.steps /\ nav'.goal = nav.goal
      BY <1>1, <3>1, WaitingFields DEF Same, NavAt
    <3>3. Navigating'
      BY <1>1, <2>1, <2>4, <3>2 DEF Navigating, Limit, Underway
    <3>. QED
      BY <1>3, <2>2, <3>2, <3>3
  <2>. QED
    BY <2>3, <2>4
<1>7. CASE Wake(c)
  <2>1. nav.at = "sleep" /\ nav.c = c
    BY <1>7 DEF Wake, At
  <2>2. /\ NavShape' /\ nav'.at = "compare" /\ nav'.steps = nav.steps
        /\ nav'.goal = nav.goal
    BY <1>7, MovedFields DEF Wake, Same, NavAt
  <2>3. Navigating' /\ Calling'
    BY <1>2, <2>1, <2>2 DEF Navigating, Calling, Limit, Underway, vars
  <2>. QED
    BY <1>3, <2>2, <2>3
<1>8. CASE Compare(c)
  <2>1. nav.at = "compare" /\ nav.c = c
    BY <1>8 DEF Compare, At
  <2>2. CASE bel[c] = nav.before
    <3>1. /\ NavShape' /\ nav'.at = "idle" /\ Same({"c", "goal", "from", "steps"})
      BY <1>8, <2>2, EndFields DEF Compare, Results
    <3>2. Navigating' /\ Calling'
      BY <1>2, <2>1, <3>1 DEF Navigating, Calling, Same, Limit, Underway, vars
    <3>. QED
      BY <1>3, <3>1, <3>2
  <2>3. CASE bel[c] # nav.before
    <3>1. /\ NavShape' /\ nav'.at = "choose" /\ nav'.steps = nav.steps + 1
          /\ nav'.goal = nav.goal
      BY <1>8, <2>3, CountedFields DEF Compare, Same
    <3>2. Navigating' /\ Calling'
      BY <1>1, <1>2, <2>1, <3>1 DEF Navigating, Calling, Limit, Underway, vars
    <3>. QED
      BY <1>3, <3>1, <3>2
  <2>. QED
    BY <2>2, <2>3
<1>. QED
  BY <1>4, <1>5, <1>6, <1>7, <1>8 DEF Navigate

LEMMA NavStep ==
  ASSUME IInv, NavInv, [NavNext]_navVars
  PROVE  IInv' /\ NavInv'
<1> USE DEF Callers
<1>1. TypeOK /\ IInv' /\ TypeOK'
  BY NavImplements, StepIInv DEF IInv
<1>2. ASSUME NEW c \in Constituents, NEW goal \in Goals \cup HealthStates,
             SetBelonging(c, goal) \/ SetHealth(c, goal)
      PROVE  NavInv'
  <2>1. Begin(c, goal) /\ bel[c] \in Belonging
    BY <1>1, <1>2 DEF SetBelonging, SetHealth, TypeOK
  <2>2. /\ NavShape' /\ nav'.at = "choose" /\ nav'.goal = goal /\ nav'.steps = 0
    BY <2>1, BeginFields DEF NavInv
  <2>3. UNCHANGED <<vars, snapshot>> /\ nav.at = "idle"
    BY <2>1 DEF Begin, At
  <2>4. Navigating' /\ Calling'
    BY <2>2, <2>3, GoalsApart, StepsAssumption
    DEF NavInv, Navigating, Calling, Limit, Underway, vars
  <2>. QED
    BY <2>2, <2>3, <2>4 DEF NavInv, SnapshotShape
<1>3. ASSUME NEW c \in Constituents, Navigate(c), ~Act(c) PROVE NavInv'
  BY <1>1, <1>3, NavigateKeeps
<1>4. ASSUME NEW c \in Constituents, Act(c) PROVE NavInv'
  <2>1. /\ nav.at = "act" /\ nav.c = c /\ UNCHANGED snapshot
        /\ nav' = [nav EXCEPT !.at = "called"]
        /\ Goto(c, "main", "idle", "raised")
    BY <1>4 DEF Act, At, Raise
  <2>2. /\ NavShape' /\ nav'.at = "called" /\ nav'.steps = nav.steps
        /\ nav'.goal = nav.goal /\ nav'.c = c
    BY <2>1, MovedFields DEF NavInv, Same, NavAt
  <2>3. Navigating'
    BY <2>1, <2>2 DEF NavInv, Navigating, Limit, Underway
  <2>4. Calling'
    BY <1>1, <2>1, <2>2 DEF NavInv, Calling, Goto, TypeOK
  <2>. QED
    BY <2>1, <2>2, <2>3, <2>4 DEF NavInv, SnapshotShape
<1>5. ASSUME NEW c \in Constituents, NEW p \in Callers, Proceed(c, p) PROVE NavInv'
  <2>1. SnapshotShape'
    BY <1>1, <1>5, SnapshotUpdated DEF Proceed, NavInv, SnapshotShape
  <2>2. UNCHANGED nav /\ \E from \in {"raised", "settled"}, to \in Phases : Goto(c, p, from, to)
    BY <1>5 DEF Proceed, Settle, Return, Phases
  <2>3. Calling'
    BY <1>1, <2>2 DEF NavInv, Calling, Goto, TypeOK
  <2>. QED
    BY <2>1, <2>2, <2>3 DEF NavInv, NavShape, Navigating, Limit, Underway
<1>6. ASSUME NEW c \in Constituents, Environment(c) PROVE NavInv'
  <2>1. UNCHANGED <<nav, snapshot>>
    BY <1>6 DEF Environment
  <2>2. \A d \in Constituents : phase'[d]["main"] = phase[d]["main"]
    <3>1. \/ UNCHANGED phase
          \/ \E from, to \in Phases : Goto(c, "monitor", from, to)
      BY <1>6 DEF Environment, Compensate, EmitReconstructed, ExceedUncertainty, Timers,
                  Expire, TimeElapsed, Phases
    <3>2. phase \in [Constituents -> [Callers -> Phases]]
      BY <1>1 DEF TypeOK
    <3>. QED
      BY <3>1, <3>2 DEF Goto
  <2>. QED
    BY <2>1, <2>2 DEF NavInv, NavShape, SnapshotShape, Navigating, Limit, Underway, Calling
<1>7. CASE UNCHANGED navVars
  BY <1>1, <1>7 DEF navVars, vars, NavInv, NavShape, SnapshotShape, Navigating, Limit, Underway,
              Calling
<1>. QED
  BY <1>1, <1>2, <1>3, <1>4, <1>5, <1>6, <1>7 DEF NavNext

LEMMA NavInvariance == NavSpec => [](IInv /\ NavInv)
<1>1. NavInit => IInv /\ NavInv
  BY NavInitInv, InitIInv
<1>2. IInv /\ NavInv /\ [NavNext]_navVars => (IInv /\ NavInv)'
  BY NavStep
<1>. QED
  BY <1>1, <1>2, PTL DEF NavSpec

\* The program counter of a navigation and the snapshot keep their types, and
\* the steps their limit, for any number of constituents.
THEOREM NavTyped == NavSpec => []NavTypeOK
<1>1. IInv /\ NavInv => NavTypeOK
  <2> SUFFICES ASSUME IInv, NavInv PROVE NavTypeOK
    OBVIOUS
  <2>1. /\ nav.at \in NavAt /\ nav.c \in Constituents
        /\ nav.goal \in Goals \cup HealthStates \cup {None}
        /\ nav.event \in MainEvents \cup {None} /\ nav.before \in Belonging \cup {None}
        /\ nav.waits \in Belonging \cup {None} /\ nav.from \in Belonging \cup {None}
        /\ nav.steps \in Nat /\ nav.result \in Results
    BY DEF NavInv, NavShape
  <2>2. nav.steps \in 0..(IF MaxSteps > MaxHealthSteps THEN MaxSteps ELSE MaxHealthSteps)
    BY <2>1, StepsAssumption DEF NavInv, Navigating, Limit
  <2>. QED
    BY <2>1, <2>2 DEF NavTypeOK, IInv, NavInv, SnapshotShape
<1>. QED
  BY <1>1, NavInvariance, PTL

\* Refinement: whatever it is asked for, the navigation only makes calls that
\* Lifecycle allows, so that the theorems about Lifecycle hold of its charts.
THEOREM NavigationFits == NavSpec => ImplementsLifecycle
<1>1. NavInit => Init
  BY DEF NavInit
<1>2. IInv /\ NavInv /\ [NavNext]_navVars => [Next]_vars
  BY NavImplements
<1>. QED
  BY <1>1, <1>2, NavInvariance, PTL DEF NavSpec, ImplementsLifecycle, Spec

------------------------------------------------------------------------------
(***************************************************************************)
(* The navigation arrives.                                                 *)
(***************************************************************************)
LEMMA GoalInit == NavInit => GoalInv
<1> SUFFICES ASSUME NavInit PROVE GoalInv
  OBVIOUS
<1>1. NavInv
  BY NavInitInv
<1>2. nav.at = "idle" /\ nav.goal = None /\ nav.result = None
  BY DEF NavInit
<1>3. Treating /\ HealthIsReached /\ Journey
  BY <1>2, GoalsApart, LeavesSorted DEF Treating, HealthIsReached, Journey, Concerned, None
<1>4. Unrestricted
  BY DEF NavInit, Init, Unrestricted
<1>. QED
  BY <1>1, <1>3, <1>4 DEF GoalInv

\* The step under way, for a healthy constituent.
LEMMA OnwardLeads ==
  ASSUME NEW h \in Healthy, Setting, nav.goal \in HealthyGoals
  PROVE  /\ Onward(h) \in Resorts \cup Pendings
         /\ Resolved(Onward(h)) \in Resorts \ {nav.before}
         /\ Far(nav.goal, Resolved(Onward(h))) + 1 <= Far(nav.goal, nav.before)
BY FarCloses DEF Setting, Onward

LEMMA ResolvedStays ==
  /\ \A b \in Resorts : Resolved(b) = b
  /\ \A b : Resolved(Resolved(b)) = Resolved(b)
  /\ \A b \in Pendings : Resolved(b) \notin Pendings
BY DEF Resolved, Resorts, Pendings

\* What the timers, the monitor and the second cycle do to a chart.
Outside(d) ==
  /\ health'[d] = health[d]
  /\ \/ /\ bel'[d] = bel[d]
        /\ phase'[d]["main"] # "raised" => phase[d]["main"] # "raised"
     \/ \E E \in Calm : bel'[d] = React(bel[d], health[d], E)

LEMMA CalmCycle ==
  ASSUME IInv, NEW c \in Constituents, NEW E \in Calm, RunCycle(c, E),
         \A d \in Constituents : d # c => phase'[d] = phase[d]
  PROVE  \A d \in Constituents : Outside(d)
<1>1. /\ bel'[c] = React(bel[c], health[c], E) /\ health'[c] = HealthReact(health[c], E)
      /\ \A d \in Constituents : d # c => bel'[d] = bel[d] /\ health'[d] = health[d]
  BY CycleEffect DEF IInv
<1>2. E \cap HealthEvents = {}
  BY DEF Calm, HealthEvents
<1>3. health'[c] = health[c]
  BY <1>1, <1>2, HealthKept
<1>. QED
  BY <1>1, <1>3 DEF Outside

LEMMA OutsideSteps ==
  ASSUME IInv, NEW c \in Constituents,
         (\E p \in Callers : Proceed(c, p)) \/ Environment(c)
  PROVE  UNCHANGED nav /\ \A d \in Constituents : Outside(d)
<1>0. TypeOK
  BY DEF IInv
<1>1. UNCHANGED nav
  BY DEF Proceed, Environment
<1>2. ASSUME NEW p \in Callers, NEW from, NEW to, Goto(c, p, from, to)
      PROVE  \A d \in Constituents : d # c => phase'[d] = phase[d]
  BY <1>0, <1>2 DEF Goto, TypeOK
<1>3. ASSUME NEW p \in Callers, NEW from, NEW to, to # "raised", from # "raised",
             Goto(c, p, from, to), UNCHANGED <<bel, health>>
      PROVE  \A d \in Constituents : Outside(d)
  BY <1>0, <1>3 DEF Goto, TypeOK, Outside, Callers
<1>4. ASSUME NEW p \in Callers, Settle(c, p) PROVE \A d \in Constituents : Outside(d)
  BY <1>2, <1>4, CalmCycle DEF Settle, Calm
<1>5. ASSUME NEW p \in Callers, Return(c, p) PROVE \A d \in Constituents : Outside(d)
  BY <1>3, <1>5 DEF Return, chart
<1>6. ASSUME Compensate(c) \/ EmitReconstructed(c)
      PROVE  \A d \in Constituents : Outside(d)
  BY <1>3, <1>6 DEF Compensate, EmitReconstructed, chart, Callers
<1>7. ASSUME ExceedUncertainty(c) PROVE \A d \in Constituents : Outside(d)
  BY <1>2, <1>7, CalmCycle DEF ExceedUncertainty, Calm, Callers
<1>8. ASSUME NEW e \in TimeEvents, TimeElapsed(c, e)
      PROVE  \A d \in Constituents : Outside(d)
  BY <1>8, CalmCycle DEF TimeElapsed, Calm, TimeEvents
<1>9. ASSUME NEW e \in TimeEvents, Expire(c, e) PROVE \A d \in Constituents : Outside(d)
  BY <1>9 DEF Expire, Outside
<1>. QED
  BY <1>1, <1>4, <1>5, <1>6, <1>7, <1>8, <1>9 DEF Proceed, Environment, Timers

LEMMA OutsideKeeps ==
  ASSUME IInv, GoalInv, UNCHANGED nav, \A d \in Constituents : Outside(d)
  PROVE  Treating' /\ HealthIsReached' /\ Unrestricted' /\ Journey'
<1>1. /\ nav.c \in Constituents /\ health'[nav.c] = health[nav.c]
      /\ bel \in [Constituents -> Belonging] /\ health \in [Constituents -> HealthStates]
  BY DEF GoalInv, NavInv, NavShape, Outside, IInv, TypeOK
<1>2. Treating' /\ HealthIsReached'
  BY <1>1 DEF GoalInv, Treating, HealthIsReached
<1>3. Unrestricted'
  <2> SUFFICES ASSUME NEW d \in Constituents, phase'[d]["main"] # "raised",
                      health'[d] \in Healthy
               PROVE  bel'[d] # "restricted_role"
    BY DEF Unrestricted
  <2>1. CASE bel'[d] = bel[d] /\ (phase'[d]["main"] # "raised" => phase[d]["main"] # "raised")
    BY <2>1 DEF GoalInv, Unrestricted, Outside
  <2>2. CASE \E E \in Calm : bel'[d] = React(bel[d], health[d], E)
    BY <1>1, <2>2, RoleIsFull DEF Outside
  <2>. QED
    BY <2>1, <2>2 DEF Outside
<1>4. Journey'
  <2> SUFFICES ASSUME Concerned' PROVE Journey'
    BY DEF Journey
  <2>1. Concerned /\ health[nav.c] \in Healthy /\ nav.goal \in HealthyGoals
    BY <1>1 DEF Concerned
  <2>2. bel[nav.c] \in Resorts \cup Pendings => bel'[nav.c] \in {bel[nav.c], Resolved(bel[nav.c])}
    BY <1>1, <2>1, Drift DEF Outside
  <2>3. bel[nav.c] \in Resorts => bel'[nav.c] = bel[nav.c]
    BY <2>2, ResolvedStays
  <2>4. ASSUME Setting, Landed PROVE Landed'
    <3>1. /\ Onward(health[nav.c]) \in Resorts \cup Pendings
          /\ Resolved(Onward(health[nav.c])) \in Resorts
      BY <2>1, <2>4, OnwardLeads
    <3>2. Onward(health[nav.c])' = Onward(health[nav.c])
      BY <1>1 DEF Onward
    <3>. QED
      BY <2>2, <2>4, <3>1, <3>2, <1>1, ResolvedStays DEF Landed
  <2>. QED
    BY <1>1, <2>1, <2>3, <2>4 DEF GoalInv, Journey, Setting, Underway, Onward
<1>. QED
  BY <1>2, <1>3, <1>4

LEMMA ActKeeps ==
  ASSUME IInv, GoalInv, NEW c \in Constituents, Act(c)
  PROVE  Treating' /\ HealthIsReached' /\ Unrestricted' /\ Journey'
<1>1. /\ nav.at = "act" /\ nav.c = c /\ nav' = [nav EXCEPT !.at = "called"]
      /\ Goto(c, "main", "idle", "raised") /\ RunCycle(c, {nav.event})
  BY DEF Act, At, Raise
<1>2. /\ nav'.at = "called"
      /\ Same({"c", "goal", "event", "before", "waits", "from", "steps", "result"})
  BY <1>1, MovedFields DEF GoalInv, NavInv, NavAt
<1>3. /\ bel'[c] = React(bel[c], health[c], {nav.event})
      /\ health'[c] = HealthReact(health[c], {nav.event})
      /\ \A d \in Constituents : d # c => bel'[d] = bel[d] /\ health'[d] = health[d]
      /\ health[c] \in HealthStates /\ nav.steps \in Nat
  BY <1>1, CycleEffect DEF IInv, TypeOK, GoalInv, NavInv, NavShape
<1>4. Treating'
  <2> SUFFICES ASSUME nav.goal \in HealthStates
               PROVE  nav.steps + 1 + Gap(nav.goal, health'[c]) <= 6
    BY <1>1, <1>2 DEF Treating, Same
  <2>1. /\ nav.steps + Gap(nav.goal, health[c]) <= 6 /\ health[c] # nav.goal
        /\ nav.event = HealthStep(nav.goal, health[c])
    BY <1>1 DEF GoalInv, Treating
  <2>2. Gap(nav.goal, health'[c]) + 1 <= Gap(nav.goal, health[c])
    BY <1>3, <2>1, GapCloses
  <2>3. /\ health'[c] \in HealthStates
        /\ Gap(nav.goal, health'[c]) \in 0..6 /\ Gap(nav.goal, health[c]) \in 0..6
    BY <1>3, HealthReactType, GapBounded
  <2>. QED
    BY <1>3, <2>1, <2>2, <2>3
<1>5. HealthIsReached'
  BY <1>2 DEF GoalInv, HealthIsReached, Same
<1>6. Unrestricted'
  <2>1. phase'[c]["main"] = "raised" /\ \A d \in Constituents : d # c => phase'[d] = phase[d]
    BY <1>1 DEF IInv, TypeOK, Goto, Callers
  <2>. QED
    BY <1>3, <2>1 DEF GoalInv, Unrestricted
<1>7. Journey'
  <2> SUFFICES ASSUME Concerned' PROVE Setting' /\ Landed'
    BY <1>2 DEF Journey, Underway
  <2>1. nav.goal \in HealthyGoals /\ nav.from \notin Pendings
    BY <1>2 DEF Concerned, Same
  <2>2. nav.event \in BelongingEvents
    BY <1>1, <2>1, LeavesSorted DEF GoalInv, NavInv, Navigating
  <2>3. nav.event \notin HealthEvents
    BY <2>2 DEF BelongingEvents, HealthEvents
  <2>4. health'[c] = health[c]
    BY <1>3, <2>3, HealthIndifferent
  <2>5. Concerned
    BY <1>1, <1>2, <2>1, <2>4 DEF Concerned, Same
  <2>6. Setting /\ bel[c] = nav.before /\ nav.event = Policy(nav.goal, nav.before)
    BY <1>1, <2>5 DEF GoalInv, Journey, Underway
  <2>7. Setting'
    BY <1>2, <2>6 DEF Setting, Same
  <2>8. Landed'
    BY <1>1, <1>2, <1>3, <2>4, <2>6 DEF Landed, Onward, Same
  <2>. QED
    BY <2>7, <2>8
<1>. QED
  BY <1>4, <1>5, <1>6, <1>7

LEMMA BeginKeeps ==
  ASSUME IInv, GoalInv, NEW c \in Constituents, NEW goal \in Goals \cup HealthStates,
         Begin(c, goal)
  PROVE  Treating' /\ HealthIsReached' /\ Unrestricted' /\ Journey'
<1>1. /\ bel[c] \in Belonging /\ health[c] \in HealthStates
      /\ nav.at = "idle" /\ UNCHANGED <<bel, health, phase>>
  BY DEF IInv, TypeOK, Begin, At, vars
<1>2. /\ nav'.at = "choose" /\ nav'.c = c /\ nav'.goal = goal
      /\ nav'.steps = 0 /\ nav'.from = bel[c] /\ nav'.result = None
  BY <1>1, BeginFields DEF GoalInv, NavInv
<1>3. Treating'
  <2>1. goal \in HealthStates => Gap(goal, health[c]) \in 0..6
    BY <1>1, GapBounded
  <2>. QED
    BY <1>1, <1>2, <2>1 DEF Treating
<1>4. HealthIsReached' /\ Unrestricted'
  BY <1>1, <1>2 DEF GoalInv, HealthIsReached, Unrestricted, None
<1>5. Journey'
  <2> SUFFICES ASSUME Concerned'
               PROVE  bel[c] \in Resorts /\ Far(goal, bel[c]) <= 5
    BY <1>1, <1>2, FarBounded DEF Journey, Underway, Concerned
  <2>1. goal \in HealthyGoals /\ bel[c] \notin Pendings /\ health[c] \in Healthy
    BY <1>1, <1>2 DEF Concerned
  <2>2. bel[c] # "restricted_role"
    BY <1>1, <2>1 DEF GoalInv, NavInv, Calling, Unrestricted
  <2>3. bel[c] \in Resorts
    BY <1>1, <2>1, <2>2, LeavesSorted
  <2>. QED
    BY <2>1, <2>3, FarBounded
<1>. QED
  BY <1>3, <1>4, <1>5

\* The heads of the two loops.
LEMMA ChooseBelongingKeeps ==
  ASSUME Ample, IInv, GoalInv, NEW c \in Constituents, ChooseBelonging(c)
  PROVE  Treating' /\ HealthIsReached' /\ Unrestricted' /\ Journey'
<1>1. /\ nav.at = "choose" /\ nav.c = c /\ nav.goal \in Goals
      /\ UNCHANGED <<bel, health, phase>>
      /\ bel[c] \in Belonging /\ nav.steps \in Nat
  BY DEF ChooseBelonging, At, vars, IInv, TypeOK, GoalInv, NavInv, NavShape
<1>2. nav.goal \notin HealthStates
  BY <1>1, GoalsApart
<1>3. Concerned => /\ bel[c] \in Resorts /\ nav.goal \in HealthyGoals /\ health[c] \in Healthy
                   /\ nav.steps + Far(nav.goal, bel[c]) <= 5
  BY <1>1 DEF GoalInv, Journey, Concerned
<1>4. Concerned => nav.steps <= 5
  BY <1>1, <1>3, FarBounded
<1>5. Unrestricted'
  BY <1>1 DEF GoalInv, Unrestricted
<1>6. ASSUME NEW result \in {"exhausted", "reached", "refused"}, End(result),
             Concerned => result = "reached"
      PROVE  Treating' /\ HealthIsReached' /\ Journey'
  <2>1. /\ nav'.at = "idle" /\ nav'.result = result /\ Same({"c", "goal", "from", "steps"})
    BY <1>6, EndFields DEF GoalInv, NavInv, Results
  <2>2. Concerned' <=> Concerned
    BY <1>1, <2>1 DEF Concerned, Same
  <2>. QED
    BY <1>2, <1>6, <2>1, <2>2 DEF Treating, HealthIsReached, Journey, Same, Underway
<1>7. CASE nav.steps = MaxSteps /\ End("exhausted")
  <2>1. ~Concerned
    BY <1>4, <1>7, StepsAssumption DEF Ample
  <2>. QED
    BY <1>5, <1>6, <1>7, <2>1
<1>8. CASE End("reached")
  BY <1>5, <1>6, <1>8
<1>9. CASE ~Reached(nav.goal, bel[c]) /\ Policy(nav.goal, bel[c]) = None /\ End("refused")
  <2>1. ~Concerned
    BY <1>3, <1>9, FarCloses
  <2>. QED
    BY <1>5, <1>6, <1>9, <2>1
<1>10. CASE /\ ~Reached(nav.goal, bel[c]) /\ Policy(nav.goal, bel[c]) # None
            /\ nav' = [nav EXCEPT !.at = "act", !.event = Policy(nav.goal, bel[c]),
                                  !.before = bel[c]]
  <2>1. Policy(nav.goal, bel[c]) \in MainEvents
    BY <1>10, PolicyType
  <2>2. /\ nav'.at = "act" /\ nav'.event = Policy(nav.goal, bel[c]) /\ nav'.before = bel[c]
        /\ Same({"c", "goal", "waits", "from", "steps", "result"})
    BY <1>1, <1>10, <2>1, ChosenFields DEF GoalInv, NavInv
  <2>3. Concerned' <=> Concerned
    BY <1>1, <2>2 DEF Concerned, Same
  <2>4. Treating' /\ HealthIsReached'
    BY <1>2, <2>2 DEF GoalInv, Treating, HealthIsReached, Same
  <2>5. Journey'
    BY <1>1, <1>3, <1>10, <2>2, <2>3 DEF Journey, Setting, Same, Underway
  <2>. QED
    BY <1>5, <2>4, <2>5
<1>. QED
  BY <1>7, <1>8, <1>9, <1>10 DEF ChooseBelonging

LEMMA ChooseHealthKeeps ==
  ASSUME Ample, IInv, GoalInv, NEW c \in Constituents, ChooseHealth(c)
  PROVE  Treating' /\ HealthIsReached' /\ Unrestricted' /\ Journey'
<1>1. /\ nav.at = "choose" /\ nav.c = c /\ nav.goal \in HealthStates
      /\ UNCHANGED <<bel, health, phase>>
      /\ bel[c] \in Belonging /\ health[c] \in HealthStates /\ nav.steps \in Nat
  BY DEF ChooseHealth, At, vars, IInv, TypeOK, GoalInv, NavInv, NavShape
<1>2. nav.goal \notin HealthyGoals
  BY <1>1, GoalsApart, LeavesSorted
<1>3. nav.steps + Gap(nav.goal, health[c]) <= 6 /\ Gap(nav.goal, health[c]) \in 0..6
  BY <1>1, GapBounded DEF GoalInv, Treating
<1>4. Unrestricted'
  BY <1>1 DEF GoalInv, Unrestricted
<1>5. nav.steps # MaxHealthSteps
  BY <1>1, <1>3, StepsAssumption DEF Ample
<1>6. CASE End("reached")
  <2>1. nav'.at = "idle" /\ nav'.result = "reached" /\ nav'.goal = nav.goal
    BY <1>6, EndFields DEF GoalInv, NavInv, Results, Same
  <2>. QED
    BY <1>2, <1>4, <2>1 DEF Treating, HealthIsReached, Journey, Concerned
<1>7. CASE /\ health[c] # nav.goal
           /\ nav' = [nav EXCEPT !.at = "act", !.event = HealthStep(nav.goal, health[c]),
                                 !.before = bel[c]]
  <2>1. /\ nav'.at = "act" /\ nav'.event = HealthStep(nav.goal, health[c])
        /\ Same({"c", "goal", "waits", "from", "steps", "result"})
    BY <1>1, <1>7, HealthStepType, ChosenFields DEF GoalInv, NavInv
  <2>2. Treating'
    BY <1>1, <1>3, <1>7, <2>1 DEF Treating, Same
  <2>3. HealthIsReached' /\ Journey'
    BY <1>2, <2>1 DEF GoalInv, HealthIsReached, Journey, Concerned, Same
  <2>. QED
    BY <1>4, <2>2, <2>3
<1>. QED
  BY <1>5, <1>6, <1>7 DEF ChooseHealth

\* The call is over: what the loops do before they begin anew.
LEMMA AwaitKeeps ==
  ASSUME IInv, GoalInv, NEW c \in Constituents, Await(c)
  PROVE  Treating' /\ HealthIsReached' /\ Unrestricted' /\ Journey'
<1>1. /\ nav.at = "called" /\ nav.c = c /\ UNCHANGED <<bel, health, phase>>
      /\ bel[c] \in Belonging /\ nav.steps \in Nat
  BY DEF Await, At, vars, IInv, TypeOK, GoalInv, NavInv, NavShape
<1>2. Unrestricted'
  BY <1>1 DEF GoalInv, Unrestricted
<1>3. CASE nav.goal \in HealthStates
  <2>1. /\ nav'.at = "choose" /\ nav'.steps = nav.steps + 1
        /\ Same({"c", "goal", "event", "before", "waits", "from", "result"})
    BY <1>3, CountedFields DEF Await, GoalInv, NavInv
  <2>2. nav.goal \notin HealthyGoals
    BY <1>3, GoalsApart, LeavesSorted
  <2>. QED
    BY <1>1, <1>2, <1>3, <2>1, <2>2
    DEF GoalInv, Treating, HealthIsReached, Journey, Concerned, Same
<1>4. CASE nav.goal \notin HealthStates
  <2> DEFINE at == IF bel[c] \in Pendings THEN "sleep" ELSE "compare"
  <2>1. /\ nav'.at = at /\ nav'.waits = bel[c]
        /\ Same({"c", "goal", "event", "before", "from", "steps", "result"})
    BY <1>1, <1>4, WaitingFields DEF Await, Pendings, GoalInv, NavInv, NavAt
  <2>2. Treating' /\ HealthIsReached'
    BY <1>4, <2>1 DEF GoalInv, Treating, HealthIsReached, Same
  <2>3. Journey'
    <3> SUFFICES ASSUME Concerned' PROVE Journey'
      BY DEF Journey
    <3>1. Concerned /\ Setting /\ Landed /\ health[c] \in Healthy /\ nav.goal \in HealthyGoals
      BY <1>1, <2>1 DEF Concerned, Same, GoalInv, Journey, Underway
    <3>2. Setting' /\ Landed' /\ Onward(health[nav.c])' = Onward(health[c])
      BY <1>1, <2>1, <3>1 DEF Setting, Landed, Onward, Same
    <3>3. bel[c] \in {Onward(health[c]), Resolved(Onward(health[c]))}
      BY <1>1, <3>1 DEF Landed
    <3>4. /\ Onward(health[c]) \in Resorts \cup Pendings
          /\ Resolved(Onward(health[c])) \in Resorts
      BY <3>1, OnwardLeads
    <3>5. bel[c] \in Pendings => bel[c] = Onward(health[c])
      BY <3>3, <3>4, LeavesSorted
    <3>6. bel[c] \notin Pendings => bel[c] \in Resorts
      BY <3>3, <3>4
    <3>. QED
      BY <1>1, <2>1, <3>2, <3>5, <3>6 DEF Journey, Underway, Same
  <2>. QED
    BY <1>2, <2>2, <2>3
<1>. QED
  BY <1>3, <1>4

LEMMA WakeKeeps ==
  ASSUME Ample, IInv, GoalInv, NEW c \in Constituents, Wake(c)
  PROVE  Treating' /\ HealthIsReached' /\ Unrestricted' /\ Journey'
<1>1. /\ nav.at = "sleep" /\ nav.c = c /\ bel[c] # nav.waits
      /\ UNCHANGED <<bel, health, phase>>
  BY DEF Wake, At, vars, Ample
<1>2. nav.goal \notin HealthStates
  BY <1>1, GoalsApart DEF GoalInv, NavInv, Navigating
<1>3. /\ nav'.at = "compare"
      /\ Same({"c", "goal", "event", "before", "waits", "from", "steps", "result"})
  BY MovedFields DEF Wake, GoalInv, NavInv, NavAt
<1>4. Treating' /\ HealthIsReached' /\ Unrestricted'
  BY <1>1, <1>2, <1>3 DEF GoalInv, Treating, HealthIsReached, Unrestricted, Same
<1>5. Journey'
  <2> SUFFICES ASSUME Concerned' PROVE Journey'
    BY DEF Journey
  <2>1. /\ Concerned /\ Setting /\ Landed /\ health[c] \in Healthy
        /\ nav.goal \in HealthyGoals /\ nav.waits = Onward(health[c])
    BY <1>1, <1>3 DEF Concerned, Same, GoalInv, Journey, Underway
  <2>2. Setting' /\ Landed'
    BY <1>1, <1>3, <2>1 DEF Setting, Landed, Onward, Same
  <2>3. bel[c] \in Resorts
    BY <1>1, <2>1, OnwardLeads DEF Landed
  <2>. QED
    BY <1>1, <1>3, <2>2, <2>3 DEF Journey, Underway, Same
<1>. QED
  BY <1>4, <1>5

LEMMA CompareKeeps ==
  ASSUME IInv, GoalInv, NEW c \in Constituents, Compare(c)
  PROVE  Treating' /\ HealthIsReached' /\ Unrestricted' /\ Journey'
<1>1. /\ nav.at = "compare" /\ nav.c = c /\ UNCHANGED <<bel, health, phase>>
      /\ nav.steps \in Nat
  BY DEF Compare, At, vars, GoalInv, NavInv, NavShape
<1>2. nav.goal \notin HealthStates
  BY <1>1, GoalsApart DEF GoalInv, NavInv, Navigating
<1>3. Concerned => /\ health[c] \in Healthy /\ nav.goal \in HealthyGoals
                   /\ bel[c] \in Resorts \ {nav.before}
                   /\ nav.steps + 1 + Far(nav.goal, bel[c]) <= 5
  <2> SUFFICES ASSUME Concerned
               PROVE  /\ health[c] \in Healthy /\ nav.goal \in HealthyGoals
                      /\ bel[c] \in Resorts \ {nav.before}
                      /\ nav.steps + 1 + Far(nav.goal, bel[c]) <= 5
    OBVIOUS
  <2>1. /\ Setting /\ Landed /\ bel[c] \in Resorts /\ health[c] \in Healthy
        /\ nav.goal \in HealthyGoals
    BY <1>1 DEF GoalInv, Journey, Underway, Concerned
  <2>2. bel[c] = Resolved(Onward(health[c]))
    BY <1>1, <2>1, ResolvedStays DEF Landed
  <2>3. /\ bel[c] \in Resorts \ {nav.before}
        /\ Far(nav.goal, bel[c]) + 1 <= Far(nav.goal, nav.before)
    BY <2>1, <2>2, OnwardLeads
  <2>4. Far(nav.goal, bel[c]) \in 0..5 /\ Far(nav.goal, nav.before) \in 0..5
    BY <2>1, FarBounded DEF Setting
  <2>. QED
    BY <1>1, <2>1, <2>3, <2>4 DEF Setting
<1>4. Unrestricted'
  BY <1>1 DEF GoalInv, Unrestricted
<1>5. CASE bel[c] = nav.before
  <2>1. /\ nav'.at = "idle" /\ nav'.result = "refused" /\ Same({"c", "goal", "from", "steps"})
    BY <1>5, EndFields DEF Compare, GoalInv, NavInv, Results
  <2>2. ~Concerned'
    BY <1>1, <1>3, <1>5, <2>1 DEF Concerned, Same
  <2>. QED
    BY <1>2, <1>4, <2>1, <2>2 DEF Treating, HealthIsReached, Journey, Same
<1>6. CASE bel[c] # nav.before
  <2>1. /\ nav'.at = "choose" /\ nav'.steps = nav.steps + 1
        /\ Same({"c", "goal", "event", "before", "waits", "from", "result"})
    BY <1>6, CountedFields DEF Compare, GoalInv, NavInv
  <2>2. Concerned' => Concerned
    BY <1>1, <2>1 DEF Concerned, Same
  <2>. QED
    BY <1>1, <1>2, <1>3, <1>4, <2>1, <2>2
    DEF GoalInv, Treating, HealthIsReached, Journey, Same, Underway
<1>. QED
  BY <1>5, <1>6

LEMMA GoalStep ==
  ASSUME Ample, IInv, GoalInv, [NavNext]_navVars
  PROVE  IInv' /\ GoalInv'
<1>1. IInv' /\ NavInv'
  BY NavStep DEF GoalInv
<1>2. ASSUME NEW c \in Constituents, NEW goal \in Goals \cup HealthStates,
             SetBelonging(c, goal) \/ SetHealth(c, goal)
      PROVE  GoalInv'
  BY <1>1, <1>2, BeginKeeps DEF SetBelonging, SetHealth, GoalInv
<1>3. ASSUME NEW c \in Constituents, Navigate(c) PROVE GoalInv'
  <2>1. Treating' /\ HealthIsReached' /\ Unrestricted' /\ Journey'
    BY <1>3, ChooseBelongingKeeps, ChooseHealthKeeps, ActKeeps, AwaitKeeps, WakeKeeps,
       CompareKeeps DEF Navigate
  <2>. QED
    BY <1>1, <2>1 DEF GoalInv
<1>4. ASSUME NEW c \in Constituents, (\E p \in Callers : Proceed(c, p)) \/ Environment(c)
      PROVE  GoalInv'
  BY <1>1, <1>4, OutsideSteps, OutsideKeeps DEF GoalInv
<1>5. CASE UNCHANGED navVars
  BY <1>1, <1>5 DEF navVars, vars, GoalInv, Treating, HealthIsReached, Unrestricted, Journey,
                    Concerned, Setting, Landed, Onward, Underway
<1>. QED
  BY <1>1, <1>2, <1>3, <1>4, <1>5 DEF NavNext

LEMMA GoalInvariance ==
  ASSUME Ample
  PROVE  NavSpec => []GoalInv
<1>1. NavInit => IInv /\ GoalInv
  BY GoalInit, InitIInv DEF NavInit
<1>2. IInv /\ GoalInv /\ [NavNext]_navVars => (IInv /\ GoalInv)'
  BY GoalStep
<1>. QED
  BY <1>1, <1>2, PTL DEF NavSpec

\* ensure_health never raises its error: the order of health is never longer
\* than the steps it has, whatever timers and monitors do meanwhile.
THEOREM NoHealthError ==
  ASSUME Ample
  PROVE  NavSpec => []HealthIsReached
<1>1. GoalInv => HealthIsReached
  BY DEF GoalInv
<1>. QED
  BY <1>1, GoalInvariance, PTL

\* A healthy constituent is never refused and never runs out of steps on its way
\* to a leaf it can rest in, for any number of constituents and of time events
\* that are still about.
THEOREM HealthyArrive ==
  ASSUME Ample
  PROVE  NavSpec => []HealthyReachTheirGoal
<1>1. GoalInv => HealthyReachTheirGoal
  BY DEF GoalInv, Journey, Concerned, HealthyReachTheirGoal, At, Pendings, Healthy
<1>. QED
  BY <1>1, GoalInvariance, PTL


\* A chart that the application navigates keeps what Lifecycle promises: no
\* navigation, whatever it waits for or is refused, makes the chart lie to its
\* subscribers, rest unsettled, lose its timer, or leap a rung.
THEOREM NavigatedCharts ==
  NavSpec => /\ [](SignalsMatchBelonging /\ RestIsSettled /\ PendingHasTimer /\ HealthIsEnforced)
             /\ [][StaleEventsDoNothing /\ OneRungAtATime]_vars
<1>1. Spec => [](SignalsMatchBelonging /\ RestIsSettled /\ PendingHasTimer /\ HealthIsEnforced)
  BY SignalsCorrect, RestSettled, PendingTimed, HealthEnforced, PTL
<1>2. Spec => [][StaleEventsDoNothing /\ OneRungAtATime]_vars
  BY StaleEventsHarmless, MembershipClimbs, PTL
<1>. QED
  BY <1>1, <1>2, NavigationFits, PTL DEF ImplementsLifecycle
=============================================================================
