----------------------------- MODULE LevelProofs -----------------------------
(***************************************************************************)
(* Theorems about LevelLifecycle: what every level guarantees through any  *)
(* sequence of calls, time events and restarts, for every bound.           *)
(***************************************************************************)
EXTENDS LevelLifecycle, ChartLemmas

------------------------------------------------------------------------------
(***************************************************************************)
(* Lemmas about the charts of the levels.                                  *)
(***************************************************************************)

LEMMA ReactiveType ==
  ASSUME NEW b \in ReactiveBelonging, NEW E
  PROVE  ReactiveReact(b, E) \in ReactiveBelonging
BY DEF ReactiveBelonging, ReactiveReact, DisengagedReact, ReactivePreparedReact,
       ReactivePassiveReact, ReactiveActiveReact

LEMMA ProactiveType ==
  ASSUME NEW b \in ProactiveBelonging, NEW h, NEW E
  PROVE  ProactiveReact(b, h, E) \in ProactiveBelonging
BY DEF ProactiveBelonging, ProactiveReact, DisengagedReact, ProactivePreparedReact,
       ProactivePassiveReact, ProactivePendingEntryReact,
       ProactiveParticipatingReact, ProactivePendingExitReact, ActiveReact

\* The leaves of level 3, one by one.
LEMMA ControlledLeaves ==
  ControlledBelonging = {"disengaged", "prepared", "available", "negotiating",
                         "pending_entry", "participating", "pending_exit"}
BY DEF ControlledBelonging, Belonging, Participating

LEMMA ControlledType ==
  ASSUME NEW b \in ControlledBelonging, NEW h, NEW E
  PROVE  ControlledReact(b, h, E) \in ControlledBelonging
BY ControlledLeaves
DEF ControlledReact, React, DisengagedReact, PreparedReact, NegotiatingReact,
    AvailableReact, PassiveReact, ControlledPendingEntryReact,
    ControlledParticipatingReact, ControlledPendingExitReact, ActiveReact

\* The operators of a level are those of its chart.
LEMMA LeavesOf ==
  /\ BelongingAt(1) = ReactiveBelonging /\ BelongingAt(2) = ProactiveBelonging
  /\ BelongingAt(3) = ControlledBelonging /\ BelongingAt(4) = Belonging
  /\ BelongingAt(5) = Belonging
BY DEF BelongingAt, Experiment

LEMMA ReactionsOf ==
  ASSUME NEW b, NEW h, NEW E
  PROVE  /\ ReactAt(1, b, h, E) = ReactiveReact(b, E)
         /\ ReactAt(2, b, h, E) = ProactiveReact(b, h, E)
         /\ ReactAt(3, b, h, E) = ControlledReact(b, h, E)
         /\ ReactAt(4, b, h, E) = React(b, h, E)
         /\ ReactAt(5, b, h, E) = ExperimentReact(b, h, E)
BY DEF ReactAt, Experiment

LEMMA EntriesOf ==
  ASSUME NEW s, NEW b, NEW t
  PROVE  /\ EmittedAt(1, s, b, t) = IF b = t THEN s ELSE ReactiveEmitted(t)
         /\ EmittedAt(2, s, b, t) = IF b = t THEN s ELSE DelayedEmitted(s, b, t)
         /\ EmittedAt(3, s, b, t) = IF b = t THEN s ELSE DelayedEmitted(s, b, t)
         /\ EmittedAt(4, s, b, t) = Emitted(s, b, t)
         /\ EmittedAt(5, s, b, t) = Emitted(s, b, t)
BY DEF EmittedAt, Experiment

\* At every level the Belonging region only ever goes to one of its leaves, and
\* the Health region to one of its states.
LEMMA ReactAtType ==
  ASSUME NEW l \in Levels, NEW b \in BelongingAt(l), NEW h \in HealthStates, NEW E
  PROVE  ReactAt(l, b, h, E) \in BelongingAt(l) /\ HealthReactAt(l, h, E) \in HealthStates
<1>1. HealthReactAt(l, h, E) = HealthReact(h, E)
  BY DEF Levels, Experiment, HealthReactAt, ReactiveHealthReact, ProactiveHealthReact,
         ControlledHealthReact, ExperimentHealthReact
<1>2. ReactAt(l, b, h, E) \in BelongingAt(l)
  <2>1. CASE l = 1
    BY <2>1, LeavesOf, ReactionsOf, ReactiveType
  <2>2. CASE l = 2
    BY <2>2, LeavesOf, ReactionsOf, ProactiveType
  <2>3. CASE l = 3
    BY <2>3, LeavesOf, ReactionsOf, ControlledType
  <2>4. CASE l = 4
    BY <2>4, LeavesOf, ReactionsOf, ReactType
  <2>5. CASE l = 5
    <3>1. \A F : React(b, h, F) \in Belonging
      BY <2>5, LeavesOf, ReactType
    <3>2. ExperimentReact(b, h, E) \in Belonging
      BY <3>1 DEF ExperimentReact
    <3>. QED
      BY <2>5, <3>2, LeavesOf, ReactionsOf
  <2>. QED
    BY <2>1, <2>2, <2>3, <2>4, <2>5 DEF Levels, Experiment
<1>. QED
  BY <1>1, <1>2, HealthReactType

\* A role of levels 2 and 3 is never left for pending_entry, which resets no
\* signal of its own accord.
LEMMA DelayedEntry ==
  ASSUME NEW l \in {2, 3}, NEW b \in BelongingAt(l), NEW h, NEW E,
         ReactAt(l, b, h, E) = "pending_entry"
  PROVE  b # "participating"
<1> SUFFICES ASSUME b = "participating" PROVE FALSE
  OBVIOUS
<1>1. ProactiveReact(b, h, E) # "pending_entry"
  BY DEF ProactiveReact, ProactiveParticipatingReact, ActiveReact
<1>2. ControlledReact(b, h, E) # "pending_entry"
  BY DEF ControlledReact, ControlledParticipatingReact, ActiveReact
<1>. QED
  BY <1>1, <1>2, ReactionsOf

------------------------------------------------------------------------------
\* SignalsMatchLevel for one chart.
LevelFit(l, s, b) ==
  /\ s.observed <=> b \notin {"disengaged", "prepared"}
  /\ s.validated <=> b \in Role4 \/ (l = 1 /\ b = "active")
  /\ s.compensating => l \in {4, Experiment} /\ b \in Participating
  /\ b = "restricted_role" => s.compensating

\* Levels 2 and 3: signals that fit the leaf a transition leaves fit the leaf
\* it enters.
LEMMA DelayedFits ==
  ASSUME NEW l \in {2, 3}, NEW b \in BelongingAt(l), NEW t \in BelongingAt(l),
         NEW s \in Signals, LevelFit(l, s, b), b # t,
         t = "pending_entry" => b # "participating"
  PROVE  DelayedEmitted(s, b, t) \in Signals /\ LevelFit(l, DelayedEmitted(s, b, t), t)
<1> DEFINE N == LeafEntered(b, t)
           Out == {"disengaged", "prepared"}
           Rest == {"disengaged", "prepared", "passive", "active", "pending_exit"}
           D == DelayedEmitted(s, b, t)
<1>1. /\ b \in {"disengaged", "prepared", "passive", "available", "negotiating",
                "pending_entry", "participating", "pending_exit"}
      /\ t \in {"disengaged", "prepared", "passive", "available", "negotiating",
                "pending_entry", "participating", "pending_exit"}
  BY ControlledLeaves, LeavesOf DEF ProactiveBelonging
<1>2. \A x : N \cap {x} # {} <=> x \in N
  OBVIOUS
<1>3. \A x, y : N \cap {x, y} # {} <=> x \in N \/ y \in N
  OBVIOUS
<1>4. N \cap Rest # {} <=> \/ "disengaged" \in N \/ "prepared" \in N \/ "passive" \in N
                           \/ "active" \in N \/ "pending_exit" \in N
  OBVIOUS
<1>5. /\ "disengaged" \in N <=> t = "disengaged"
      /\ "prepared" \in N <=> t = "prepared"
      /\ "participating" \in N <=> t = "participating"
      /\ "pending_exit" \in N <=> t = "pending_exit"
  BY <1>1 DEF LeafEntered, WithEnclosing, Passive, Active, Participating
<1>6. LET Resting(x) == x \in {"passive", "available", "negotiating"}
          Engaged(x) == x \in {"pending_entry", "participating", "pending_exit"}
      IN  /\ "passive" \in N <=> Resting(t) /\ ~Resting(b)
          /\ "active" \in N <=> Engaged(t) /\ ~Engaged(b)
  BY <1>1 DEF LeafEntered, WithEnclosing, Passive, Active, Participating
<1> HIDE DEF N
<1>7. /\ D \in Signals
      /\ D.observed <=> \/ "passive" \in N \/ "active" \in N
                        \/ (s.observed /\ ~("disengaged" \in N \/ "prepared" \in N))
      /\ D.validated <=>
           \/ "participating" \in N
           \/ /\ s.validated
              /\ ~(\/ "disengaged" \in N \/ "prepared" \in N \/ "passive" \in N
                   \/ "active" \in N \/ "pending_exit" \in N)
      /\ D.compensating = FALSE
  BY <1>2, <1>3, <1>4 DEF DelayedEmitted, Signals, N
<1> HIDE DEF D
<1>8. D.observed <=> t \notin Out
  BY <1>1, <1>5, <1>6, <1>7 DEF LevelFit
<1>9. D.validated <=> t = "participating"
  BY <1>1, <1>5, <1>6, <1>7 DEF LevelFit, Role4, Participating
<1>10. t # "restricted_role" /\ t # "full_role"
  BY <1>1
<1>11. LevelFit(l, D, t)
  BY <1>7, <1>8, <1>9, <1>10 DEF LevelFit, Role4, Participating
<1>. QED
  BY <1>7, <1>11 DEF D

\* Level 1 tells its source what the leaf it enters calls for.
LEMMA ReactiveSignals ==
  ASSUME NEW t
  PROVE  /\ ReactiveEmitted(t) \in Signals /\ ReactiveEmitted(t).compensating = FALSE
         /\ ReactiveEmitted(t).observed <=> t \in {"passive", "active"}
         /\ ReactiveEmitted(t).validated <=> t = "active"
<1>1. ReactiveEmitted(t).observed <=> t \in {"passive", "active"}
  BY DEF ReactiveEmitted
<1>2. ReactiveEmitted(t).validated <=> t = "active"
  BY DEF ReactiveEmitted
<1>3. ReactiveEmitted(t).compensating = FALSE
  BY DEF ReactiveEmitted
<1>4. ReactiveEmitted(t) \in Signals
  BY DEF ReactiveEmitted, Signals
<1>. QED
  BY <1>1, <1>2, <1>3, <1>4

\* At every level a cycle leaves the signals fitting the leaf it leads to.
LEMMA CycleFitsLevel ==
  ASSUME NEW l \in Levels, NEW b \in BelongingAt(l), NEW h \in HealthStates, NEW E,
         NEW s \in Signals, LevelFit(l, s, b)
  PROVE  LET t == ReactAt(l, b, h, E)
         IN  EmittedAt(l, s, b, t) \in Signals /\ LevelFit(l, EmittedAt(l, s, b, t), t)
<1> DEFINE t == ReactAt(l, b, h, E)
<1>1. t \in BelongingAt(l)
  BY ReactAtType
<1>2. CASE l = 1
  <2>1. b \in ReactiveBelonging /\ t \in ReactiveBelonging
    BY <1>1, <1>2, LeavesOf
  <2>2. EmittedAt(l, s, b, t) = IF b = t THEN s ELSE ReactiveEmitted(t)
    BY <1>2, EntriesOf
  <2>3. ReactiveEmitted(t) \in Signals /\ LevelFit(l, ReactiveEmitted(t), t)
    <3> DEFINE R == ReactiveEmitted(t)
    <3>1. /\ R \in Signals /\ R.compensating = FALSE
          /\ R.observed <=> t \in {"passive", "active"}
          /\ R.validated <=> t = "active"
      BY ReactiveSignals
    <3> HIDE DEF R, t
    <3>2. LevelFit(l, R, t)
      BY <1>2, <2>1, <3>1 DEF ReactiveBelonging, LevelFit, Role4, Participating
    <3>. QED
      BY <3>1, <3>2 DEF R
  <2>. QED
    BY <2>2, <2>3
<1>3. CASE l \in {2, 3}
  <2>1. CASE b = t
    BY <1>3, <2>1, EntriesOf
  <2>2. CASE b # t
    <3>1. t = "pending_entry" => b # "participating"
      BY <1>3, DelayedEntry
    <3>2. EmittedAt(l, s, b, t) = DelayedEmitted(s, b, t)
      BY <1>3, <2>2, EntriesOf
    <3>. QED
      BY <1>1, <1>3, <2>2, <3>1, <3>2, DelayedFits
  <2>. QED
    BY <2>1, <2>2
<1>4. CASE l \in {4, Experiment}
  <2>1. b \in Belonging /\ t \in Belonging
    BY <1>1, <1>4, LeavesOf DEF Experiment
  <2>2. \E F : t = React(b, h, F)
    <3> DEFINE F == IF "constellation_stable" \in E THEN E \cup TimeEvents ELSE E
    <3>1. t = React(b, h, E) \/ t = React(b, h, F)
      BY <1>4, ReactionsOf DEF Experiment, ExperimentReact
    <3>. QED
      BY <3>1
  <2>3. SignalsFit(s, b)
    BY <1>4, <2>1 DEF LevelFit, SignalsFit, Belonging, Inside, Passive, Active,
                      Participating, Role4, Experiment
  <2>4. Emitted(s, b, t) \in Signals /\ SignalsFit(Emitted(s, b, t), t)
    <3>1. PICK F : t = React(b, h, F)
      BY <2>2
    <3>2. t = "pending_entry" => b \notin Participating
      BY <2>1, <3>1, EntryFromNegotiating DEF Participating
    <3>. QED
      BY <2>1, <2>3, <3>2, EmittedFits
  <2>5. EmittedAt(l, s, b, t) = Emitted(s, b, t)
    BY <1>4, EntriesOf DEF Experiment
  <2>6. \A r : SignalsFit(r, t) => LevelFit(l, r, t)
    <3> HIDE DEF t
    <3>. QED
      BY <1>4, <2>1 DEF LevelFit, SignalsFit, Belonging, Inside, Passive, Active,
                        Participating, Role4, Experiment
  <2>. QED
    BY <2>4, <2>5, <2>6
<1>. QED
  BY <1>2, <1>3, <1>4 DEF Levels, Experiment

\* At every level the time event of a pending state ends it.
LEMMA LevelEndsPending ==
  ASSUME NEW l \in Levels, NEW h, NEW E, NEW e \in TimeEvents, e \in E, l # Experiment,
         NEW b \in BelongingAt(l), b = TimerOf[e]
  PROVE  ReactAt(l, b, h, E) # b
<1>1. /\ b \notin ReactiveBelonging
      /\ ProactiveReact(b, h, E) # b /\ ControlledReact(b, h, E) # b
      /\ React(b, h, E) # b
  <2>1. CASE e = "entry_delay"
    BY <2>1 DEF TimerOf, ReactiveBelonging, ProactiveReact, ProactivePendingEntryReact,
                ControlledReact, ControlledPendingEntryReact, React, Role,
                PendingEntryReact
  <2>2. CASE e = "exit_delay"
    BY <2>2 DEF TimerOf, ReactiveBelonging, ProactiveReact, ProactivePendingExitReact,
                ControlledReact, ControlledPendingExitReact, React, Role,
                PendingExitReact
  <2>. QED
    BY <2>1, <2>2 DEF TimeEvents
<1>. QED
  BY <1>1, LeavesOf, ReactionsOf DEF Levels, Experiment

------------------------------------------------------------------------------
(***************************************************************************)
(* The inductive invariant: TypeOK, SignalsMatchLevel and                  *)
(* TimersFollowPending, with two facts they rely on.  A chart is inactive  *)
(* in both regions or in none, and the experiments' chart never has a      *)
(* timer: without that its armed timers could not follow its leaves.       *)
(***************************************************************************)
Whole == bel = Null <=> health = Null

Untimed == level = Experiment => \A e \in TimeEvents : ~armed[e]

IInv == TypeOK /\ SignalsMatchLevel /\ TimersFollowPending /\ Whole /\ Untimed

\* No leaf and no health is called null_state.
LEMMA NotNull ==
  /\ \A l \in Levels : Null \notin BelongingAt(l)
  /\ Null \notin HealthStates
  /\ \A l \in Levels : "disengaged" \in BelongingAt(l)
  /\ \A e \in TimeEvents : Null # TimerOf[e] /\ "disengaged" # TimerOf[e]
<1>1. /\ Null \notin ReactiveBelonging /\ Null \notin ProactiveBelonging
      /\ Null \notin ControlledBelonging /\ Null \notin Belonging
      /\ "disengaged" \in ReactiveBelonging /\ "disengaged" \in ProactiveBelonging
      /\ "disengaged" \in ControlledBelonging /\ "disengaged" \in Belonging
  BY ControlledLeaves DEF Null, ReactiveBelonging, ProactiveBelonging, Belonging
<1>2. Null \notin HealthStates
  BY DEF Null, HealthStates
<1>3. \A e \in TimeEvents : Null # TimerOf[e] /\ "disengaged" # TimerOf[e]
  BY DEF Null, TimeEvents, TimerOf
<1>. QED
  BY <1>1, <1>2, <1>3, LeavesOf DEF Levels, Experiment

LEMMA InitIInv == Init => IInv
<1> SUFFICES ASSUME Init PROVE IInv
  OBVIOUS
<1>1. TypeOK
  BY MaxElapsedAssumption DEF Init, TypeOK, Signals, NoSignals
<1>2. SignalsMatchLevel
  BY DEF Init, SignalsMatchLevel, IsActive
<1>3. TimersFollowPending /\ Whole /\ Untimed
  BY NotNull DEF Init, TimersFollowPending, Whole, Untimed
<1>. QED
  BY <1>1, <1>2, <1>3 DEF IInv

\* What a run_cycle with the events E leaves, whether the chart is active or
\* not, when the only time events it may have consumed are among E.
LEMMA CycleKeeps ==
  ASSUME IInv, NEW E, RunCycle(E), elapsed' \in [TimeEvents -> 0..MaxElapsed],
         \A e \in TimeEvents : elapsed'[e] = elapsed[e] \/ e \in E
  PROVE  IInv'
<1>1. CASE ~IsActive
  <2>1. UNCHANGED <<level, bel, health, signals>>
    BY <1>1 DEF RunCycle
  <2>2. armed' = armed
    <3>1. RearmedAt(level, armed, bel, bel) = armed
      BY DEF RearmedAt, Rearmed, IInv, TypeOK
    <3>. QED
      BY <1>1, <3>1 DEF RunCycle
  <2>. QED
    BY <1>1, <2>1, <2>2, NotNull
    DEF IInv, TypeOK, SignalsMatchLevel, TimersFollowPending, Whole, Untimed, IsActive
<1>2. CASE IsActive
  <2> DEFINE t == ReactAt(level, bel, health, E)
  <2>1. /\ level \in Levels /\ bel \in BelongingAt(level) /\ health \in HealthStates
        /\ signals \in Signals /\ LevelFit(level, signals, bel)
    BY <1>2 DEF IInv, TypeOK, Whole, SignalsMatchLevel, LevelFit, IsActive
  <2>2. /\ level' = level /\ bel' = t /\ health' = HealthReactAt(level, health, E)
        /\ signals' = EmittedAt(level, signals, bel, t)
        /\ armed' = RearmedAt(level, armed, bel, t)
    BY <1>2 DEF RunCycle
  <2>3. t \in BelongingAt(level) /\ health' \in HealthStates
    BY <2>1, <2>2, ReactAtType
  <2>4. signals' \in Signals /\ LevelFit(level, signals', t)
    BY <2>1, <2>2, CycleFitsLevel
  <2>5. \A e \in TimeEvents : e \in E /\ bel = TimerOf[e] /\ level # Experiment => t # bel
    BY <2>1, LevelEndsPending
  <2> HIDE DEF t
  <2>6. armed' \in [TimeEvents -> BOOLEAN] /\ TimersFollowPending' /\ Untimed'
    <3>1. CASE level = Experiment
      <4>1. armed' = armed
        BY <2>2, <3>1 DEF RearmedAt
      <4>. QED
        BY <2>2, <3>1, <4>1 DEF IInv, TypeOK, TimersFollowPending, Untimed
    <3>2. CASE level # Experiment
      <4>1. armed' = Rearmed(armed, bel, t)
        BY <2>2, <3>2 DEF RearmedAt
      <4>2. TimersFit(bel, armed, elapsed)
        BY <3>2 DEF IInv, TimersFollowPending, TimersFit
      <4>3. armed \in [TimeEvents -> BOOLEAN]
        BY DEF IInv, TypeOK
      <4>4. \A e \in TimeEvents : elapsed'[e] = elapsed[e] \/ (bel = TimerOf[e] => t # bel)
        BY <2>5, <3>2
      <4>5. TimersFit(t, armed', elapsed') /\ armed' \in [TimeEvents -> BOOLEAN]
        BY <4>1, <4>2, <4>3, <4>4, CycleKeepsTimers
      <4>. QED
        BY <2>2, <3>2, <4>5 DEF TimersFit, TimersFollowPending, Untimed
    <3>. QED
      BY <3>1, <3>2
  <2>7. bel' # Null /\ health' # Null
    BY <2>1, <2>2, <2>3, NotNull
  <2>8. TypeOK'
    BY <2>1, <2>2, <2>3, <2>4, <2>6 DEF TypeOK
  <2>9. SignalsMatchLevel'
    BY <2>2, <2>4 DEF SignalsMatchLevel, LevelFit
  <2>. QED
    BY <2>6, <2>7, <2>8, <2>9 DEF IInv, Whole
<1>. QED
  BY <1>1, <1>2

LEMMA NextIInv == IInv /\ [Next]_vars => IInv'
<1> SUFFICES ASSUME IInv, [Next]_vars PROVE IInv'
  OBVIOUS
<1>1. CASE Enter
  <2>1. TypeOK'
    BY <1>1, NotNull DEF Enter, IInv, TypeOK, NoSignals, Signals, HealthStates
  <2>2. SignalsMatchLevel'
    BY <1>1 DEF Enter, SignalsMatchLevel, NoSignals, Role4, Participating
  <2>3. TimersFollowPending' /\ Untimed'
    BY <1>1, NotNull DEF Enter, IInv, IsActive, TimersFollowPending, Untimed
  <2>. QED
    BY <1>1, <2>1, <2>2, <2>3 DEF Enter, IInv, Whole, Null
<1>2. CASE Exit
  <2>1. armed' \in [TimeEvents -> BOOLEAN] /\ \A e \in TimeEvents : ~armed'[e]
    BY <1>2, NotNull
    DEF Exit, IInv, TypeOK, TimersFollowPending, Untimed, RearmedAt, Rearmed
  <2>. QED
    BY <1>2, <2>1, NotNull
    DEF Exit, IInv, TypeOK, SignalsMatchLevel, IsActive, TimersFollowPending, Whole, Untimed
<1>3. ASSUME NEW event, Raise(event) PROVE IInv'
  BY <1>3, CycleKeeps DEF Raise, IInv, TypeOK
<1>4. CASE Trigger
  BY <1>4, CycleKeeps DEF Trigger, IInv, TypeOK
<1>5. ASSUME NEW e \in TimeEvents, Expire(e) PROVE IInv'
  <2>1. TypeOK'
    BY <1>5, MaxElapsedAssumption DEF Expire, IInv, TypeOK
  <2>2. TimersFollowPending' /\ Untimed'
    BY <1>5, MaxElapsedAssumption DEF Expire, IInv, TypeOK, TimersFollowPending, Untimed
  <2>. QED
    BY <1>5, <2>1, <2>2 DEF Expire, IInv, SignalsMatchLevel, IsActive, Whole
<1>6. ASSUME NEW e \in TimeEvents, TimeElapsed(e) PROVE IInv'
  <2>1. /\ elapsed' \in [TimeEvents -> 0..MaxElapsed]
        /\ \A f \in TimeEvents : elapsed'[f] = elapsed[f] \/ f \in {e}
    BY <1>6, MaxElapsedAssumption DEF TimeElapsed, IInv, TypeOK
  <2>. QED
    BY <1>6, <2>1, CycleKeeps DEF TimeElapsed
<1>7. CASE UNCHANGED vars
  BY <1>7 DEF vars, IInv, TypeOK, SignalsMatchLevel, IsActive, TimersFollowPending,
              Whole, Untimed
<1>. QED
  BY <1>1, <1>2, <1>3, <1>4, <1>5, <1>6, <1>7 DEF Next

LEMMA Invariance == Spec => []IInv
  BY InitIInv, NextIInv, PTL DEF Spec

\* Every variable stays in its domain: at no level does a call, a time event or
\* a restart lead the chart to a leaf that is not one of its own.
THEOREM LevelsTyped == Spec => []TypeOK
<1>1. IInv => TypeOK
  BY DEF IInv
<1>. QED
  BY <1>1, Invariance, PTL

\* At every level, after any sequence of calls, time events and restarts, the
\* source and the reconstructor have been told the truth about the chart.
THEOREM LevelSignals == Spec => []SignalsMatchLevel
<1>1. IInv => SignalsMatchLevel
  BY DEF IInv
<1>. QED
  BY <1>1, Invariance, PTL

\* At every level a timer waits in its own pending state only, and a pending
\* state never lacks what ends it, however many timer threads are under way.
THEOREM LevelTimers == Spec => []TimersFollowPending
<1>1. IInv => TimersFollowPending
  BY DEF IInv
<1>. QED
  BY <1>1, Invariance, PTL

------------------------------------------------------------------------------
(***************************************************************************)
(* Every level implements Membership.  The steps of the ladder need no     *)
(* invariant but the types: which rung a reaction leads to depends on the  *)
(* leaf, the health and the events alone.                                  *)
(***************************************************************************)

LEMMA StagesOfLeaves ==
  /\ StageOf("disengaged") = "disengaged" /\ StageOf("prepared") = "prepared"
  /\ \A b \in {"passive", "available", "negotiating"} : StageOf(b) = "passive"
  /\ \A b \in {"active", "pending_entry", "participating", "full_role",
                "restricted_role", "pending_exit"} : StageOf(b) = "active"
  /\ StageOf(Null) = "inactive"
BY DEF StageOf, Null, Passive

\* A step from one rung to another, when failure puts a constituent out.
Rung(from, to, out) ==
  \/ from = to
  \/ from = "disengaged" /\ to = "prepared"
  \/ from = "prepared" /\ to = "disengaged"
  \/ from = "prepared" /\ to = "passive" /\ ~out
  \/ from = "passive" /\ to \in {"active", "prepared"}
  \/ from = "active" /\ to = "passive"
  \/ from = "active" /\ to = "prepared" /\ out

LEMMA ReactiveRungs ==
  ASSUME NEW b \in ReactiveBelonging, NEW E
  PROVE  Rung(StageOf(b), StageOf(ReactiveReact(b, E)), FALSE)
BY StagesOfLeaves
DEF Rung, ReactiveBelonging, ReactiveReact, DisengagedReact, ReactivePreparedReact,
    ReactivePassiveReact, ReactiveActiveReact

LEMMA ProactiveRungs ==
  ASSUME NEW b \in ProactiveBelonging, NEW h, NEW E
  PROVE  Rung(StageOf(b), StageOf(ProactiveReact(b, h, E)), h = "failed")
BY StagesOfLeaves
DEF Rung, ProactiveBelonging, ProactiveReact, DisengagedReact, ProactivePreparedReact,
    ProactivePassiveReact, ProactivePendingEntryReact, ProactiveParticipatingReact,
    ProactivePendingExitReact, ActiveReact

LEMMA ControlledRungs ==
  ASSUME NEW b \in ControlledBelonging, NEW h, NEW E
  PROVE  Rung(StageOf(b), StageOf(ControlledReact(b, h, E)), h = "failed")
BY StagesOfLeaves, ControlledLeaves
DEF Rung, ControlledReact, React, DisengagedReact, PreparedReact, NegotiatingReact,
    AvailableReact, PassiveReact, ControlledPendingEntryReact,
    ControlledParticipatingReact, ControlledPendingExitReact, ActiveReact

LEMMA AdaptiveRungs ==
  ASSUME NEW b \in Belonging, NEW h, NEW E
  PROVE  Rung(StageOf(b), StageOf(React(b, h, E)), h = "failed")
<1> USE StagesOfLeaves DEF Rung, Role, PassiveReact, ActiveReact, ParticipatingReact
<1>1. CASE b \in {"disengaged", "prepared", "negotiating", "available"}
  BY <1>1 DEF React, DisengagedReact, PreparedReact, NegotiatingReact, AvailableReact
<1>2. CASE b \in {"pending_entry", "pending_exit"}
  BY <1>2 DEF React, PendingEntryReact, PendingExitReact
<1>3. CASE b \in {"full_role", "restricted_role"}
  BY <1>3 DEF React, FullRoleReact, RestrictedRoleReact
<1>. QED
  BY <1>1, <1>2, <1>3 DEF Belonging

\* At every level a cycle stays on its rung or goes to a neighbouring one,
\* except that failure, where it is enforced, leads from active to prepared.
LEMMA LevelRungs ==
  ASSUME NEW l \in Levels, NEW b \in BelongingAt(l), NEW h, NEW E
  PROVE  Rung(StageOf(b), StageOf(ReactAt(l, b, h, E)), l > 1 /\ h = "failed")
<1>1. CASE l = 1
  BY <1>1, LeavesOf, ReactionsOf, ReactiveRungs DEF Rung
<1>2. CASE l = 2
  BY <1>2, LeavesOf, ReactionsOf, ProactiveRungs DEF Rung
<1>3. CASE l = 3
  BY <1>3, LeavesOf, ReactionsOf, ControlledRungs DEF Rung
<1>4. CASE l = 4
  BY <1>4, LeavesOf, ReactionsOf, AdaptiveRungs DEF Rung
<1>5. CASE l = 5
  <2>1. \A F : Rung(StageOf(b), StageOf(React(b, h, F)), h = "failed")
    BY <1>5, LeavesOf, AdaptiveRungs
  <2>2. Rung(StageOf(b), StageOf(ExperimentReact(b, h, E)), h = "failed")
    BY <2>1 DEF ExperimentReact
  <2>. QED
    BY <1>5, <2>2, ReactionsOf DEF Rung
<1>. QED
  BY <1>1, <1>2, <1>3, <1>4, <1>5 DEF Levels, Experiment

\* A cycle is a step of the ladder or leaves its stage alone.
LEMMA CycleClimbs ==
  ASSUME IInv, NEW E, RunCycle(E)
  PROVE  Ladder!Next
<1>1. level' = level
  BY DEF RunCycle
<1>2. CASE ~IsActive
  <2>1. StageOf(bel') = StageOf(bel)
    BY <1>2 DEF RunCycle
  <2>. QED
    BY <1>1, <2>1 DEF Ladder!Next
<1>3. CASE IsActive
  <2>1. level \in Levels /\ bel \in BelongingAt(level)
    BY <1>3 DEF IInv, TypeOK, IsActive
  <2>2. bel' = ReactAt(level, bel, health, E)
    BY <1>3 DEF RunCycle
  <2>3. Rung(StageOf(bel), StageOf(bel'), level > 1 /\ health = "failed")
    BY <2>1, <2>2, LevelRungs
  <2>. QED
    BY <1>1, <2>3 DEF Rung, Ladder!Next, Ladder!Climb, Ladder!Descend, Ladder!Evict
<1>. QED
  BY <1>2, <1>3

\* So is every other step.
LEMMA StepClimbs ==
  IInv /\ [Next]_vars => [Ladder!Next]_<<StageOf(bel), health = "failed", level > 1>>
<1> SUFFICES ASSUME IInv, [Next]_vars
             PROVE  Ladder!Next \/ UNCHANGED <<StageOf(bel), health = "failed", level > 1>>
  OBVIOUS
<1>1. CASE Enter
  <2>1. StageOf(bel) = "inactive" /\ StageOf(bel') = "disengaged"
    BY <1>1, StagesOfLeaves DEF Enter, IsActive
  <2>2. health' = "ideal" /\ level' = level
    BY <1>1 DEF Enter
  <2>. QED
    BY <2>1, <2>2 DEF Ladder!Next, Ladder!Enter
<1>2. CASE Exit
  <2>1. StageOf(bel') = "inactive" /\ StageOf(bel) # "inactive"
    BY <1>2, StagesOfLeaves DEF Exit, IsActive, StageOf, Null
  <2>2. level' = level
    BY <1>2 DEF Exit
  <2>. QED
    BY <2>1, <2>2 DEF Ladder!Next, Ladder!Exit
<1>3. ASSUME NEW event, Raise(event) PROVE Ladder!Next
  BY <1>3, CycleClimbs DEF Raise
<1>4. CASE Trigger
  BY <1>4, CycleClimbs DEF Trigger
<1>5. ASSUME NEW e \in TimeEvents, Expire(e)
      PROVE  UNCHANGED <<StageOf(bel), health = "failed", level > 1>>
  BY <1>5 DEF Expire
<1>6. ASSUME NEW e \in TimeEvents, TimeElapsed(e) PROVE Ladder!Next
  BY <1>6, CycleClimbs DEF TimeElapsed
<1>7. CASE UNCHANGED vars
  BY <1>7 DEF vars
<1>. QED
  BY <1>1, <1>2, <1>3, <1>4, <1>5, <1>6, <1>7 DEF Next

\* Every level implements the ladder of Membership: each call, time event and
\* restart maps to one of its steps or to none.
THEOREM LevelsClimb == Spec => ImplementsMembership
<1>1. Init => Ladder!Init
  BY StagesOfLeaves DEF Init, Ladder!Init, Null
<1>2. IInv /\ [Next]_vars => [Ladder!Next]_<<StageOf(bel), health = "failed", level > 1>>
  BY StepClimbs
<1>. QED
  BY <1>1, <1>2, Invariance, PTL DEF Spec, ImplementsMembership, Ladder!Spec

\* At levels 2 to 4, wherever a failed constituent is, one cycle without events
\* puts it out.
THEOREM FailureLeaves == Spec => []TriggerEvicts
<1>1. IInv => TriggerEvicts
  <2> SUFFICES ASSUME IInv, IsActive, level > 1, health = "failed"
               PROVE  StageOf(ReactAt(level, bel, health, {})) \in {"disengaged", "prepared"}
    BY DEF TriggerEvicts
  <2>1. level \in {2, 3, 4, 5} /\ bel \in BelongingAt(level)
    BY DEF IInv, TypeOK, IsActive, Levels, Experiment
  <2>2. \A b \in ProactiveBelonging :
          ProactiveReact(b, "failed", {}) \in {"disengaged", "prepared"}
    BY DEF ProactiveBelonging, ProactiveReact, DisengagedReact, ProactivePreparedReact,
           ProactivePassiveReact, ProactivePendingEntryReact,
           ProactiveParticipatingReact, ProactivePendingExitReact, ActiveReact
  <2>3. \A b \in ControlledBelonging :
          ControlledReact(b, "failed", {}) \in {"disengaged", "prepared"}
    BY ControlledLeaves
    DEF ControlledReact, React, DisengagedReact, PreparedReact, NegotiatingReact,
        AvailableReact, PassiveReact, ControlledPendingEntryReact,
        ControlledParticipatingReact, ControlledPendingExitReact, ActiveReact
  <2>4. \A b \in Belonging : React(b, "failed", {}) \in {"disengaged", "prepared"}
    BY DEF Belonging, React, DisengagedReact, PreparedReact, NegotiatingReact,
           AvailableReact, PassiveReact, PendingEntryReact, FullRoleReact,
           RestrictedRoleReact, ParticipatingReact, PendingExitReact, ActiveReact
  <2>5. \A b : ExperimentReact(b, "failed", {}) = React(b, "failed", {})
    BY DEF ExperimentReact
  <2>6. ReactAt(level, bel, "failed", {}) \in {"disengaged", "prepared"}
    BY <2>1, <2>2, <2>3, <2>4, <2>5, LeavesOf, ReactionsOf
  <2>. QED
    BY <2>6, StagesOfLeaves
<1>. QED
  BY <1>1, Invariance, PTL

=============================================================================
