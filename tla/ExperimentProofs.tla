-------------------------- MODULE ExperimentProofs --------------------------
(***************************************************************************)
(* Theorems about ExperimentRun for every interval and every length of the *)
(* run.                                                                    *)
(***************************************************************************)
EXTENDS ExperimentRun, ChartLemmas, SequenceTheorems

------------------------------------------------------------------------------
(***************************************************************************)
(* Lemmas about one call of the experiments' ModelAdaptor.                 *)
(***************************************************************************)

\* Without events this chart is the one of level 4.
LEMMA WithoutEvents ==
  ASSUME NEW b, NEW h
  PROVE  ExperimentReact(b, h, {}) = React(b, h, {})
BY DEF ExperimentReact

\* A cycle keeps the chart well typed and its signals fitting.
LEMMA CycleStays ==
  ASSUME NEW s, NEW E, ChartFits(s.bel, s.health, s.signals)
  PROVE  LET c == Cycle(s, E) IN ChartFits(c.bel, c.health, c.signals)
<1> DEFINE F == IF "constellation_stable" \in E THEN E \cup TimeEvents ELSE E
           T == Cycle(s, E)
<1>1. /\ T.bel = React(s.bel, s.health, F)
      /\ T.health = HealthReact(s.health, E)
      /\ T.signals = Emitted(s.signals, s.bel, T.bel)
  BY DEF Cycle, ExperimentReact, ExperimentHealthReact
<1> HIDE DEF T
<1>2. ChartFits(React(s.bel, s.health, F), HealthReact(s.health, F),
                Emitted(s.signals, s.bel, React(s.bel, s.health, F)))
  BY CycleFits
<1>3. HealthReact(s.health, E) \in HealthStates
  BY HealthReactType DEF ChartFits
<1>4. ChartFits(T.bel, T.health, T.signals)
  BY <1>1, <1>2, <1>3 DEF ChartFits
<1>. QED
  BY <1>4 DEF T

\* The second cycle of a call leaves nothing for a third, and no health event.
LEMMA CallSettles ==
  ASSUME NEW s, NEW event, ChartFits(s.bel, s.health, s.signals)
  PROVE  LET c == Call(s, event)
         IN  /\ ChartFits(c.bel, c.health, c.signals)
             /\ ExperimentReact(c.bel, c.health, {}) = c.bel
             /\ c.bel = React(ExperimentReact(s.bel, s.health, {event}),
                              HealthReact(s.health, {event}), {})
             /\ c.health = HealthReact(s.health, {event})
<1> DEFINE m == Cycle(s, {event})
           c == Call(s, event)
<1>1. /\ m.bel = ExperimentReact(s.bel, s.health, {event})
      /\ m.health = HealthReact(s.health, {event})
  BY DEF Cycle, ExperimentHealthReact
<1>2. ChartFits(m.bel, m.health, m.signals)
  BY CycleStays
<1>3. c = Cycle(m, {})
  BY DEF Call
<1> HIDE DEF m, c
<1>4. ChartFits(c.bel, c.health, c.signals)
  BY <1>2, <1>3, CycleStays
<1>5. c.bel = React(m.bel, m.health, {}) /\ c.health = m.health
  <2>1. c.bel = ExperimentReact(m.bel, m.health, {}) /\ c.health = HealthReact(m.health, {})
    BY <1>3 DEF Cycle, ExperimentHealthReact
  <2>. QED
    BY <2>1, WithoutEvents, HealthKept
<1>6. React(c.bel, c.health, {}) = c.bel
  BY <1>2, <1>5, OneCycleSettles DEF ChartFits, SettledAt
<1>. QED
  BY <1>1, <1>4, <1>5, <1>6, WithoutEvents DEF c

\* What raising an event does to the chart.
LEMMA RaiseEffect ==
  ASSUME ChartFits(bel, health, signals), NEW event, Raise(event)
  PROVE  /\ ChartFits(bel', health', signals')
         /\ CallsSettle'
         /\ bel' = React(ExperimentReact(bel, health, {event}),
                         HealthReact(health, {event}), {})
         /\ health' = HealthReact(health, {event})
<1> DEFINE s == [bel |-> bel, health |-> health, signals |-> signals]
<1>1. s.bel = bel /\ s.health = health /\ s.signals = signals
  OBVIOUS
<1>2. LET c == Call(s, event) IN bel' = c.bel /\ health' = c.health /\ signals' = c.signals
  BY DEF Raise
<1> HIDE DEF s
<1>. QED
  BY <1>1, <1>2, CallSettles DEF CallsSettle

------------------------------------------------------------------------------
(***************************************************************************)
(* How far a constituent is from a role, in calls of                       *)
(* step_towards_belonging.                                                 *)
(***************************************************************************)
Distance == [disengaged |-> 5, prepared |-> 4, available |-> 3, negotiating |-> 2,
             pending_entry |-> 1, pending_exit |-> 1, full_role |-> 0,
             restricted_role |-> 0]

LEMMA DistanceType ==
  /\ \A b \in Belonging : Distance[b] \in 0..5
  /\ \A b \in Belonging : Distance[b] = 0 <=> b \in Participating
BY DEF Distance, Belonging, Participating

\* An event that is no health event leaves the health alone.
LEMMA PolicyIsBelonging ==
  ASSUME NEW g, NEW b, NEW h
  PROVE  HealthReact(h, {Policy(g, b)}) = h
<1>1. Policy(g, b) \notin HealthEvents
  BY DEF Policy, HealthEvents, None
<1>. QED
  BY <1>1, HealthKept

\* A healthy constituent that is asked for a role gets one call nearer to it.
LEMMA OneCallNearer ==
  ASSUME NEW b \in Belonging, NEW h \in Healthy, NEW g \in RoleGoals
  PROVE  LET e == Policy(g, b)
         IN  /\ e = None => Distance[b] = 0
             /\ e # None => Distance[React(ExperimentReact(b, h, {e}), h, {})]
                              = IF Distance[b] = 0 THEN 0 ELSE Distance[b] - 1
<1> USE DEF Policy, RoleGoals, Participating, Passive, Active, None, Healthy, Distance
<1>1. CASE b = "disengaged"
  <2>1. Policy(g, b) = "prepare_for_so_s"
    BY <1>1
  <2>2. ExperimentReact(b, h, {"prepare_for_so_s"}) = "prepared"
    BY <1>1 DEF ExperimentReact, React, DisengagedReact
  <2>3. React("prepared", h, {}) = "prepared"
    BY DEF React, PreparedReact
  <2>. QED
    BY <1>1, <2>1, <2>2, <2>3
<1>2. CASE b = "prepared"
  <2>1. Policy(g, b) = "join_so_s"
    BY <1>2
  <2>2. ExperimentReact(b, h, {"join_so_s"}) = "available"
    BY <1>2 DEF ExperimentReact, React, PreparedReact
  <2>3. React("available", h, {}) = "available"
    BY DEF React, AvailableReact, PassiveReact
  <2>. QED
    BY <1>2, <2>1, <2>2, <2>3
<1>3. CASE b = "available"
  <2>1. Policy(g, b) = "join_invitation"
    BY <1>3
  <2>2. ExperimentReact(b, h, {"join_invitation"}) = "negotiating"
    BY <1>3 DEF ExperimentReact, React, AvailableReact
  <2>3. React("negotiating", h, {}) = "negotiating"
    BY DEF React, NegotiatingReact, PassiveReact
  <2>. QED
    BY <1>3, <2>1, <2>2, <2>3
<1>4. CASE b = "negotiating"
  <2>1. Policy(g, b) = "join_constellation"
    BY <1>4
  <2>2. ExperimentReact(b, h, {"join_constellation"}) = "pending_entry"
    BY <1>4 DEF ExperimentReact, React, NegotiatingReact
  <2>3. React("pending_entry", h, {}) = "pending_entry"
    BY DEF React, PendingEntryReact, ActiveReact
  <2>. QED
    BY <1>4, <2>1, <2>2, <2>3
<1>5. React("full_role", h, {}) = "full_role"
  BY DEF React, FullRoleReact, ParticipatingReact, ActiveReact
<1>6. CASE b = "pending_entry"
  <2>1. Policy(g, b) = "constellation_stable"
    BY <1>6
  <2>2. ExperimentReact(b, h, {"constellation_stable"}) = "full_role"
    BY <1>6 DEF ExperimentReact, TimeEvents, React, PendingEntryReact, Role
  <2>. QED
    BY <1>5, <1>6, <2>1, <2>2
<1>7. CASE b = "pending_exit"
  <2>1. Policy(g, b) = "exit_denied"
    BY <1>7
  <2>2. ExperimentReact(b, h, {"exit_denied"}) = "full_role"
    BY <1>7 DEF ExperimentReact, React, PendingExitReact, Role
  <2>. QED
    BY <1>5, <1>7, <2>1, <2>2
<1>8. CASE b \in Participating
  <2>1. Policy(g, b) = None
    BY <1>8
  <2>2. Distance[b] = 0
    BY <1>8
  <2> HIDE DEF Policy
  <2>. QED
    BY <2>1, <2>2
<1>. QED
  BY <1>1, <1>2, <1>3, <1>4, <1>6, <1>7, <1>8 DEF Belonging

\* Between healthy states, health events do not move a constituent away.
LEMMA HealthyStaysNear ==
  ASSUME NEW b \in Belonging, NEW h \in Healthy, NEW k \in Healthy,
         NEW e \in HealthEvents
  PROVE  Distance[React(ExperimentReact(b, h, {e}), k, {})] = Distance[b]
<1>1. ExperimentReact(b, h, {e}) \in {b} \cup Participating
      /\ (ExperimentReact(b, h, {e}) = b \/ b \in Participating)
  BY DEF HealthEvents, Healthy, Belonging, Participating, ExperimentReact, React,
         DisengagedReact, PreparedReact, NegotiatingReact, AvailableReact, PassiveReact,
         PendingEntryReact, FullRoleReact, RestrictedRoleReact, ParticipatingReact,
         PendingExitReact, ActiveReact
<1>2. \A c \in Belonging : /\ React(c, k, {}) \in {c} \cup Participating
                           /\ React(c, k, {}) = c \/ c \in Participating
  BY DEF Healthy, Belonging, Participating, React,
         DisengagedReact, PreparedReact, NegotiatingReact, AvailableReact, PassiveReact,
         PendingEntryReact, FullRoleReact, RestrictedRoleReact, ParticipatingReact,
         PendingExitReact, ActiveReact
<1>. QED
  BY <1>1, <1>2 DEF Distance, Belonging, Participating

\* ensure_health only ever raises health events, and passes through nothing but
\* healthy states on its way from one to another.
LEMMA HealthStepEvent ==
  ASSUME health \in HealthStates, target \in HealthStates
  PROVE  HealthStep \in HealthEvents
BY DEF HealthStep, HealthEvents, HealthStates, Rank

LEMMA HealthyOnTheWay ==
  ASSUME health \in Healthy, target \in Healthy
  PROVE  HealthReact(health, {HealthStep}) \in Healthy
<1>1. CASE target = "ideal"
  BY <1>1 DEF HealthStep, HealthReact, Healthy
<1>2. CASE target # "ideal" /\ Rank[target] > Rank[health]
  BY <1>2 DEF HealthStep, HealthReact, Healthy, Rank, Worse
<1>3. CASE target # "ideal" /\ Rank[target] <= Rank[health]
  BY <1>3 DEF HealthStep, HealthReact, Healthy, Rank, Better
<1>. QED
  BY <1>1, <1>2, <1>3 DEF Healthy, Rank

------------------------------------------------------------------------------
(***************************************************************************)
(* The chart and the scenario.  CallsSettle is inductive with the types of *)
(* the chart; ParticipatesInTime is not: it needs the distance that is     *)
(* left in every tick of a streak.                                         *)
(***************************************************************************)
Places == {"tick", "health", "belonging", "source", "dispatch", "reconstruct"}

Settled == ChartFits(bel, health, signals) /\ CallsSettle

Asked ==
  /\ at \in Places
  /\ target \in HealthStates /\ goal \in Goals /\ streak \in 0..StepsToParticipate
  /\ at = "belonging" => health = target
  /\ streak >= 1 => goal \in RoleGoals /\ target \in Healthy

Nearing ==
  /\ streak >= 1 /\ at \notin {"health", "belonging"}
       => health \in Healthy /\ Distance[bel] + streak <= 5
  /\ streak >= 2 /\ at \in {"health", "belonging"}
       => health \in Healthy /\ Distance[bel] + streak <= 6

ChartInv == Settled /\ Asked /\ Nearing

LEMMA InitChart == Init => ChartInv
<1> SUFFICES ASSUME Init PROVE ChartInv
  OBVIOUS
<1>1. ChartFits(bel, health, signals)
  BY DEF Init, ChartFits, SignalsFit, Belonging, HealthStates, Signals, NoSignals, Inside,
         Passive, Active, Participating
<1>2. CallsSettle
  BY WithoutEvents DEF Init, CallsSettle, React, DisengagedReact
<1>3. Asked /\ Nearing
  BY DEF Init, Asked, Nearing, Places, HealthStates, Goals, Belonging, StepsToParticipate
<1>. QED
  BY <1>1, <1>2, <1>3 DEF ChartInv, Settled

\* Steps that leave the chart and the scenario alone, and do not pass by the
\* calls of the tick.
LEMMA ChartKept ==
  ASSUME ChartInv, UNCHANGED <<chart, target, goal, streak>>,
         at \notin {"health", "belonging"}, at' \in Places \ {"health", "belonging"}
  PROVE  ChartInv'
BY DEF ChartInv, Settled, CallsSettle, Asked, Nearing, chart

LEMMA NextChart == ChartInv /\ [Next]_vars => ChartInv'
<1> SUFFICES ASSUME ChartInv, [Next]_vars PROVE ChartInv'
  OBVIOUS
<1> USE DEF ChartInv
<1>0. bel \in Belonging /\ health \in HealthStates
  BY DEF Settled, ChartFits
<1>1. CASE Tick
  <2>1. Settled'
    BY <1>1 DEF Tick, Settled, CallsSettle, chart
  <2>2. Asked'
    BY <1>1 DEF Tick, Goto, Asked, Places, StepsToParticipate
  <2>3. Nearing'
    BY <1>0, <1>1, DistanceType DEF Tick, Goto, Asked, Nearing, StepsToParticipate, chart
  <2>. QED
    BY <2>1, <2>2, <2>3
<1>2. CASE StepHealth
  <2>1. /\ Raise(HealthStep) /\ HealthStep \in HealthEvents
        /\ UNCHANGED <<target, goal, streak, at>> /\ at = "health"
    BY <1>0, <1>2, HealthStepEvent DEF StepHealth, Asked, history
  <2>2. /\ Settled'
        /\ bel' = React(ExperimentReact(bel, health, {HealthStep}), health', {})
        /\ health' = HealthReact(health, {HealthStep})
    BY <2>1, RaiseEffect DEF Settled
  <2>3. streak >= 2 => health' \in Healthy /\ Distance[bel'] = Distance[bel]
    BY <1>0, <2>1, <2>2, HealthyOnTheWay, HealthyStaysNear DEF Asked, Nearing
  <2>. QED
    BY <2>1, <2>2, <2>3 DEF Asked, Nearing
<1>3. CASE HealthSet
  BY <1>3 DEF HealthSet, Goto, Settled, CallsSettle, Asked, Nearing, chart, history, Places
<1>4. CASE StepBelonging
  <2>1. /\ UNCHANGED <<target, goal, streak>> /\ at = "belonging" /\ at' = "source"
        /\ health = target
    BY <1>4 DEF StepBelonging, Goto, Asked, history
  <2>2. /\ Settled' /\ health' = health
        /\ streak >= 1 => Distance[bel'] = IF Distance[bel] = 0 THEN 0 ELSE Distance[bel] - 1
    <3>1. CASE Policy(goal, bel) = None
      <4>1. UNCHANGED chart
        BY <1>4, <3>1 DEF StepBelonging
      <4>2. streak >= 1 => Distance[bel] = 0
        BY <1>0, <2>1, <3>1, OneCallNearer DEF Asked
      <4>. QED
        BY <4>1, <4>2 DEF Settled, CallsSettle, chart
    <3>2. CASE Policy(goal, bel) # None
      <4>1. Raise(Policy(goal, bel))
        BY <1>4, <3>2 DEF StepBelonging
      <4>2. /\ Settled' /\ health' = health
            /\ bel' = React(ExperimentReact(bel, health, {Policy(goal, bel)}), health, {})
        BY <4>1, RaiseEffect, PolicyIsBelonging DEF Settled
      <4>. QED
        BY <1>0, <2>1, <3>2, <4>2, OneCallNearer DEF Asked
    <3>. QED
      BY <3>1, <3>2
  <2>3. Asked'
    BY <2>1, <2>2 DEF Asked, Places
  <2>4. Nearing'
    BY <1>0, <2>1, <2>2, DistanceType DEF Asked, Nearing, StepsToParticipate
  <2>. QED
    BY <2>2, <2>3, <2>4
<1>5. CASE Silent
  BY <1>5, ChartKept DEF Silent, Goto, Places, history
<1>6. CASE Publish
  BY <1>6, ChartKept DEF Publish, Goto, Places
<1>7. CASE Dispatch
  BY <1>7, ChartKept DEF Dispatch, Goto, Places
<1>8. CASE Judge
  BY <1>8, ChartKept DEF Judge, Places
<1>9. CASE EndTick
  BY <1>9, ChartKept DEF EndTick, Goto, Places, history
<1>10. CASE UNCHANGED vars
  BY <1>10 DEF vars, chart, history, Settled, CallsSettle, Asked, Nearing
<1>. QED
  BY <1>1, <1>2, <1>3, <1>4, <1>5, <1>6, <1>7, <1>8, <1>9, <1>10 DEF Next

LEMMA ChartInvariance == Spec => []ChartInv
  BY InitChart, NextChart, PTL DEF Spec

\* After every call of the experiments' ModelAdaptor a further cycle would
\* change nothing, whatever health and goals the scenario asks for.
THEOREM CallsAlwaysSettle == Spec => []CallsSettle
<1>1. ChartInv => CallsSettle
  BY DEF ChartInv, Settled
<1>. QED
  BY <1>1, ChartInvariance, PTL

\* Five ticks of asking bring a healthy constituent into a role from anywhere.
THEOREM FiveTicksSuffice == Spec => []ParticipatesInTime
<1>1. ChartInv => ParticipatesInTime
  <2> SUFFICES ASSUME ChartInv, streak = StepsToParticipate,
                      at \in {"source", "dispatch", "reconstruct"}
               PROVE  bel \in Participating
    BY DEF ParticipatesInTime
  <2>1. bel \in Belonging /\ Distance[bel] + 5 <= 5
    BY DEF ChartInv, Settled, ChartFits, Nearing, StepsToParticipate
  <2>. QED
    BY <2>1, DistanceType
<1>. QED
  BY <1>1, ChartInvariance, PTL

------------------------------------------------------------------------------
(***************************************************************************)
(* Lemmas about slots and about what is on its way.                        *)
(***************************************************************************)

\* Slots are the multiples of the interval; two successive ticks are slots only
\* if every tick is one.
LEMMA Multiple ==
  ASSUME NEW n \in Nat, n % Interval = 0
  PROVE  \E q \in Nat : n = q * Interval
BY TicksAssumption

LEMMA MultipleIsSlot ==
  ASSUME NEW q \in Nat
  PROVE  (q * Interval) % Interval = 0
BY TicksAssumption

LEMMA NextSlot ==
  ASSUME NEW n \in Nat, n % Interval = 0
  PROVE  (n + Interval) % Interval = 0
<1>1. PICK q \in Nat : n = q * Interval
  BY Multiple
<1>2. n + Interval = (q + 1) * Interval /\ q + 1 \in Nat
  BY <1>1, TicksAssumption
<1>. QED
  BY <1>2, MultipleIsSlot

LEMMA SuccessiveSlots ==
  ASSUME NEW n \in Nat, n % Interval = 0, (n + 1) % Interval = 0
  PROVE  Interval = 1
BY TicksAssumption

\* A partition that carries no more than the event of tick u; and one that may
\* carry the event of the tick before u, and after it that of u.
Carries(u, q) ==
  q \in Seq(Nat) /\ Len(q) <= 1 /\ \A i \in 1..Len(q) : q[i] = u

CarriesBoth(u, q) ==
  /\ q \in Seq(Nat) /\ Len(q) <= 2
  /\ \A i \in 1..Len(q) : q[i] = u \/ (i = 1 /\ q[i] = u - 1)
  /\ Len(q) = 2 => q[1] = u - 1

LEMMA PublishedLast ==
  ASSUME NEW u \in Nat \ {0}, NEW q, Carries(u - 1, q)
  PROVE  /\ CarriesBoth(u, q) /\ CarriesBoth(u, Append(q, u))
         /\ Len(Append(q, u)) >= 1 /\ Append(q, u)[Len(Append(q, u))] = u
         /\ Len(q) >= 1 => Append(q, u)[1] = q[1]
BY DEF Carries, CarriesBoth

\* What a poll hands over and what it leaves, when it hands over at least the
\* event of the tick before.
Split(u, q, h, r) ==
  /\ Carries(u, r) /\ CarriesBoth(u, h)
  /\ Len(q) >= 1 /\ q[1] = u - 1 => Len(h) >= 1
  /\ Len(q) >= 1 /\ q[Len(q)] = u => Len(r) = 1 \/ (Len(h) >= 1 /\ h[Len(h)] = u)
  /\ Len(h) >= 1 => \E i \in 1..Len(q) : h[Len(h)] = q[i]
  /\ Len(r) >= 1 => \E i \in 1..Len(q) : q[i] = u

LEMMA PollSplits ==
  ASSUME NEW u \in Nat \ {0}, NEW q, CarriesBoth(u, q), NEW k \in 0..Len(q),
         \A i \in 1..Len(q) : q[i] < u => i <= k
  PROVE  Split(u, q, SubSeq(q, 1, k), SubSeq(q, k + 1, Len(q)))
<1> DEFINE h == SubSeq(q, 1, k)
           r == SubSeq(q, k + 1, Len(q))
<1>1. /\ q \in Seq(Nat) /\ Len(q) \in {0, 1, 2} /\ k \in Nat /\ k <= Len(q)
      /\ \A i \in 1..Len(q) : q[i] \in Nat
  <2>1. q \in Seq(Nat) /\ Len(q) \in Nat /\ Len(q) <= 2
    BY DEF CarriesBoth
  <2>2. \A n \in Nat : n <= 2 => n \in {0, 1, 2}
    OBVIOUS
  <2>3. Len(q) \in {0, 1, 2}
    BY <2>1, <2>2, Zenon
  <2>4. k \in Nat /\ k <= Len(q)
    BY <2>1
  <2>. QED
    BY <2>1, <2>3, <2>4
<1>2. h \in Seq(Nat) /\ Len(h) = k /\ \A i \in 1..k : h[i] = q[i]
  BY <1>1
<1>3. r \in Seq(Nat) /\ Len(r) = Len(q) - k /\ \A i \in 1..(Len(q) - k) : r[i] = q[k + i]
  BY <1>1
<1> HIDE DEF h, r
<1>4. Carries(u, r)
  <2>1. Len(q) - k <= 1
    <3>1. CASE Len(q) = 2
      <4>1. q[1] < u /\ 1 \in 1..Len(q)
        BY <3>1 DEF CarriesBoth
      <4>. QED
        BY <1>1, <3>1, <4>1
    <3>2. CASE Len(q) \in {0, 1}
      BY <1>1, <3>2
    <3>. QED
      BY <1>1, <3>1, <3>2
  <2>2. \A i \in 1..(Len(q) - k) : k + i \in 1..Len(q) /\ ~(k + i <= k)
    BY <1>1
  <2>3. \A i \in 1..(Len(q) - k) : q[k + i] = u
    BY <1>1, <2>2 DEF CarriesBoth
  <2>. QED
    BY <1>3, <2>1, <2>3 DEF Carries
<1>5. CarriesBoth(u, h)
  <2>1. \A i \in 1..k : i \in 1..Len(q)
    BY <1>1
  <2>2. \A i \in 1..k : h[i] = u \/ (i = 1 /\ h[i] = u - 1)
    BY <1>2, <2>1 DEF CarriesBoth
  <2>3. k = 2 => h[1] = u - 1
    BY <1>1, <1>2 DEF CarriesBoth
  <2>. QED
    BY <1>1, <1>2, <2>2, <2>3 DEF CarriesBoth
<1>6. Len(q) >= 1 /\ q[1] = u - 1 => Len(h) >= 1
  BY <1>1, <1>2
<1>7. Len(q) >= 1 /\ q[Len(q)] = u => Len(r) = 1 \/ (Len(h) >= 1 /\ h[Len(h)] = u)
  <2>1. CASE k = Len(q)
    BY <1>1, <1>2, <2>1
  <2>2. CASE k < Len(q)
    BY <1>1, <1>3, <1>4, <2>2 DEF Carries
  <2>. QED
    BY <1>1, <2>1, <2>2
<1>8. Len(h) >= 1 => \E i \in 1..Len(q) : h[Len(h)] = q[i]
  <2> SUFFICES ASSUME Len(h) >= 1 PROVE \E i \in 1..Len(q) : h[Len(h)] = q[i]
    OBVIOUS
  <2>1. Len(h) \in 1..Len(q) /\ Len(h) \in 1..k
    BY <1>1, <1>2
  <2>. QED
    BY <1>2, <2>1
<1>9. Len(r) >= 1 => \E i \in 1..Len(q) : q[i] = u
  <2> SUFFICES ASSUME Len(r) >= 1 PROVE \E i \in 1..Len(q) : q[i] = u
    OBVIOUS
  <2>1. k + 1 \in 1..Len(q) /\ 1 \in 1..(Len(q) - k) /\ 1 \in 1..Len(r)
    BY <1>1, <1>3
  <2>. QED
    BY <1>3, <1>4, <2>1 DEF Carries
<1>. QED
  BY <1>4, <1>5, <1>6, <1>7, <1>8, <1>9 DEF Split, h, r

\* The event handled last is one of the two ticks', and the last one of the
\* second partition if that has handed over any.
LEMMA HandledLast ==
  ASSUME NEW u \in Nat \ {0}, NEW a, NEW b, CarriesBoth(u, a), CarriesBoth(u, b)
  PROVE  LET h == a \o b
         IN  /\ h = <<>> <=> Len(a) = 0 /\ Len(b) = 0
             /\ h # <<>> => /\ Len(h) \in 1..Len(h)
                            /\ h[Len(h)] \in {u - 1, u}
             /\ Len(b) >= 1 => h[Len(h)] = b[Len(b)]
             /\ Len(b) = 0 /\ Len(a) >= 1 => h[Len(h)] = a[Len(a)]
<1> DEFINE h == a \o b
<1>1. a \in Seq(Nat) /\ b \in Seq(Nat) /\ Len(a) \in Nat /\ Len(b) \in Nat
  BY DEF CarriesBoth
<1>2. /\ h \in Seq(Nat) /\ Len(h) = Len(a) + Len(b)
      /\ Len(b) >= 1 => h[Len(h)] = b[Len(b)]
      /\ Len(b) = 0 /\ Len(a) >= 1 => h[Len(h)] = a[Len(a)]
  BY <1>1
<1>3. h = <<>> <=> Len(h) = 0
  BY <1>2
<1> HIDE DEF h
<1>4. /\ Len(a) >= 1 => a[Len(a)] \in {u - 1, u}
      /\ Len(b) >= 1 => b[Len(b)] \in {u - 1, u}
  BY <1>1 DEF CarriesBoth
<1>. QED
  BY <1>1, <1>2, <1>3, <1>4 DEF h

------------------------------------------------------------------------------
(***************************************************************************)
(* Events and slots.  NoSlotTwice and SilentSlotsAreReconstructed compare  *)
(* last_observed_ts with the slot that is judged; the invariant says why   *)
(* that is enough.  The schedule is at most one slot behind the clock      *)
(* (Pace), the events of the last two ticks are all that can be on their   *)
(* way (Dated, Carried), last_observed_ts is the time of a real event and  *)
(* of this tick only if that was handled promptly (Seen), and a validated  *)
(* event is either on its way or has been seen (Handed).                   *)
(***************************************************************************)
Early == {"health", "belonging", "source"}
Late  == {"reconstruct", "tick"}

Validated == transit["observed.validated"]

Pace ==
  /\ t \in 0..MaxTick /\ (at # "tick" => t >= 1)
  /\ next_ts \in Nat /\ next_ts % Interval = 0 /\ next_ts <= t + Interval
  /\ t <= next_ts + 1 /\ (at = "tick" => t <= next_ts)

Dated ==
  /\ published \subseteq (1..MaxTick) \X BOOLEAN
  /\ \A e \in published : /\ e[1] % Interval = 0 /\ e[1] \in {t - 1, t}
                          /\ at \in Early => e[1] = t - 1

Carried ==
  /\ transit \in [Observed -> Seq(Nat)]
  /\ \A p \in Observed :
       /\ at \in Early => Carries(t - 1, transit[p])
       /\ at = "dispatch" => CarriesBoth(t, transit[p])
       /\ at \in Late => Carries(t, transit[p])
       /\ \A i \in 1..Len(transit[p]) : \E v \in BOOLEAN : <<transit[p][i], v>> \in published

Seen ==
  /\ last \in Nat /\ last <= t /\ prompt \in BOOLEAN
  /\ at \notin Late => last < t
  /\ last = t /\ t >= 1 => prompt
  /\ last >= 1 /\ last >= t - 1 => \E v \in BOOLEAN : <<last, v>> \in published

Handed ==
  /\ dynamic \in 0..MaxTick /\ dynamic <= t
  /\ \A s \in Nat : <<s, TRUE>> \in published /\ s # dynamic =>
       /\ s = t - 1 => \/ last >= s
                       \/ at \notin Late /\ Len(Validated) >= 1 /\ Validated[1] = s
       /\ s = t => \/ last >= s
                   \/ Len(Validated) >= 1 /\ Validated[Len(Validated)] = s

Judged ==
  /\ verdict \in [slot : Nat, told : BOOLEAN, made : BOOLEAN, came : SUBSET BOOLEAN,
                   passed : BOOLEAN, started : BOOLEAN]
  /\ verdict.made /\ TRUE \in verdict.came => verdict.slot = dynamic /\ dynamic # Never
  /\ SilentSlotsAreReconstructed

DataInv == Pace /\ Dated /\ Carried /\ Seen /\ Handed /\ Judged

LEMMA InitData == Init => DataInv
<1> SUFFICES ASSUME Init PROVE DataInv
  OBVIOUS
<1>1. Pace
  <2>1. Interval = 1 * Interval
    BY TicksAssumption
  <2>2. Interval % Interval = 0
    BY <2>1, MultipleIsSlot
  <2>. QED
    BY <2>2, TicksAssumption DEF Init, Pace
<1>2. Dated
  BY DEF Init, Dated
<1>5. Seen
  <2>1. last = 0 /\ t = 0 /\ prompt \in BOOLEAN /\ at \in Late
    BY DEF Init, Never, Late
  <2>. QED
    BY <2>1 DEF Seen
<1>6. Handed
  BY TicksAssumption DEF Init, Handed, Never
<1>3. Carried
  BY DEF Init, Carried, Carries, Early, Late, Observed
<1>4. Judged
  BY DEF Init, Judged, SilentSlotsAreReconstructed
<1>. QED
  BY <1>1, <1>2, <1>3, <1>4, <1>5, <1>6 DEF DataInv

\* The steps of a tick that move neither events nor slots.
LEMMA DataKept ==
  ASSUME DataInv, UNCHANGED <<t, transit, dynamic, last, next_ts, published, prompt, verdict>>,
         \/ at \in Early /\ at' \in Early
         \/ at = "source" /\ at' = "dispatch"
         \/ at = "reconstruct" /\ at' = "tick" /\ t <= next_ts
  PROVE  DataInv'
<1> USE DEF DataInv
<1>1. Pace' /\ Dated' /\ Seen' /\ Handed'
  BY DEF Pace, Dated, Seen, Handed, Early, Late, Validated
<1>2. Carried'
  <2>1. \A p \in Observed : at = "source" => CarriesBoth(t, transit[p])
    BY PublishedLast DEF Pace, Carried, Early
  <2>. QED
    BY <2>1 DEF Carried, Early, Late
<1>3. Judged'
  BY DEF Judged, SilentSlotsAreReconstructed
<1>. QED
  BY <1>1, <1>2, <1>3

LEMMA TickData == DataInv /\ Tick => DataInv'
<1> SUFFICES ASSUME DataInv, Tick PROVE DataInv'
  OBVIOUS
<1> USE DEF DataInv
<1>1. /\ at = "tick" /\ at' = "health" /\ t' = t + 1 /\ t \in Nat /\ t + 1 <= MaxTick
      /\ published' = {e \in published : e[1] = t}
      /\ UNCHANGED <<transit, dynamic, last, next_ts, verdict>> /\ prompt' = FALSE
  BY TicksAssumption DEF Tick, Goto, Pace
<1>2. \A v : <<t, v>> \in published => <<t, v>> \in published'
  BY <1>1
<1>3. Pace'
  BY <1>1, TicksAssumption DEF Pace
<1>4. Dated'
  BY <1>1 DEF Dated, Early
<1>5. Carried'
  BY <1>1, <1>2 DEF Carried, Carries, Early, Late
<1>6. Seen'
  <2>1. last \in Nat /\ last <= t
    BY DEF Seen
  <2>2. last >= 1 /\ last >= t => \E v \in BOOLEAN : <<last, v>> \in published'
    <3> SUFFICES ASSUME last >= 1, last >= t
                 PROVE  \E v \in BOOLEAN : <<last, v>> \in published'
      OBVIOUS
    <3>1. last = t
      BY <1>1, <2>1
    <3>2. PICK v \in BOOLEAN : <<last, v>> \in published
      BY <1>1, <3>1 DEF Seen
    <3>. QED
      BY <1>2, <3>1, <3>2
  <2>3. last' \in Nat /\ last' < t'
    BY <1>1, <2>1
  <2>4. prompt' \in BOOLEAN
    BY <1>1
  <2>. QED
    BY <1>1, <2>2, <2>3, <2>4 DEF Seen
<1>7. Handed'
  <2>1. \A s : <<s, TRUE>> \in published' => <<s, TRUE>> \in published /\ s = t
    BY <1>1
  <2>2. Len(Validated) >= 1 => Validated[1] = t /\ Validated[Len(Validated)] = t
    BY <1>1 DEF Carried, Carries, Late, Validated, Observed
  <2>3. dynamic' \in 0..MaxTick /\ dynamic' <= t'
    BY <1>1 DEF Handed
  <2>4. \A s \in Nat : <<s, TRUE>> \in published' /\ s # dynamic' =>
          s = t /\ (last >= s \/ (Len(Validated) >= 1 /\ Validated[1] = s))
    BY <1>1, <2>1, <2>2 DEF Handed
  <2>5. Validated' = Validated
    BY <1>1 DEF Validated
  <2>. QED
    BY <1>1, <2>3, <2>4, <2>5 DEF Handed, Late
<1>8. Judged'
  BY <1>1 DEF Judged, SilentSlotsAreReconstructed
<1>. QED
  BY <1>3, <1>4, <1>5, <1>6, <1>7, <1>8

LEMMA PublishData == DataInv /\ ChartInv /\ Publish => DataInv'
<1> SUFFICES ASSUME DataInv, ChartInv, Publish PROVE DataInv'
  OBVIOUS
<1> USE DEF DataInv
<1> DEFINE v == signals.validated
<1>1. /\ at = "source" /\ at' = "dispatch" /\ t % Interval = 0 /\ t \in 1..MaxTick
      /\ published' = published \cup {<<t, v>>}
      /\ UNCHANGED <<t, last, next_ts, prompt, verdict>>
  BY DEF Publish, Goto, Pace
<1>2. v \in BOOLEAN
  BY DEF ChartInv, Settled, ChartFits, Signals
<1>3. Partition \in Observed /\ (Partition = "observed.validated" <=> v)
  BY <1>2 DEF Partition, Observed
<1> HIDE DEF v
<1>4. \/ transit' = [transit EXCEPT ![Partition] = Append(@, t)]
      \/ dynamic' = t /\ UNCHANGED transit
  BY DEF Publish
<1>5. transit \in [Observed -> Seq(Nat)]
  BY DEF Carried
<1>6. \A p \in Observed : Carries(t - 1, transit[p])
  BY <1>1 DEF Carried, Early
<1>7. /\ transit' \in [Observed -> Seq(Nat)]
      /\ \A p \in Observed : \/ transit'[p] = transit[p]
                             \/ p = Partition /\ transit'[p] = Append(transit[p], t)
  <2>1. t \in Nat /\ \A p \in Observed : transit[p] \in Seq(Nat)
    BY <1>1, <1>5
  <2>2. Append(transit[Partition], t) \in Seq(Nat)
    BY <1>3, <2>1
  <2>3. CASE transit' = [transit EXCEPT ![Partition] = Append(@, t)]
    BY <1>3, <1>5, <2>2, <2>3
  <2>4. CASE UNCHANGED transit
    BY <1>5, <2>4
  <2>. QED
    BY <1>4, <2>3, <2>4
<1>14. \A p \in Observed :
        /\ CarriesBoth(t, transit[p]) /\ CarriesBoth(t, Append(transit[p], t))
        /\ Len(Append(transit[p], t)) >= 1
        /\ Append(transit[p], t)[Len(Append(transit[p], t))] = t
        /\ Len(transit[p]) >= 1 => Append(transit[p], t)[1] = transit[p][1]
  <2>1. t \in Nat \ {0}
    BY <1>1
  <2>. QED
    BY <1>6, <2>1, PublishedLast
<1>8. Pace'
  BY <1>1, TicksAssumption DEF Pace
<1>9. Dated'
  <2>1. published' \subseteq (1..MaxTick) \X BOOLEAN
    BY <1>1, <1>2 DEF Dated
  <2>2. ASSUME NEW e \in published'
        PROVE  e[1] % Interval = 0 /\ e[1] \in {t - 1, t}
    BY <1>1, <2>2 DEF Dated
  <2>. QED
    BY <1>1, <2>1, <2>2 DEF Dated, Early
<1>10. Carried'
  <2>1. ASSUME NEW p \in Observed PROVE CarriesBoth(t, transit'[p])
    BY <1>7, <1>14
  <2>2. ASSUME NEW p \in Observed, NEW i \in 1..Len(transit'[p])
        PROVE  \E w \in BOOLEAN : <<transit'[p][i], w>> \in published'
    <3>1. (i \in 1..Len(transit[p]) /\ transit'[p][i] = transit[p][i]) \/ transit'[p][i] = t
      <4>1. transit[p] \in Seq(Nat)
        BY <1>5
      <4>2. \A q \in Seq(Nat) : \A k \in 1..Len(Append(q, t)) :
              (k \in 1..Len(q) /\ Append(q, t)[k] = q[k]) \/ Append(q, t)[k] = t
        BY <1>1
      <4>. QED
        BY <1>7, <4>1, <4>2
    <3>2. i \in 1..Len(transit[p]) =>
            \E w \in BOOLEAN : <<transit[p][i], w>> \in published'
      BY <1>1 DEF Carried
    <3>3. <<t, v>> \in published'
      BY <1>1
    <3>. QED
      BY <1>2, <3>1, <3>2, <3>3
  <2>. QED
    BY <1>1, <1>7, <2>1, <2>2 DEF Carried, Early, Late
<1>11. Seen'
  <2>1. last \in Nat /\ last < t /\ prompt \in BOOLEAN
    BY <1>1 DEF Seen, Late
  <2>2. last >= 1 /\ last >= t - 1 => \E w \in BOOLEAN : <<last, w>> \in published'
    BY <1>1 DEF Seen
  <2>. QED
    BY <1>1, <2>1, <2>2 DEF Seen
<1>12. Handed'
  <2>1. /\ dynamic' \in {dynamic, t} /\ dynamic \in 0..MaxTick /\ dynamic <= t
        /\ dynamic' # dynamic => dynamic = 0
    BY DEF Publish, Handed, Never
  <2>2. ASSUME NEW s \in Nat, <<s, TRUE>> \in published', s # dynamic', s = t - 1
        PROVE  last >= s \/ (Len(Validated') >= 1 /\ Validated'[1] = s)
    <3>1. <<s, TRUE>> \in published /\ s >= 1
      <4>1. <<s, TRUE>> # <<t, v>>
        <5>1. s # t
          BY <1>1, <2>2
        <5>. QED
          BY <5>1
      <4>2. <<s, TRUE>> \in published
        BY <1>1, <2>2, <4>1
      <4>3. <<s, TRUE>> \in (1..MaxTick) \X BOOLEAN
        BY <4>2 DEF Dated
      <4>. QED
        BY <4>2, <4>3
    <3>2. s # dynamic
      BY <2>1, <2>2, <3>1
    <3>3. last >= s \/ (Len(Validated) >= 1 /\ Validated[1] = s)
      BY <1>1, <2>2, <3>1, <3>2 DEF Handed
    <3>4. Len(Validated) >= 1 => Len(Validated') >= 1 /\ Validated'[1] = Validated[1]
      <4>1. "observed.validated" \in Observed
        BY DEF Observed
      <4>2. Validated' = Validated \/ Validated' = Append(Validated, t)
        BY <1>7, <4>1 DEF Validated
      <4>3. Len(Validated) >= 1 =>
              Len(Append(Validated, t)) >= 1 /\ Append(Validated, t)[1] = Validated[1]
        BY <1>14, <4>1 DEF Validated
      <4>. QED
        BY <4>2, <4>3
    <3>. QED
      BY <3>3, <3>4
  <2>3. ASSUME NEW s \in Nat, <<s, TRUE>> \in published', s # dynamic', s = t
        PROVE  Len(Validated') >= 1 /\ Validated'[Len(Validated')] = s
    <3>1. v
      <4>1. <<t, TRUE>> \notin published
        BY <1>1 DEF Dated, Early
      <4>. QED
        BY <1>1, <1>2, <2>3, <4>1
    <3>2. transit' = [transit EXCEPT !["observed.validated"] = Append(@, t)]
      BY <1>3, <1>4, <2>3, <3>1
    <3>3. Validated' = Append(Validated, t) /\ Carries(t - 1, Validated)
      BY <1>5, <1>6, <3>2 DEF Validated, Observed
    <3>. QED
      BY <1>14, <2>3, <3>3 DEF Validated, Observed
  <2>4. dynamic' \in 0..MaxTick /\ dynamic' <= t
    BY <1>1, <2>1
  <2>. QED
    BY <1>1, <2>2, <2>3, <2>4 DEF Handed, Late
<1>13. Judged'
  BY <1>1 DEF Publish, Judged, SilentSlotsAreReconstructed
<1>. QED
  BY <1>8, <1>9, <1>10, <1>11, <1>12, <1>13

LEMMA DispatchData == DataInv /\ Dispatch => DataInv'
<1> SUFFICES ASSUME DataInv, Dispatch PROVE DataInv'
  OBVIOUS
<1> USE DEF DataInv
<1>1. /\ at = "dispatch" /\ at' = "reconstruct" /\ t \in Nat \ {0} /\ t <= MaxTick
      /\ UNCHANGED <<t, dynamic, next_ts, published, verdict>>
  BY DEF Dispatch, Goto, Pace
<1>2. PICK n \in [Observed -> 0..2] :
        /\ \A p \in Observed : n[p] \in Arrivals(p)
        /\ transit' = [p \in Observed |-> SubSeq(transit[p], n[p] + 1, Len(transit[p]))]
        /\ LET handled == SubSeq(transit["observed"], 1, n["observed"])
                            \o SubSeq(transit["observed.validated"], 1,
                                      n["observed.validated"])
           IN  /\ last' = IF handled = <<>> THEN last ELSE handled[Len(handled)]
               /\ prompt' = \E i \in 1..Len(handled) : handled[i] = t
  BY Zenon DEF Dispatch
<1> DEFINE H(p) == SubSeq(transit[p], 1, n[p])
           handled == H("observed") \o H("observed.validated")
<1>3. ASSUME NEW p \in Observed PROVE Split(t, transit[p], H(p), transit'[p])
  <2>1. CarriesBoth(t, transit[p])
    BY <1>1 DEF Carried
  <2>2. n[p] \in 0..Len(transit[p]) /\ \A i \in 1..Len(transit[p]) : transit[p][i] < t => i <= n[p]
    BY <1>2 DEF Arrivals
  <2>3. transit'[p] = SubSeq(transit[p], n[p] + 1, Len(transit[p]))
    BY <1>2
  <2>4. Split(t, transit[p], H(p), SubSeq(transit[p], n[p] + 1, Len(transit[p])))
    BY <1>1, <2>1, <2>2, PollSplits
  <2>. QED
    BY <2>3, <2>4
<1>5. /\ last' = IF handled = <<>> THEN last ELSE handled[Len(handled)]
      /\ prompt' = \E i \in 1..Len(handled) : handled[i] = t
  BY <1>2
<1> HIDE DEF H
<1>4. /\ handled = <<>> <=> Len(H("observed")) = 0 /\ Len(H("observed.validated")) = 0
      /\ handled # <<>> => /\ Len(handled) \in 1..Len(handled)
                           /\ handled[Len(handled)] \in {t - 1, t}
      /\ Len(H("observed.validated")) >= 1 =>
           handled[Len(handled)] = H("observed.validated")[Len(H("observed.validated"))]
      /\ Len(H("observed.validated")) = 0 /\ Len(H("observed")) >= 1 =>
           handled[Len(handled)] = H("observed")[Len(H("observed"))]
  BY <1>1, <1>3, HandledLast DEF Observed, Split
<1>6. \A p \in Observed : Len(H(p)) \in Nat
  BY <1>3 DEF CarriesBoth, Split
<1>7. handled # <<>> => \E p \in Observed : \E i \in 1..Len(transit[p]) :
                          handled[Len(handled)] = transit[p][i]
  <2>1. CASE Len(H("observed.validated")) >= 1
    BY <1>3, <1>4, <2>1 DEF Observed, Split
  <2>2. CASE Len(H("observed.validated")) = 0 /\ Len(H("observed")) >= 1
    BY <1>3, <1>4, <2>2 DEF Observed, Split
  <2>3. Len(H("observed")) \in Nat /\ Len(H("observed.validated")) \in Nat
    BY <1>6 DEF Observed
  <2>4. CASE Len(H("observed.validated")) = 0 /\ Len(H("observed")) = 0
    BY <1>4, <2>4
  <2>. QED
    BY <2>1, <2>2, <2>3, <2>4
<1> HIDE DEF handled
<1>8. Pace' /\ Dated'
  BY <1>1, TicksAssumption DEF Pace, Dated, Early
<1>9. Carried'
  <2>1. transit' \in [Observed -> Seq(Nat)]
    <3>1. \A p \in Observed : transit'[p] \in Seq(Nat)
      BY <1>3 DEF Carries, Split
    <3>. QED
      BY <1>2, <3>1
  <2>2. ASSUME NEW p \in Observed, NEW i \in 1..Len(transit'[p])
        PROVE  \E v \in BOOLEAN : <<transit'[p][i], v>> \in published'
    <3>1. transit'[p][i] = t /\ Len(transit'[p]) >= 1
      BY <1>3 DEF Carries, Split
    <3>2. PICK k \in 1..Len(transit[p]) : transit[p][k] = t
      BY <1>3, <3>1 DEF Split
    <3>. QED
      BY <1>1, <3>1, <3>2 DEF Carried
  <2>. QED
    BY <1>1, <1>3, <2>1, <2>2 DEF Carried, Early, Late, Split
<1>10. last \in Nat /\ last < t
  BY <1>1 DEF Seen, Late
<1>11. /\ last' \in Nat /\ last' <= t
       /\ last' >= t - 1 \/ last' = last
       /\ handled # <<>> => last' >= t - 1
       /\ handled = <<>> => last' = last
  BY <1>1, <1>4, <1>5, <1>10
<1>12. Seen'
  <2>1. last' = t => prompt'
    <3> SUFFICES ASSUME last' = t PROVE prompt'
      OBVIOUS
    <3>1. handled # <<>> /\ handled[Len(handled)] = t
      BY <1>1, <1>5, <1>10
    <3>. QED
      BY <1>4, <1>5, <3>1
  <2>2. prompt' \in BOOLEAN
    BY <1>5
  <2>3. last' >= 1 /\ last' >= t - 1 => \E v \in BOOLEAN : <<last', v>> \in published'
    <3>1. CASE handled = <<>>
      BY <1>1, <1>11, <3>1 DEF Seen
    <3>2. CASE handled # <<>>
      BY <1>1, <1>5, <1>7, <3>2 DEF Carried
    <3>. QED
      BY <3>1, <3>2
  <2>. QED
    BY <1>1, <1>11, <2>1, <2>2, <2>3 DEF Seen, Late
<1>13. Handed'
  <2>1. ASSUME NEW s \in Nat, <<s, TRUE>> \in published', s # dynamic', s = t - 1
        PROVE  last' >= s
    <3>1. last >= s \/ (Len(Validated) >= 1 /\ Validated[1] = t - 1)
      BY <1>1, <2>1 DEF Handed
    <3>2. Len(Validated) >= 1 /\ Validated[1] = t - 1 => handled # <<>>
      BY <1>3, <1>4, <1>6 DEF Validated, Observed, Split
    <3>. QED
      BY <1>1, <1>10, <1>11, <2>1, <3>1, <3>2
  <2>2. ASSUME NEW s \in Nat, <<s, TRUE>> \in published', s # dynamic', s = t
        PROVE  last' >= s \/ (Len(Validated') >= 1 /\ Validated'[Len(Validated')] = s)
    <3>1. Len(Validated) >= 1 /\ Validated[Len(Validated)] = t
      <4>1. <<t, TRUE>> \in published /\ t # dynamic /\ ~(last >= t)
        BY <1>1, <1>10, <2>2
      <4>. QED
        BY <1>1, <4>1 DEF Handed
    <3>2. \/ Len(Validated') = 1
          \/ /\ H("observed.validated")[Len(H("observed.validated"))] = t
             /\ Len(H("observed.validated")) >= 1
      <4>1. "observed.validated" \in Observed
        BY DEF Observed
      <4>. QED
        BY <1>3, <3>1, <4>1 DEF Validated, Split
    <3>3. CASE Len(Validated') = 1
      BY <1>3, <2>2, <3>3 DEF Validated, Observed, Carries, Split
    <3>4. CASE /\ H("observed.validated")[Len(H("observed.validated"))] = t
               /\ Len(H("observed.validated")) >= 1
      BY <1>1, <1>4, <1>5, <2>2, <3>4
    <3>. QED
      BY <3>2, <3>3, <3>4
  <2>. QED
    BY <1>1, <2>1, <2>2 DEF Handed
<1>14. Judged'
  BY <1>1 DEF Judged, SilentSlotsAreReconstructed
<1>. QED
  BY <1>8, <1>9, <1>12, <1>13, <1>14

LEMMA JudgeData == DataInv /\ ChartInv /\ Judge => DataInv'
<1> SUFFICES ASSUME DataInv, ChartInv, Judge PROVE DataInv'
  OBVIOUS
<1> USE DEF DataInv
<1> DEFINE told == signals.compensating
           came == {v \in BOOLEAN : <<next_ts, v>> \in published}
<1>1. /\ at = "reconstruct" /\ t > next_ts /\ next_ts' = next_ts + Interval
      /\ UNCHANGED <<at, t, transit, dynamic, last, published, prompt>>
      /\ verdict' = [slot    |-> next_ts,
                     told    |-> told,
                     made    |-> Due /\ told,
                     came    |-> came,
                     passed  |-> Interval = 1 /\ prompt,
                     started |-> last # Never]
  BY DEF Judge, Missed
<1>2. /\ next_ts \in Nat /\ t \in Nat /\ t = next_ts + 1 /\ last \in Nat /\ last <= t
      /\ prompt \in BOOLEAN
  <2>1. next_ts \in Nat /\ t \in Nat /\ t <= next_ts + 1
    BY DEF Pace
  <2>. QED
    BY <1>1, <2>1 DEF Seen
<1>3. told \in BOOLEAN /\ came \in SUBSET BOOLEAN
  BY DEF ChartInv, Settled, ChartFits, Signals
<1>4. /\ verdict'.slot = next_ts /\ (verdict'.told <=> told)
      /\ (verdict'.made <=> Due /\ told) /\ verdict'.came = came
  BY <1>1
<1>5. (verdict'.passed <=> Interval = 1 /\ prompt) /\ (verdict'.started <=> last # Never)
  BY <1>1
<1>6. verdict' \in [slot : Nat, told : BOOLEAN, made : BOOLEAN, came : SUBSET BOOLEAN,
                    passed : BOOLEAN, started : BOOLEAN]
  <2>1. /\ (Due /\ told) \in BOOLEAN
        /\ (Interval = 1 /\ prompt) \in BOOLEAN
        /\ (last # Never) \in BOOLEAN
    OBVIOUS
  <2>. QED
    BY <1>1, <1>2, <1>3, <2>1
<1>7. Pace'
  <2>1. (next_ts + Interval) % Interval = 0
    BY NextSlot DEF Pace
  <2>. QED
    BY <1>1, <1>2, <2>1, TicksAssumption DEF Pace
<1>8. Dated' /\ Carried' /\ Seen' /\ Handed'
  BY <1>1 DEF Dated, Carried, Seen, Handed, Validated
<1>9. Due /\ TRUE \in came => next_ts = dynamic /\ dynamic # Never
  <2> SUFFICES ASSUME Due, TRUE \in came PROVE next_ts = dynamic /\ dynamic # Never
    OBVIOUS
  <2>1. <<next_ts, TRUE>> \in published /\ last < next_ts
    BY DEF Due
  <2> HIDE DEF came
  <2>2. next_ts = dynamic
    <3> SUFFICES ASSUME next_ts # dynamic PROVE FALSE
      OBVIOUS
    <3>1. next_ts = t - 1 /\ at \in Late /\ next_ts \in Nat
      BY <1>1, <1>2 DEF Late
    <3>2. last >= next_ts
      BY <2>1, <3>1 DEF Handed
    <3>. QED
      BY <1>2, <2>1, <3>2
  <2>3. <<next_ts, TRUE>> \in (1..MaxTick) \X BOOLEAN
    BY <2>1 DEF Dated
  <2>. QED
    BY <2>2, <2>3 DEF Never
<1>10. ASSUME last # Never, came = {}, ~Due PROVE Interval = 1 /\ prompt
  <2>1. last >= next_ts /\ last >= 1
    BY <1>2, <1>10 DEF Due, Never
  <2>2. PICK v \in BOOLEAN : <<last, v>> \in published
    BY <1>2, <2>1 DEF Seen
  <2>3. last # next_ts
    BY <1>10, <2>2
  <2>4. last = t
    BY <1>2, <2>1, <2>3
  <2>5. (next_ts + 1) % Interval = 0
    <3>1. <<t, v>>[1] % Interval = 0
      BY <2>2, <2>4 DEF Dated
    <3>. QED
      BY <1>2, <3>1
  <2>6. Interval = 1
    BY <1>2, <2>5, SuccessiveSlots DEF Pace
  <2>. QED
    BY <1>2, <2>1, <2>4, <2>6 DEF Seen
<1>11. SilentSlotsAreReconstructed'
  BY <1>4, <1>5, <1>10, Zenon DEF SilentSlotsAreReconstructed
<1>12. Judged'
  BY <1>1, <1>4, <1>6, <1>9, <1>11 DEF Judged
<1>. QED
  BY <1>7, <1>8, <1>12

LEMMA NextData == DataInv /\ ChartInv /\ [Next]_vars => DataInv'
<1> SUFFICES ASSUME DataInv, ChartInv, [Next]_vars PROVE DataInv'
  OBVIOUS
<1>1. CASE Tick
  BY <1>1, TickData
<1>2. CASE StepHealth
  BY <1>2, DataKept DEF StepHealth, history, Early
<1>3. CASE HealthSet
  BY <1>3, DataKept DEF HealthSet, Goto, history, Early
<1>4. CASE StepBelonging
  BY <1>4, DataKept DEF StepBelonging, Goto, history, Early
<1>5. CASE Silent
  BY <1>5, DataKept DEF Silent, Goto, history
<1>6. CASE Publish
  BY <1>6, PublishData
<1>7. CASE Dispatch
  BY <1>7, DispatchData
<1>8. CASE Judge
  BY <1>8, JudgeData
<1>9. CASE EndTick
  <2>1. t <= next_ts
    BY <1>9 DEF EndTick, Missed, DataInv, Pace
  <2>. QED
    BY <1>9, <2>1, DataKept DEF EndTick, Goto, history
<1>10. CASE UNCHANGED vars
  BY <1>10 DEF vars, history, DataInv, Pace, Dated, Carried, Seen, Handed, Judged,
              Validated, SilentSlotsAreReconstructed
<1>. QED
  BY <1>1, <1>2, <1>3, <1>4, <1>5, <1>6, <1>7, <1>8, <1>9, <1>10 DEF Next

\* What is sent late, suppressed or overtaken never makes last_observed_ts lie
\* about a validated event.
LEMMA DataInvariance == Spec => []DataInv
<1>1. Init => DataInv
  BY InitData
<1>2. DataInv /\ ChartInv /\ [Next]_vars => DataInv'
  BY NextData
<1>. QED
  BY <1>1, <1>2, ChartInvariance, PTL DEF Spec

\* The experiments reconstruct every slot that stayed silent while the chart
\* compensates, but for those before the first event and, with one slot per
\* tick, those overtaken by their successor.
THEOREM SilenceIsMadeUpFor == Spec => []SilentSlotsAreReconstructed
<1>1. DataInv => SilentSlotsAreReconstructed
  BY DEF DataInv, Judged
<1>. QED
  BY <1>1, DataInvariance, PTL

\* No slot reaches the event processor both validated and reconstructed, but
\* for the one whose event made the partition.
THEOREM OneEventPerSlot == Spec => []NoSlotTwice
<1>1. DataInv => NoSlotTwice
  BY DEF DataInv, Judged, NoSlotTwice
<1>. QED
  BY <1>1, DataInvariance, PTL

\* Type correctness: at most the events of two ticks are on their way, and the
\* schedule is never more than one interval ahead of the clock.
THEOREM RunTyped == Spec => []TypeOK
<1>1. ASSUME ChartInv, DataInv PROVE TypeOK
  <2>1. /\ at \in {"tick", "health", "belonging", "source", "dispatch", "reconstruct"}
        /\ target \in HealthStates /\ goal \in Goals /\ streak \in 0..StepsToParticipate
    BY <1>1 DEF ChartInv, Asked, Places
  <2>2. bel \in Belonging /\ health \in HealthStates /\ signals \in Signals
    BY <1>1 DEF ChartInv, Settled, ChartFits
  <2>3. /\ t \in 0..MaxTick /\ next_ts \in Nat /\ next_ts <= t + Interval
        /\ published \subseteq (1..MaxTick) \X BOOLEAN /\ prompt \in BOOLEAN
        /\ dynamic \in 0..MaxTick
    BY <1>1 DEF DataInv, Pace, Dated, Seen, Handed
  <2>4. last \in 0..MaxTick
    BY <1>1, <2>3, TicksAssumption DEF DataInv, Seen
  <2>5. verdict \in [slot : Nat, told : BOOLEAN, made : BOOLEAN, came : SUBSET BOOLEAN,
                     passed : BOOLEAN, started : BOOLEAN]
    BY <1>1 DEF DataInv, Judged
  <2>6. ASSUME NEW p \in Observed
        PROVE  transit[p] \in Seq(1..MaxTick) /\ Len(transit[p]) <= 2
    <3>1. transit[p] \in Seq(Nat)
      BY <1>1 DEF DataInv, Carried
    <3>2. at \in Early \/ at = "dispatch" \/ at \in Late
      BY <2>1 DEF Early, Late
    <3>3. Len(transit[p]) <= 2
      BY <1>1, <3>1, <3>2 DEF DataInv, Carried, Carries, CarriesBoth
    <3>4. ASSUME NEW i \in 1..Len(transit[p]) PROVE transit[p][i] \in 1..MaxTick
      <4>1. PICK v \in BOOLEAN : <<transit[p][i], v>> \in published
        BY <1>1 DEF DataInv, Carried
      <4>. QED
        BY <2>3, <4>1
    <3>5. /\ Len(transit[p]) \in Nat
          /\ transit[p] = [i \in 1..Len(transit[p]) |-> transit[p][i]]
      BY <3>1
    <3>6. transit[p] \in [1..Len(transit[p]) -> 1..MaxTick]
      BY <3>4, <3>5
    <3>. QED
      BY <3>3, <3>5, <3>6, SeqDef
  <2>7. transit \in [Observed -> Seq(1..MaxTick)]
    <3>1. transit \in [Observed -> Seq(Nat)]
      BY <1>1 DEF DataInv, Carried
    <3>. QED
      BY <2>6, <3>1
  <2>. QED
    BY <2>1, <2>2, <2>3, <2>4, <2>5, <2>6, <2>7 DEF TypeOK
<1>. QED
  BY <1>1, ChartInvariance, DataInvariance, PTL

=============================================================================
