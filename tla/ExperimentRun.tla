---------------------------- MODULE ExperimentRun ----------------------------
(***************************************************************************)
(* A run of the experiments for one constituent: the one thread of         *)
(* ExperimentOrchestrator.run, which on every tick of a simulated clock    *)
(* applies the scenario to the chart, lets the source publish, dispatches  *)
(* what has arrived, and lets the reconstructor judge the slots that are   *)
(* past.  Only the transport runs beside it: it decides whether an event   *)
(* is handled in the tick it was published in or in the next one.          *)
(*                                                                         *)
(* The chart is the level-4 chart without timers, which its ModelAdaptor   *)
(* drives with two cycles per call, as the application's does.  A scenario *)
(* may ask for any health and any goal in any tick, and may suppress any   *)
(* observation.                                                            *)
(***************************************************************************)
EXTENDS LevelCharts, Sequences

CONSTANTS Interval,  \* of the source and of the schedule, in ticks
          MaxTick    \* the T of run(T)

ASSUME TicksAssumption == Interval \in Nat \ {0} /\ MaxTick \in Nat

VARIABLES
  at,         \* where the loop of run() is
  t,          \* SimulationClock.time
  target,     \* the health the scenario asks for in this tick
  goal,       \* the belonging it asks for
  bel, health, signals,  \* the chart, as in Lifecycle
  transit,    \* per partition, the times of the events on their way
  dynamic,    \* partition observed.validated: the tick that made it, or Never
  last,       \* last_observed_ts, or Never
  next_ts,    \* ExperimentalExpectedSchedule.next_ts
  published,  \* history: this tick's event and the last one's, and how validated
  prompt,     \* history: this tick's event was handled in this tick
  verdict,    \* history: the slot judged last, and what came of it
  streak      \* history: ticks in a row that call for a healthy participant

chart   == <<bel, health, signals>>
history == <<published, prompt, verdict, streak>>
vars    == <<at, t, target, goal, chart, transit, dynamic, last, next_ts, history>>

Never == 0  \* the first tick is 1

Observed == {"observed", "observed.validated"}

Goals == Belonging \cup {"participating"}

Healthy == {"ideal", "defective", "faulty"}

StepsToParticipate == 5

TypeOK ==
  /\ at \in {"tick", "health", "belonging", "source", "dispatch", "reconstruct"}
  /\ t \in 0..MaxTick
  /\ target \in HealthStates /\ goal \in Goals
  /\ bel \in Belonging /\ health \in HealthStates /\ signals \in Signals
  /\ transit \in [Observed -> Seq(1..MaxTick)]
  /\ \A p \in Observed : Len(transit[p]) <= 2
  /\ dynamic \in 0..MaxTick /\ last \in 0..MaxTick
  /\ next_ts \in Nat /\ next_ts <= t + Interval
  /\ published \subseteq (1..MaxTick) \X BOOLEAN /\ prompt \in BOOLEAN
  /\ verdict \in [slot : Nat, told : BOOLEAN, made : BOOLEAN, came : SUBSET BOOLEAN,
                  passed : BOOLEAN, started : BOOLEAN]
  /\ streak \in 0..StepsToParticipate

Init ==
  /\ at = "tick" /\ t = 0
  /\ target = "ideal" /\ goal = "disengaged"
  /\ bel = "disengaged" /\ health = "ideal" /\ signals = NoSignals
  /\ transit = [p \in Observed |-> <<>>]
  /\ dynamic = Never /\ last = Never
  /\ next_ts = Interval
  /\ published = {} /\ prompt = FALSE /\ streak = 0
  /\ verdict = [slot |-> 0, told |-> FALSE, made |-> FALSE, came |-> {},
                passed |-> FALSE, started |-> FALSE]

------------------------------------------------------------------------------
(***************************************************************************)
(* ExperimentModelAdaptor.                                                 *)
(***************************************************************************)

\* Where the chart is after a cycle with the in-events E.
Cycle(s, E) ==
  LET b == ExperimentReact(s.bel, s.health, E)
  IN  [bel     |-> b,
       health  |-> ExperimentHealthReact(s.health, E),
       signals |-> Emitted(s.signals, s.bel, b)]

\* Faulty variant of Call: _raise runs no second cycle.
CallOnce(s, event) == Cycle(s, {event})

\* _raise: the cycle of the event, and one without events.
Call(s, event) == Cycle(Cycle(s, {event}), {})

Raise(event) ==
  LET s == Call([bel |-> bel, health |-> health, signals |-> signals], event)
  IN  bel' = s.bel /\ health' = s.health /\ signals' = s.signals

\* HEALTH_ORDER and the step ensure_health takes.
Rank == [ideal |-> 0, defective |-> 1, faulty |-> 2, erroneous |-> 3,
         malfunctioning |-> 4, degraded |-> 5, failed |-> 6]

HealthStep ==
  CASE target = "ideal"                                 -> "full_recovery"
    [] target # "ideal" /\ Rank[target] > Rank[health]  -> "degrade"
    [] target # "ideal" /\ Rank[target] <= Rank[health] -> "improve"

None == "none"

RoleGoals == {"participating"} \cup Participating

\* Faulty variant of Policy: pending_entry is left to a timer, as by the
\* application's ModelAdaptor, but the chart has none.
PolicyWaiting(g, b) ==
  CASE b = "disengaged" /\ g # "disengaged"                     -> "prepare_for_so_s"
    [] b = "prepared" /\ g = "disengaged"                       -> "disengage_from_so_s"
    [] b = "prepared" /\ g \notin {"disengaged", "prepared"}    -> "join_so_s"
    [] b \in Passive /\ g \in {"disengaged", "prepared"}        -> "leave_so_s"
    [] b = "available" /\ g \in {"negotiating"} \cup Active \cup RoleGoals
                                                                -> "join_invitation"
    [] b = "negotiating" /\ g = "available"                     -> "admission_rejected"
    [] b = "negotiating" /\ g \in Active \cup RoleGoals         -> "join_constellation"
    [] b \in Active \ {"pending_exit"} /\ g \notin RoleGoals \cup {b}
                                                                -> "leave_constellation"
    [] b = "pending_exit" /\ g \in RoleGoals                    -> "exit_denied"
    [] OTHER                                                    -> None

\* BELONGING_POLICY.
Policy(g, b) ==
  CASE b = "disengaged" /\ g # "disengaged"                     -> "prepare_for_so_s"
    [] b = "prepared" /\ g = "disengaged"                       -> "disengage_from_so_s"
    [] b = "prepared" /\ g \notin {"disengaged", "prepared"}    -> "join_so_s"
    [] b \in Passive /\ g \in {"disengaged", "prepared"}        -> "leave_so_s"
    [] b = "available" /\ g \in {"negotiating"} \cup Active \cup RoleGoals
                                                                -> "join_invitation"
    [] b = "negotiating" /\ g = "available"                     -> "admission_rejected"
    [] b = "negotiating" /\ g \in Active \cup RoleGoals         -> "join_constellation"
    [] b = "pending_entry" /\ g \in RoleGoals                   -> "constellation_stable"
    [] b \in Active \ {"pending_exit"} /\ g \notin RoleGoals \cup {b}
                                                                -> "leave_constellation"
    [] b = "pending_exit" /\ g \in RoleGoals                    -> "exit_denied"
    [] b = "pending_exit" /\ g \notin RoleGoals \cup {b}        -> "constellation_stable"
    [] OTHER                                                    -> None

------------------------------------------------------------------------------
(***************************************************************************)
(* One tick.                                                               *)
(***************************************************************************)
Goto(from, to) == at = from /\ at' = to

\* clock.tick(), and what the scenario will answer in this tick.
Tick ==
  /\ Goto("tick", "health")
  /\ t < MaxTick
  /\ t' = t + 1
  /\ target' \in HealthStates
  /\ goal' \in Goals
  /\ streak' = IF goal' \in RoleGoals /\ target' \in Healthy
               THEN IF streak < StepsToParticipate THEN streak + 1 ELSE streak
               ELSE 0
  /\ published' = {e \in published : e[1] = t}
  /\ prompt' = FALSE
  /\ UNCHANGED <<chart, transit, dynamic, last, next_ts, verdict>>

\* set_health: one call of the loop in ensure_health.  Its limit of steps is
\* above the length of HEALTH_ORDER.
StepHealth ==
  /\ at = "health" /\ health # target
  /\ Raise(HealthStep)
  /\ UNCHANGED <<at, t, target, goal, transit, dynamic, last, next_ts, history>>

HealthSet ==
  /\ Goto("health", "belonging") /\ health = target
  /\ UNCHANGED <<t, target, goal, chart, transit, dynamic, last, next_ts, history>>

\* step_towards_belonging: at most one call; a goal that is reached has no
\* policy and needs no test of its own.
StepBelonging ==
  /\ Goto("belonging", "source")
  /\ IF Policy(goal, bel) = None THEN UNCHANGED chart ELSE Raise(Policy(goal, bel))
  /\ UNCHANGED <<t, target, goal, transit, dynamic, last, next_ts, history>>

\* step(now) of the source: nothing between its slots or when the scenario
\* suppresses the observation.
Silent ==
  /\ Goto("source", "dispatch")
  /\ UNCHANGED <<t, target, goal, chart, transit, dynamic, last, next_ts, history>>

\* emit_event.  The first validated event makes its partition, and goes out
\* before the transport may have taken up the subscription.
Partition == IF signals.validated THEN "observed.validated" ELSE "observed"

Publish ==
  /\ Goto("source", "dispatch")
  /\ t % Interval = 0 /\ signals.observed
  /\ published' = published \cup {<<t, signals.validated>>}
  /\ dynamic' = IF signals.validated /\ dynamic = Never THEN t ELSE dynamic
  /\ \/ transit' = [transit EXCEPT ![Partition] = Append(@, t)]
     \/ dynamic' = t /\ UNCHANGED transit
  /\ UNCHANGED <<t, target, goal, chart, last, next_ts, prompt, verdict, streak>>

\* dispatch polls each client once, observed before observed.validated.  What
\* was published in an earlier tick has arrived; what was published in this
\* one may have.  consume_event keeps the time of the event it saw last.
Arrivals(p) == {k \in 0..Len(transit[p]) : \A i \in 1..Len(transit[p]) :
                  transit[p][i] < t => i <= k}

Dispatch ==
  /\ Goto("dispatch", "reconstruct")
  /\ \E n \in [Observed -> 0..2] :
       /\ \A p \in Observed : n[p] \in Arrivals(p)
       /\ transit' = [p \in Observed |-> SubSeq(transit[p], n[p] + 1, Len(transit[p]))]
       /\ LET handled == SubSeq(transit["observed"], 1, n["observed"])
                           \o SubSeq(transit["observed.validated"], 1,
                                     n["observed.validated"])
          IN  /\ last' = IF handled = <<>> THEN last ELSE handled[Len(handled)]
              /\ prompt' = \E i \in 1..Len(handled) : handled[i] = t
  /\ UNCHANGED <<t, target, goal, chart, dynamic, next_ts, published, verdict, streak>>

\* Faulty variant of Missed: a slot is judged an interval too early.
MissedAhead == t + Interval >= next_ts

\* is_missed; the grace of 0.1 is less than a tick.
Missed == t > next_ts

\* Faulty variant of Due: the event of the slot itself is not looked at.
DueAlways == last # Never

\* Faulty variant of Due: the slot before is taken for the slot itself.
DueLater == last # Never /\ last + Interval < next_ts

\* An event must be made up for: one was handled before, none since the slot.
Due == last # Never /\ last < next_ts

\* step() of the reconstructor, one turn of its loop.
Judge ==
  /\ at = "reconstruct" /\ Missed
  /\ verdict' = [slot    |-> next_ts,
                 told    |-> signals.compensating,
                 made    |-> Due /\ signals.compensating,
                 came    |-> {v \in BOOLEAN : <<next_ts, v>> \in published},
                 passed  |-> Interval = 1 /\ prompt,
                 started |-> last # Never]
  /\ next_ts' = next_ts + Interval
  /\ UNCHANGED <<at, t, target, goal, chart, transit, dynamic, last, published,
                 prompt, streak>>

EndTick ==
  /\ Goto("reconstruct", "tick") /\ ~Missed
  /\ UNCHANGED <<t, target, goal, chart, transit, dynamic, last, next_ts, history>>

Next ==
  \/ Tick \/ StepHealth \/ HealthSet \/ StepBelonging
  \/ Silent \/ Publish \/ Dispatch \/ Judge \/ EndTick

Spec == Init /\ [][Next]_vars

------------------------------------------------------------------------------
(***************************************************************************)
(* Properties.                                                             *)
(***************************************************************************)

\* The chart of the experiments has no timers, so its guards on health hold
\* after every call without exception: a further cycle would change nothing.
\* In particular no degraded constituent keeps a role, which Lifecycle allows.
CallsSettle == ExperimentReact(bel, health, {}) = bel

\* A constituent that is kept healthy and asked to participate has a role
\* after five ticks of step_towards_belonging, wherever it was before.
ParticipatesInTime ==
  streak = StepsToParticipate /\ at \in {"source", "dispatch", "reconstruct"}
    => bel \in Participating

\* A slot that stayed silent while the chart compensates is reconstructed,
\* but for two cases: the slots before the first event ever handled, and, with
\* one slot per tick, a slot whose successor was handled in the tick it was
\* published in: last_observed_ts has then passed the silent slot already.
SilentSlotsAreReconstructed ==
  verdict.told /\ verdict.came = {}
    => verdict.made \/ verdict.passed \/ ~verdict.started

\* The event processor sees no slot twice, validated and reconstructed, though
\* roles and partitions change from tick to tick and last_observed_ts goes back
\* when a late validated event is handled after a later observed one.  The
\* exception is the slot that made the partition for validated events, whose
\* event may precede the subscription of the reconstructor.
NoSlotTwice == verdict.made /\ TRUE \in verdict.came => verdict.slot = dynamic

=============================================================================
