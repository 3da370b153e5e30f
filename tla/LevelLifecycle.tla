--------------------------- MODULE LevelLifecycle ---------------------------
(***************************************************************************)
(* One chart of any level, driven through the interface the generated code *)
(* offers: enter, exit, raise_X, trigger_without_event and the timers.     *)
(* Here a raised event costs one cycle and nobody has to run a second one: *)
(* module Lifecycle shows what ModelAdaptor adds to level 4.               *)
(***************************************************************************)
EXTENDS LevelCharts

CONSTANT MaxElapsed  \* bound: timer threads past their wait, per time event

ASSUME MaxElapsedAssumption == MaxElapsed \in Nat \ {0}

VARIABLES
  level,    \* which of the charts
  bel,      \* state_vector[0]
  health,   \* state_vector[1]
  signals,  \* what the subscribers last heard
  armed,    \* timers waiting in the timer service
  elapsed   \* timer threads past the wait, not yet in time_elapsed

vars == <<level, bel, health, signals, armed, elapsed>>

Null == "null_state"

IsActive == bel # Null

TypeOK ==
  /\ level   \in Levels
  /\ bel     \in BelongingAt(level) \cup {Null}
  /\ health  \in HealthStates \cup {Null}
  /\ signals \in Signals
  /\ armed   \in [TimeEvents -> BOOLEAN]
  /\ elapsed \in [TimeEvents -> 0..MaxElapsed]

\* The chart is constructed, not yet entered.
Init ==
  /\ level \in Levels
  /\ bel = Null
  /\ health = Null
  /\ signals = NoSignals
  /\ armed = [e \in TimeEvents |-> FALSE]
  /\ elapsed = [e \in TimeEvents |-> 0]

\* run_cycle: a chart that is not active has no leaf to dispatch on.
RunCycle(E) ==
  LET t == IF IsActive THEN ReactAt(level, bel, health, E) ELSE bel
  IN  /\ bel' = t
      /\ health' = IF IsActive THEN HealthReactAt(level, health, E) ELSE health
      /\ signals' = IF IsActive THEN EmittedAt(level, signals, bel, t) ELSE signals
      /\ armed' = RearmedAt(level, armed, bel, t)
      /\ UNCHANGED level

Enter ==
  /\ ~IsActive
  /\ bel' = "disengaged"
  /\ health' = "ideal"
  /\ signals' = NoSignals
  /\ UNCHANGED <<level, armed, elapsed>>

\* Faulty variant of Exit: the timers go on.
ExitWithoutUnset ==
  /\ IsActive
  /\ bel' = Null
  /\ health' = Null
  /\ UNCHANGED <<level, signals, armed, elapsed>>

\* The exit sequences stop the timer of a pending state, but emit no signal.
Exit ==
  /\ IsActive
  /\ bel' = Null
  /\ health' = Null
  /\ armed' = RearmedAt(level, armed, bel, Null)
  /\ UNCHANGED <<level, signals, elapsed>>

Raise(event) == RunCycle({event}) /\ UNCHANGED elapsed

Trigger == RunCycle({}) /\ UNCHANGED elapsed

Expire(e) ==
  /\ armed[e]
  /\ elapsed[e] < MaxElapsed
  /\ armed' = [armed EXCEPT ![e] = FALSE]
  /\ elapsed' = [elapsed EXCEPT ![e] = @ + 1]
  /\ UNCHANGED <<level, bel, health, signals>>

TimeElapsed(e) ==
  /\ elapsed[e] > 0
  /\ elapsed' = [elapsed EXCEPT ![e] = @ - 1]
  /\ RunCycle({e})

Next ==
  \/ Enter
  \/ Exit
  \/ \E event \in EventsAt(level) : Raise(event)
  \/ Trigger
  \/ \E e \in TimeEvents : Expire(e) \/ TimeElapsed(e)

Spec == Init /\ [][Next]_vars

------------------------------------------------------------------------------
(***************************************************************************)
(* Properties.                                                             *)
(***************************************************************************)
Role4 == {"participating"} \cup Participating

\* At every level the source is told the truth about where the chart is,
\* whatever sequence of calls led there: observed from Passive on, validated
\* in Active (level 1) or in a role (the others), compensated in restricted
\* roles, which only the level-4 charts have.
SignalsMatchLevel == IsActive =>
  /\ signals.observed <=> bel \notin {"disengaged", "prepared"}
  /\ signals.validated <=> bel \in Role4 \/ (level = 1 /\ bel = "active")
  /\ signals.compensating => level \in {4, Experiment} /\ bel \in Participating
  /\ bel = "restricted_role" => signals.compensating

\* A timer waits only for the pending state the chart is in, through any
\* number of entries, exits and restarts of the chart, and that state never
\* lacks a time event to end it, unless the chart has no timers.
TimersFollowPending == \A e \in TimeEvents :
  /\ armed[e] => bel = TimerOf[e]
  /\ level # Experiment /\ bel = TimerOf[e] => armed[e] \/ elapsed[e] > 0

\* At every level the chart implements the ladder of Membership.
StageOf(b) ==
  CASE b = Null                         -> "inactive"
    [] b \in {"disengaged", "prepared"} -> b
    [] b \in Passive \cup {"passive"}   -> "passive"
    [] OTHER                            -> "active"

Ladder == INSTANCE Membership WITH
  stage <- StageOf(bel), failed <- health = "failed", enforced <- level > 1

\* The membership of a chart goes up and down the ladder one rung at a time,
\* and failure is what puts it out, whatever calls, timers and restarts meet.
ImplementsMembership == Ladder!Spec

\* Wherever a failed constituent is, one trigger_without_event is enough to put
\* it out of the SoS, at every level that enforces health.
TriggerEvicts ==
  IsActive /\ level > 1 /\ health = "failed"
    => StageOf(ReactAt(level, bel, health, {})) \in {"disengaged", "prepared"}

=============================================================================
