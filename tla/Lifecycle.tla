------------------------------ MODULE Lifecycle ------------------------------
(***************************************************************************)
(* The lifecycle of the constituents at level 4: each has a statechart     *)
(* (AdaptiveChart), the calls its ModelAdaptor makes on it, two chart      *)
(* timers, and the subscribers of its signals.  Three kinds of thread act  *)
(* on a chart:                                                             *)
(*                                                                         *)
(*   main     the application's one thread, which drives every constituent *)
(*            through LifecycleManager and ModelAdaptor;                   *)
(*   monitor  the constituent's reconstructor thread, which compensates    *)
(*            and may report that the uncertainty threshold is exceeded;   *)
(*   timers   one threading.Timer thread per time event that elapses.      *)
(*                                                                         *)
(* A ModelAdaptor call is not atomic: _raise raises the event (one         *)
(* run_cycle), runs a second, eventless cycle, and then reads the state    *)
(* back; module ModelAdaptor adds what it reads.  Every run_cycle is one   *)
(* step here; module RunToCompletion takes it apart.                       *)
(***************************************************************************)
EXTENDS AdaptiveChart, Naturals

CONSTANTS Constituents,  \* the source ids that have a lifecycle
          MaxElapsed     \* bound: timer threads past their wait, per time event

ASSUME MaxElapsedAssumption == MaxElapsed \in Nat \ {0}

Callers == {"main", "monitor"}

VARIABLES
  bel,       \* state_vector[0]: the leaf of the Belonging region
  health,    \* state_vector[1]: the leaf of the Health region
  signals,   \* what the source and the reconstructor last heard
  armed,     \* timers waiting in the timer service
  elapsed,   \* timer threads past the wait, not yet in time_elapsed
  phase      \* where each caller stands in a ModelAdaptor call

chart == <<bel, health, signals, armed>>
vars  == <<bel, health, signals, armed, elapsed, phase>>

(***************************************************************************)
(* A call goes idle -> raised (first cycle done) -> settled (second cycle  *)
(* done, the rest only reads) -> idle.  The monitor is "compensating"      *)
(* between its test of allow_reconstruct and what it then decides to do    *)
(* about the missing event.                                                *)
(***************************************************************************)
Phases == {"idle", "compensating", "raised", "settled"}

TypeOK ==
  /\ bel      \in [Constituents -> Belonging]
  /\ health   \in [Constituents -> HealthStates]
  /\ signals  \in [Constituents -> Signals]
  /\ armed    \in [Constituents -> [TimeEvents -> BOOLEAN]]
  /\ elapsed  \in [Constituents -> [TimeEvents -> 0..MaxElapsed]]
  /\ phase    \in [Constituents -> [Callers -> Phases]]

------------------------------------------------------------------------------
\* ModelAdaptor.__init__ has entered the chart; the subscribers connect after
\* that and start from the same FALSE values.
Init ==
  /\ bel      = [c \in Constituents |-> "disengaged"]
  /\ health   = [c \in Constituents |-> "ideal"]
  /\ signals  = [c \in Constituents |-> NoSignals]
  /\ armed    = [c \in Constituents |-> [e \in TimeEvents |-> FALSE]]
  /\ elapsed  = [c \in Constituents |-> [e \in TimeEvents |-> 0]]
  /\ phase    = [c \in Constituents |-> [p \in Callers |-> "idle"]]

\* run_cycle with the in-events E raised: one micro step, in which the
\* Belonging region reacts first and to the old health.
RunCycle(c, E) ==
  LET b == bel[c]
      t == React(b, health[c], E)
  IN  /\ bel'     = [bel EXCEPT ![c] = t]
      /\ health'  = [health EXCEPT ![c] = HealthReact(@, E)]
      /\ signals' = [signals EXCEPT ![c] = Emitted(@, b, t)]
      /\ armed'   = [armed EXCEPT ![c] = Rearmed(@, b, t)]

Goto(c, p, from, to) ==
  /\ phase[c][p] = from
  /\ phase' = [phase EXCEPT ![c][p] = to]

\* The application has one thread for all the constituents.
MainFree == \A c \in Constituents : phase[c]["main"] = "idle"

------------------------------------------------------------------------------
(***************************************************************************)
(* ModelAdaptor calls.                                                     *)
(***************************************************************************)

\* A call by the application: any event the adaptor offers.
Raise(c, event) ==
  /\ MainFree
  /\ Goto(c, "main", "idle", "raised")
  /\ RunCycle(c, {event})
  /\ UNCHANGED elapsed

\* Faulty variant of Settle: _raise runs no second cycle.
SettleWithoutCycle(c, p) ==
  /\ Goto(c, p, "raised", "settled")
  /\ UNCHANGED <<chart, elapsed>>

\* _raise, its second sm.run_cycle().
Settle(c, p) ==
  /\ Goto(c, p, "raised", "settled")
  /\ RunCycle(c, {})
  /\ UNCHANGED elapsed

\* update_snapshot on its own: at the end of _wait_if_transient, and in
\* ensure_belonging and step_towards_belonging when the policy says to wait.
Refresh(c) ==
  /\ MainFree
  /\ Goto(c, "main", "idle", "settled")
  /\ UNCHANGED <<chart, elapsed>>

\* update_snapshot has replaced the snapshot and the call returns.
Return(c, p) ==
  /\ Goto(c, p, "settled", "idle")
  /\ UNCHANGED <<chart, elapsed>>

------------------------------------------------------------------------------
(***************************************************************************)
(* The reconstructor's monitor thread, as far as the chart sees it.        *)
(***************************************************************************)

\* _monitor_loop found a missed slot and allow_reconstruct set.
Compensate(c) ==
  /\ signals[c].compensating
  /\ Goto(c, "monitor", "idle", "compensating")
  /\ UNCHANGED <<chart, elapsed>>

\* reconstruct: the average confidence is high enough, an event is emitted.
EmitReconstructed(c) ==
  /\ Goto(c, "monitor", "compensating", "idle")
  /\ UNCHANGED <<chart, elapsed>>

\* reconstruct: the average confidence is below the threshold.
ExceedUncertainty(c) ==
  /\ Goto(c, "monitor", "compensating", "raised")
  /\ RunCycle(c, {"uncertainty_threshold_exceeded"})
  /\ UNCHANGED elapsed

------------------------------------------------------------------------------
(***************************************************************************)
(* The timers.  cancel() has no effect on a timer thread past its wait, so *)
(* a time event may reach the chart after the state that asked for it is   *)
(* left, or entered anew.                                                  *)
(***************************************************************************)

Expire(c, e) ==
  /\ armed[c][e]
  /\ elapsed[c][e] < MaxElapsed
  /\ armed' = [armed EXCEPT ![c][e] = FALSE]
  /\ elapsed' = [elapsed EXCEPT ![c][e] = @ + 1]
  /\ UNCHANGED <<bel, health, signals, phase>>

\* time_elapsed: queue the time event and run a cycle.
TimeElapsed(c, e) ==
  /\ elapsed[c][e] > 0
  /\ elapsed' = [elapsed EXCEPT ![c][e] = @ - 1]
  /\ RunCycle(c, {e})
  /\ UNCHANGED phase

------------------------------------------------------------------------------
\* The events main raises; uncertainty is the monitor's to report.
MainEvents ==
  (BelongingEvents \cup HealthEvents) \ {"uncertainty_threshold_exceeded"}

\* A call that has begun runs on to its end.
Continue(c, p) == Settle(c, p) \/ Return(c, p)

Timers(c, e) == Expire(c, e) \/ TimeElapsed(c, e)

Next == \E c \in Constituents :
  \/ \E event \in MainEvents : Raise(c, event)
  \/ Refresh(c)
  \/ \E p \in Callers : Continue(c, p)
  \/ Compensate(c)
  \/ EmitReconstructed(c)
  \/ ExceedUncertainty(c)
  \/ \E e \in TimeEvents : Timers(c, e)

Spec == Init /\ [][Next]_vars

(***************************************************************************)
(* The operating system schedules every thread: a started call goes on, a  *)
(* timer expires, its thread delivers the event.  Nobody is obliged to     *)
(* start a call.                                                           *)
(***************************************************************************)
Fairness == \A c \in Constituents :
  /\ \A p \in Callers : WF_vars(Continue(c, p))
  /\ \A e \in TimeEvents : WF_vars(Expire(c, e)) /\ WF_vars(TimeElapsed(c, e))

FairSpec == Spec /\ Fairness

------------------------------------------------------------------------------
(***************************************************************************)
(* Properties.                                                             *)
(***************************************************************************)

\* No call is between its two cycles.
AtRest(c) == \A p \in Callers : phase[c][p] # "raised"

\* What the source and the reconstructor were last told agrees with where the
\* chart is, whatever path led there: observed events exactly inside the SoS,
\* validated events exactly in a role, compensation in every restricted role
\* and never outside a role.
SignalsMatchBelonging == \A c \in Constituents :
  /\ signals[c].observed <=> bel[c] \in Inside
  /\ signals[c].validated <=> bel[c] \in Participating
  /\ bel[c] = "restricted_role" => signals[c].compensating
  /\ signals[c].compensating => bel[c] \in Participating

\* The reason for the second cycle of _raise: when no call is under way, a
\* further cycle would change nothing.  The one exception is a full role that
\* a timer gave to a degraded constituent (see DegradedNeverParticipates).
RestIsSettled == \A c \in Constituents : AtRest(c) =>
  \/ React(bel[c], health[c], {}) = bel[c]
  \/ bel[c] = "full_role" /\ health[c] = "degraded"

\* What the guards on health are for, whatever calls and time events overlap:
\* at rest no failed constituent is inside the SoS, and a role is restricted
\* exactly for erroneous and malfunctioning constituents.
HealthIsEnforced == \A c \in Constituents : AtRest(c) =>
  /\ bel[c] \in Inside => health[c] # "failed"
  /\ bel[c] \in Participating =>
       (bel[c] = "restricted_role" <=> health[c] \in {"erroneous", "malfunctioning"})

\* A pending state always has a time event coming that ends it, and a timer
\* waits in no other state, however often the state is left and re-entered.
PendingHasTimer == \A c \in Constituents, e \in TimeEvents :
  /\ bel[c] = TimerOf[e] => armed[c][e] \/ elapsed[c][e] > 0
  /\ armed[c][e] => bel[c] = TimerOf[e]

\* README: the combinations of belonging and health are constrained; the
\* chart itself sends a degraded participant to pending_exit.
DegradedNeverParticipates == \A c \in Constituents :
  AtRest(c) => ~(health[c] = "degraded" /\ bel[c] \in Participating)

\* Neither pending state is for ever.
PendingEnds == \A c \in Constituents, e \in TimeEvents :
  bel[c] = TimerOf[e] ~> bel[c] # TimerOf[e]

\* A constituent that fails leaves the SoS, unless it recovers first.
FailureEvicts == \A c \in Constituents :
  health[c] = "failed" ~> bel[c] \notin Inside \/ health[c] # "failed"

=============================================================================
