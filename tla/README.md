# A verification of the SoTS lifecycle and its compensation

This directory specifies, in TLA+, the part of this repository that decides
when a constituent's data may be used (the lifecycle statecharts, the runtime
that drives them, and the compensation of missing events) and the way its
events take: the event stream, its transport, the logger, and how all of these
are started and stopped. The specifications are translated from the Python
code and model-checked with TLC; the invariants, action properties and
refinements that the runs check are proved with TLAPS.

Contents: [the system](#the-system) · [modules](#the-modules) ·
[runs](#the-runs) · [where code and documents differ](#where-code-and-documents-differ) ·
[proofs](#the-proofs) · [what is not modelled](#what-is-not-modelled) · [plan](#plan)

## The system

A *constituent* is a data source with a lifecycle. Its statechart has two
orthogonal regions: **Belonging** (from `disengaged` to a role in the SoS) and
**Health** (`ideal` ... `failed`). The chart tells an event source whether it
may emit, and as what, and tells a reconstructor whether it is to make up for
missing events.

| component | state | operations | interacts with |
|---|---|---|---|
| statecharts `lv1`..`lv4`, experiment chart | state vector, in-event flags, in-event queue, `__is_executing` | `enter`, `exit`, `raise_X`, `time_elapsed`, `run_cycle`, `trigger_without_event` | timers (`set_timer`, `unset_timer`), subscribers (observables, called synchronously) |
| `TimerService` | one `threading.Timer` per time event | set, unset, expiry | calls `time_elapsed` of the chart in a thread of its own |
| `ModelAdaptor` | the chart, the snapshot `state` | event methods (`_raise`), `ensure_health`, `ensure_belonging`, `step_towards_belonging` | drives the chart, is read by `EventSource` through `LifecycleManager` |
| `LifecycleManager` | constituents | `set_health`, `set_belonging`, `activate_all`, initial configuration | called by the application's one thread |
| `Reconstructor`, `ExpectedSchedule` | `allow_observe`, `allow_reconstruct`, `next_ts`, confidence window | `consume_event` (dispatch thread), `_monitor_loop`, `reconstruct` (monitor thread) | hears from the chart, and tells it when its uncertainty is too high |
| `EventSource`, `SimulatedEventSource` | `allow_observed`, `allow_validated` | `_step`, `emit_event`, start, stop | hears from the chart, publishes to the stream |
| `EventStream`, ZeroMQ client and server | partitions, wildcard subscriptions, sockets | publish, subscribe, dispatch, start, stop | carries every event |
| loggers | bounded queue, writer thread, file | `consume_event`, `close` | subscribe to the stream |
| `Orchestrator` | all of the above | start, stop | |
| `EventProcessor`, Java CEP layer | a Java process | start, stop, pattern matching by Esper | subscribes over ZeroMQ |
| experiments | simulated clock, scenarios | one sequential loop | overrides of the classes above |

What makes it hard: four kinds of thread act on one chart (the application, a
timer thread for each time event, the constituent's monitor thread and, through
the flags, the source's and the dispatch thread), and the only protection is
the unsynchronised flag `__is_executing`; a timer that is cancelled may already
have fired; Belonging reacts to the health of *before* the micro step; the
signals are sent by entry actions only; the schedule of expected events is
advanced by two threads. `PROJECT.json` lists each hazard at its line.

What correctness means:

* chart: subscribers are told the truth, health is enforced, pending states
  end, timers belong to the state that set them;
* `run_cycle`: one event at a time, to completion, and it returns;
* adaptor: navigation ends, where it should, and the snapshot is current;
* compensation: each silent slot is reconstructed, once;
* stream: an event reaches the logger and its reconstructor, once, in order;
* logger and shutdown: what was queued is written, and stopping stops;
* experiments: each slot gets one event, and a role is reached in five ticks.

## The modules

| module | models | abstraction |
|---|---|---|
| `Health` | Health region of every chart | events as a set handed to a micro step |
| `AdaptiveChart` | Belonging region of `lv4_adaptive.py`: reactions, entry actions, timers, as operators | observables as the last value sent |
| `Lifecycle` | level-4 charts with `ModelAdaptor._raise`, the monitor thread's reports, timers that may fire late | `run_cycle` is one step |
| `AtomicCycle` | what `run_cycle` promises | the abstract specification |
| `RunToCompletion` | `run_cycle` line by line, any number of threads | one chart; guards of one reaction read at once |
| `LevelCharts` | Belonging regions of levels 1 to 3 and of the experiments' chart | as `AdaptiveChart` |
| `Membership` | what every level promises about membership | the abstract ladder |
| `LevelLifecycle` | one chart of any kind with enter, exit, raise, trigger, timers | one cycle per event |
| `ModelAdaptor` | `ensure_belonging`, `ensure_health`, the waits, the snapshot, on top of `Lifecycle` | time as "the timer is delivered before the sleep ends" |
| `Compensation` | source, delivery, schedule, dispatch and monitor thread of one constituent | slots instead of values, confidence as a choice |
| `Delivery` | `EventStream.add_event` and `dispatch`, client and server sockets, subscriptions | contents of an event: source, number, partition |
| `Pipeline` | `Orchestrator.start` and `stop`, the relay, dispatch, writer, source and monitor threads, `CSVLogger` | one socket per partition that never fills; no values, no charts |
| `ExperimentRun` | the loop of the experiments' orchestrator for one constituent: clock, scenario, adaptor, source, dispatch, reconstructor | values left out, the transport as a choice of what has arrived |
| `ChartLemmas` | lemmas about the reactions, signals and timers of the level-4 chart | |
| `LifecycleProofs`, `LevelProofs`, `RunToCompletionProofs`, `CompensationProofs`, `ExperimentProofs`, `DeliveryProofs`, `PipelineProofs` | theorems about the module of that name (`LevelLifecycle`, `ExperimentRun`; the first also about `ModelAdaptor`) | |
| `MC*` | instances for TLC | |

How they fit together:

* `Lifecycle` takes a cycle as one step. That is what `AtomicCycle` says, and
  `RunToCompletion` implements `AtomicCycle` when calls do not overlap
  (checked by `MCSerial`, proved for any number of threads and calls). When they
  do, the code does not (`MCHang`), and `MCOverlap` says what is left. All results
  about `Lifecycle`, `ModelAdaptor` and `LevelLifecycle` are results about cycles
  that do not overlap; steps of different threads still interleave between any two
  cycles.
* `ModelAdaptor` implements `Lifecycle` (`ImplementsLifecycle`, checked and
  proved), so what is proved of `Lifecycle` holds of a navigated chart
  (`NavigatedCharts`).
* `LevelLifecycle` implements `Membership` at every level (checked and proved),
  and in `Lifecycle` each constituent takes steps of `Membership` only
  (`MembershipClimbs`, proved).
* `ExperimentRun` uses the reactions of the fifth chart of `LevelCharts`, two
  cycles to a call, and composes the chart with source, dispatch and
  reconstructor: in the experiments one thread drives them all.
* `Delivery` lets every source publish to every partition at any time, so it
  holds for whatever the charts allow. It takes the threads as running;
  `Pipeline` says how they come and go. It keeps the sockets of `Delivery`, one
  per partition towards the relay and one per client towards the logger, but not
  their limits, late subscriptions or the race for a partition.
* `Compensation` takes from the chart that compensation is switched on and off
  at any time, and that giving up switches it off, unless the role was full.

### State and actions against the code

`bel[c]` and `health[c]` are `state_vector[0]` and `[1]`; the code's spelling
`avaliable` is written `available`, as `BELONGING_STATE_MAP` does. `signals[c]`
holds the last values of `emit_observed`, `emit_validated` and
`compensation_enabled`, which are the flags `allow_observed`, `allow_validated`
and `allow_reconstruct`. `armed[c]` are timers that wait, `elapsed[c]` timer
threads past their wait that have not called `time_elapsed` yet: `cancel()`
reaches the former only.

A reaction `XReact(h, E)` is one `..._react` method with its fall-through to the
enclosing state. `RunCycle` is a micro step with all it calls: the reaction, the
entry and exit actions (`Emitted`, `Rearmed`), and the Health reaction, which
comes second and does not influence the first. `Raise`, `Settle` and `Return`
are the three parts of `_raise`: first cycle, second cycle, snapshot and
result.

In `RunToCompletion` every read or write of what another thread writes is a
step of its own: the test and the setting of `__is_executing`, `empty()`,
`get()`, executing the event, evaluating the reaction, leaving, entering, the
Health region, clearing the flags. `bel` is `"between"` while a transition has
left one leaf and not entered the next.

In `ModelAdaptor`, `nav` is the program counter of the application's thread in a
navigation: it reads the leaf and picks an event (`Choose...`), raises it
(`Act`), waits if that led to a pending state (`Await`, `Wake`), and compares
(`Compare`). `Policy` is the table `BELONGING_POLICY`.

In `Compensation` slot k is due at `k * Interval`. The source's slots and the
schedule's are made one after the other by the orchestrator, less than a time
unit apart, and are taken as the same. Loading `next_ts` and storing the sum are
separate steps, in both threads, as `next_ts += interval` is in Python.

In `Delivery` a client is the pair of sockets of one partition, and the one made
by the thread of source s is called s. `Find`, `Miss`, `Make`, `Apply` and
`Return` are `_get_client` between its test of `partitions` and its `return
self.partitions[partition]`; `Push` is the send without blocking, `Join` a
subscription arriving at the relay, `Relay` one turn of `_loop`, `Handle` and
`Drained` the loops of `poll_once` and `dispatch`. `Subscribed` is the prefix
match of ZeroMQ, `HandedTo` the dictionary lookup of `poll_once`: they differ for
validated events, whose topics start with "observed.".

In `Pipeline` `main` is where the application's thread is between `start()` and
the end of `stop()`; it is `failed` when an interruption reached it anywhere but
in the loop at the end of `start()`. `relay` and `dispatch` are `begun` between
the start of the thread and its first statement, which sets the flag that
`stop()` clears. `accepted`, `file`, `batch` and `queue` hold what the logger's
queue took, what is written, what the writer has in hands and what it has not
taken yet. `wire[p]` is the PUSH socket of partition `p` up to the relay, which
takes from any of them, and `inbox[c]` the SUB socket of client `c`. The logger
subscribes to the two clients there are when it starts; the client "observed" is
sent the validated events as well (`HeardBy`). `dispatch` names the client being
drained; the third client has no logger and is left out. A monitor thread
(`Monitor`) may publish a reconstruction at any time, also when all is stopped.

In `ExperimentRun` one round of `at` is one turn of the loop. `Dispatch` hands
over, per partition, everything published before this tick and possibly what
was published in it. `last` is `last_observed_ts`, `dynamic` the tick whose event
made the partition of validated events (its subscription may come too late for
it). `published`, `prompt`, `verdict` and `streak` are history.

## The runs

| run | module, specification | question | outcome |
|---|---|---|---|
| `MCLifecycle` | `Lifecycle`, `FairSpec` | truth of the signals, health at rest, timers, progress | holds |
| `MCSerial` | `RunToCompletion`, `FairSpec` | is a cycle atomic when calls do not overlap, and does it return | holds |
| `MCOverlap` | `RunToCompletion`, `Spec` | what survives overlapping calls | holds |
| `MCLevels` | `LevelLifecycle`, `Spec` | do all five charts keep signals and timers in step, and climb the ladder | holds |
| `MCModelAdaptor` | `ModelAdaptor`, `NavFairSpec` | does navigation end, and where | holds |
| `MCCompensation` | `Compensation`, `Spec` | is each silent slot reconstructed once | holds |
| `MCExperiment` | `ExperimentRun`, `Spec` | does the loop bring a constituent to its role, and each slot to one event | holds |
| `MCDelivery` | `Delivery`, `FairSpec` | do events arrive, once and in order, while partitions are made | holds |
| `MCPipeline` | `Pipeline`, `FairSpec` | is what was queued written, and does stopping stop | holds |
| `MCDegraded`, `MCHang`, `MCLate` | | a claim of a document or comment | violated, see below |

Bounds, and why they are enough:

* `Constituents = {c1}`: constituents share no state but the one application
  thread, and the proofs cover any number.
* `MaxElapsed`: timer threads of one time event that are past their wait and
  not delivered. 2 is the least that lets an old and a new one coexist; 1 in
  `MCModelAdaptor`, where what matters is one late event. The proofs cover any
  bound.
* `MaxSteps = 15`, `MaxHealthSteps = 10`: the defaults of the code.
* `MaxCalls = 3` (`MCSerial`: all threads, all events; `MCOverlap`: the
  application and one timer thread, the events that can collide around a
  role): two calls collide, the third finds what they left. A call of the
  application has two cycles, so up to six cycles interleave. `MCHang` needs two.
  The proofs cover any number of threads and calls.
* `MaxTime = 20`, `Interval = 4`: five slots; an error over one slot shows in
  the next. `Grace = 1`, and `MaxLag = 1` for the monitor, which polls every
  0.05 s against intervals of seconds. The proofs cover all values that are
  `Timely`.

* `MCExperiment`: `Interval = 1`, where neighbouring slots can be confused;
  `MaxTick = 10`: twice the five ticks that lead from anywhere to a role. Every
  tick may have any health, any goal, a suppressed and a late event. The proofs
  cover any interval and length.
* `MCDelivery`: two sources race for one partition, and three can add only a
  second replaced client; `MaxEvents = 3`: one validated event for each and one
  that comes after or between; `Capacity = 2`: sockets do run full. To keep it
  small, s1 also publishes observed events and only the reconstructor of s2
  reconstructed ones; both kinds use clients that are there from the start. The
  proofs cover any number of sources and events, any capacity, and every source
  in every partition.
* `MCPipeline`: one source; `MaxEvents = 1` event for each of the three
  partitions, so that every socket and both clients are used and events overtake
  each other; `QueueSize = 1` and `FlushEvery = 2`: the queue overflows, and the
  writer flushes half a batch after a timeout as well as a whole one.
  Interruptions come anywhere and every join may time out. The safety part is
  proved for any sizes and numbers.

Deadlock is checked for `MCLifecycle`, `MCDegraded`, `MCLevels`, `MCModelAdaptor`
and `MCDelivery`, whose dispatch thread polls for ever. The other models stop
when the bounded calls or ticks have been made, time has run out, or all has
been shut down.

Fairness. `Lifecycle`: weak fairness for each caller's started call, for each
timer's expiry and for its delivery: the operating system schedules every
thread, and a `threading.Timer` fires. Nobody is obliged to begin a call, the
monitor is not obliged to report. `RunToCompletion`: weak fairness for each
thread's next step; a thread blocked in `get()` is not enabled. `ModelAdaptor`:
the same, and the navigation goes on. `Delivery`: a thread that is publishing goes
on, the relay gets to each of its peers (a PULL socket queues fairly), the
dispatch thread loops; nobody has to publish, and a subscription need not ever
reach the relay. `Pipeline`: every thread is scheduled, but no monitor has to
find a slot silent and nobody has to interrupt; a join returns, with or without the thread's end.
`Compensation` and `ExperimentRun` state no liveness.

Assumptions on time. `Punctual` in `ModelAdaptor`: the timer that ends a pending
state is delivered before `sleep(DELTA + 0.05)` ends; without it
`HealthyReachTheirGoal` is not claimed, as `ensure_belonging` then takes the
pending state for a refusal. `Compensation` bounds the delay of an event
(`MaxDelay`) and of the monitor (`MaxLag`): `MCCompensation` has a delay within
the grace period, `MCLate` one beyond it.

### Properties

* `SignalsMatchBelonging`, `SignalsMatchLevel`: what source and reconstructor
  were last told agrees with the leaf. In level 4, compensation may stay on when
  a restricted role becomes full; it is never on outside a role.
* `HealthIsEnforced`, `RestIsSettled`: the second cycle of `_raise` is what makes
  guards on health hold. `RestIsSettled` names the one exception.
* `PendingHasTimer`, `TimersFollowPending`, `PendingEnds`: timers and pending
  states.
* `FailureEvicts`, `TriggerEvicts`: failure ends membership.
* `RunsToCompletion`, `CallsEnd`; `GuardIsFreed`, `NothingStaysRaised`,
  `RegionKeepsALeaf`.
* `HealthyReachTheirGoal`, `HealthIsReached`, `NavigationEnds`,
  `ImplementsLifecycle`.
* `SilentSlotsAreReconstructed`, `NoSlotTwice`, `ScheduleKeepsPace`: of the
  reconstructor with its monitor thread, and the first two of the experiments'
  as well, where they name the slots that escape: those before the first event,
  those overtaken by their successor, and the one that made its partition.
* `CallsSettle`, `ParticipatesInTime`: of the experiments' adaptor. Its chart has
  no timers, so no degraded constituent keeps a role there.
* `EveryEventIsLogged`, `EveryEventIsObserved`, `OnceAndInOrder`: what the stream
  keeps, and what only while no two threads make one partition (`MadeOnce`).
* `QueuedIsWritten`, `OnlyLateErrors`, `ShutdownCompletes`: of the logger and of
  stopping. A thread that begins after its `stop()` is excepted (`unheard`).

Each property is accompanied by a *faulty variant* of a definition (an operator
whose comment says so, next to the definition it varies): a mistake of the kind
the code could have, under which TLC finds the property violated. The variants
are not used by any specification.

## Where code and documents differ

1. **`MCDegraded`.** README.md:15 says combinations of belonging and health are
   constrained, and the chart sends degraded participants to `pending_exit`. The
   time event that ends `pending_entry` has no guard, and `choice_0` gives a
   degraded constituent the full role. The timer thread runs one cycle only, so
   the constituent publishes validated events until the next call.
2. **`MCHang`.** `run_cycle` says it performs a run-to-completion step. Its guard
   is tested and set without a lock; two threads can be inside, both may see the
   one queued event, and the slower one blocks in `get()`: a call that does not
   return.
3. **`MCLate`.** The demo says missing observations are reconstructed; after an
   event later than the grace period, the schedule steps over the next slot.

The models show further behaviour that a reader of the code may not expect. It is
allowed by the specifications, and the properties are stated around it:

* a timer thread past its wait is not reached by `unset_timer`, and can end a new
  stay in a pending state before its delay is over (`elapsed` in `Lifecycle`);
* the snapshot of `ModelAdaptor` is not updated by transitions of timers, and
  events are stamped with it;
* two source threads can both make the partition of validated events. An event
  published through the replaced client, or delivered to it, may never get to
  the reconstructor, or get there twice, or late;
* the logger is closed before the stream is stopped. What the dispatch thread
  still hands over is queued for a writer that has ended, and lost without a
  warning; if it is the first event of the run, the header goes to a closed file
  and the dispatch thread dies of it;
* the log is not in the order of publishing across partitions, not even for one
  source whose events become validated: each partition has its own socket to the
  relay, and the dispatch thread drains the observed client before the
  reconstructed one. Only within a partition the order is kept (`WrittenInOrder`),
  and even there it takes that one thread has made the partition (`MadeOnce` of
  `Delivery`);
* an interruption before the end of `start()`, or in `stop()` before the logger is
  closed, leaves the writer thread, which is no daemon, and so the process
  running;
* with one slot per tick the experiments do not reconstruct a silent slot whose
  successor was handled in the tick it was published in, and `last_observed_ts`
  goes back when a late event is handled after a later one.

## The proofs

| module, specification | theorem | property |
|---|---|---|
| `LifecycleProofs`, `Lifecycle!Spec` | `TypeCorrect` | `TypeOK` |
| | `SignalsCorrect` | `SignalsMatchBelonging` |
| | `RestSettled` | `RestIsSettled` |
| | `PendingTimed` | `PendingHasTimer` |
| | `HealthEnforced` | `HealthIsEnforced` |
| | `StaleEventsHarmless` | `StaleEventsDoNothing`: a report or time event for a state that was left changes nothing in a chart at rest |
| | `MembershipClimbs` | `OneRungAtATime`: each step is one of `Membership` |
| `LevelProofs`, `LevelLifecycle!Spec` | `LevelsTyped` | `TypeOK` |
| | `LevelSignals` | `SignalsMatchLevel` |
| | `LevelTimers` | `TimersFollowPending` |
| | `FailureLeaves` | `TriggerEvicts` |
| | `LevelsClimb` | `ImplementsMembership` (refinement) |
| `ExperimentProofs`, `ExperimentRun!Spec` | `RunTyped` | `TypeOK` |
| | `CallsAlwaysSettle` | `CallsSettle` |
| | `FiveTicksSuffice` | `ParticipatesInTime` |
| | `SilenceIsMadeUpFor` | `SilentSlotsAreReconstructed` |
| | `OneEventPerSlot` | `NoSlotTwice` |
| `PipelineProofs`, `Pipeline!Spec` | `PipelineTyped` | `TypeOK` |
| | `QueuedWritten` | `QueuedIsWritten` |
| | `ErrorsOnlyLate` | `OnlyLateErrors` |
| | `WrittenInOrder` | the file has each event at most once, and those of a partition in the order of publishing |
| | `StoppedThreadsEnd` | no round begins in a thread that was told to stop (safety half of `ShutdownCompletes`) |
| `DeliveryProofs`, `Delivery!Spec` | `DeliveryTyped` | `TypeOK` |
| | `HandedOnce` | `OnceAndInOrder` |
| | `NoneVanishes` | empty sockets: the logger has what was taken and not lost (safety half of `EveryEventIsLogged`) |
| | `NoneMissed` | empty sockets: a reconstructor has what it was subscribed to (safety half of `EveryEventIsObserved`) |
| | `AllPolled` | `MadeOnce`: no client with events is left out of a round |
| `RunToCompletionProofs`, `RunToCompletion!Spec` | `ThreadsTyped` | `TypeOK` |
| | `GuardFreed` | `GuardIsFreed` |
| | `NoneStaysRaised` | `NothingStaysRaised` |
| | `LeafKept` | `RegionKeepsALeaf` |
| ... if `~Overlap` | `CyclesComplete` | `RunsToCompletion` (refinement) |
| | `NoCallBlocks` | no `get()` finds the queue empty (safety half of `CallsEnd`) |
| | `NoEventForgotten` | all calls returned: the queue is empty |
| `LifecycleProofs`, `ModelAdaptor!NavSpec` | `NavTyped` | `NavTypeOK` |
| | `NavigationFits` | `ImplementsLifecycle` (refinement) |
| | `NavigatedCharts` | the results about `Lifecycle`, of navigated charts |
| ... if `Ample` | `NoHealthError` | `HealthIsReached` |
| | `HealthyArrive` | `HealthyReachTheirGoal` |
| `CompensationProofs`, `Compensation!Spec`, if `Timely` | `CompensationTyped` | `TypeOK` |
| | `SchedulePaced` | `ScheduleKeepsPace` |
| | `SlotsOnce` | `NoSlotTwice` |
| | `SilentSlotsMadeUpFor` | `SilentSlotsAreReconstructed` |

Each holds for every value of the constants that satisfies the assumption of the
module (`MaxElapsedAssumption`, `TicksAssumption`, `PipelineAssumption`,
`DeliveryAssumption`, `ThreadAssumption`, `StepsAssumption`, `TimingAssumption`):
any number of constituents, threads, calls, sources, late timer threads, ticks and
events, any interval and size of a queue or socket. A theorem with a property in
words names one that no run states; most of these are the safety half of a
liveness property a run checks. Three conditions are hypotheses of the theorems that need
them:

* `~Overlap`: a call is begun when no other is under way. It is how `MCSerial`
  runs; nothing in the code enforces it, and `MCHang` shows what happens
  otherwise.
* `Ample == Punctual /\ MaxSteps > 5 /\ MaxHealthSteps > 6`: timers are
  delivered before the navigation wakes; the code has 15 and 10 steps.
* `Timely == MaxDelay <= Grace /\ Grace + MaxLag + 1 < Interval`: events are
  handled within the grace period, and the monitor is done with a slot before
  the next is due. `MCCompensation` satisfies it; `MCLate` does not, and the
  theorem's property fails there.

**`Lifecycle`.** The inductive invariant is

    IInv == TypeOK /\ SignalsMatchBelonging /\ RestIsSettled /\ PendingHasTimer

`HealthIsEnforced` follows from it: at rest a chart has settled, and every leaf
inside the SoS reacts to failure and every role to a health it does not fit
(`SettledIsHealthy`). It is not in the invariant because it says too little: a
state may satisfy it and still be about to move.

No part is inductive alone: that one further cycle settles a chart depends on
its type, that a time event arriving between calls leaves it settled
depends on its having been settled before (`TimeEventSettles`), and that
`PendingHasTimer` survives a delivery depends on the delivery ending the pending
state (`TimeEventEndsPending`). What a single cycle does is a handful of lemmas
about the operators of `AdaptiveChart`, in `ChartLemmas` (`ReactType`,
`EmittedFits`, `OneCycleSettles`, `HealthKept`); `CycleEffect` and `CycleTimers` lift them to
the state of one constituent, `FirstCycle`, `SecondCycle`, `TimerCycle` and
`ExpireKeeps` treat the four ways a step changes a chart, `PhaseStep` the steps
that do not, and `StepIInv` puts them together.

**`LevelLifecycle`.** `IInv` adds to the three invariants that the two regions of a
chart are entered and left together (`Whole`), and that the experiments' chart
has no timer (`Untimed`). The five charts differ in
their reactions, so the lemmas fix the level first (`LeavesOf`, `ReactionsOf`,
`EntriesOf` once per level) and treat a cycle for all of them together. The
refinement maps a leaf to its rung of the ladder (`StageOf`); what has to be
shown is that no reaction of any level leaps a rung upwards, and that a timer or
an exit never climbs.

**`ExperimentRun`.** `CallsAlwaysSettle` and `FiveTicksSuffice` rest on `ChartInv`. A
leaf has a `Distance` from the roles, at most 5; each tick that asks a healthy
constituent for a role brings it one closer, and health that changes within
`Healthy` takes no step back. So distance plus the length of the streak never
exceeds 5 (`Nearing`), which after five ticks leaves nothing. The other three rest
on `DataInv`: the schedule is at most one slot behind the clock (`Pace`), the
events of two ticks are all that can be on their way (`Dated`, `Carried`),
`last_observed_ts` is the time of a real event, and that of the current tick only if
it was handled promptly (`Seen`), and a validated event is on its way or has been
seen (`Handed`). When the slot before the current tick is judged, that is
enough: had its event come, `last_observed_ts` would not be before it; and if
`last_observed_ts` is not before it and no event came, then the event of the next
tick has been handled, and two neighbouring ticks are slots only if the interval
is 1 (`SuccessiveSlots`).

**`Pipeline`.** `Conserved` says `accepted = file \o batch \o queue`; moving an
element from one part to the next keeps it (`Shift`). `Leaving` says what a writer
that has left its loop has found: nothing of what was there when `close()` began
is still in the queue, since nothing leaves the queue but to the writer and
`stopping` never falls again. `Waited` and `Headed` tie a closed file to the place
of the application's thread and to the timeout.

Its type invariant adds where the threads are (`Placed`, `Flagged`) and
that the writer has room in its batch whenever it goes for another event
(`Numbered`).

**`RunToCompletion`.** With any overlap, each shared thing that is out of order
has a thread that is still to put it right: whoever raised an event has to clear
(`Clearing`), whoever left the region without a leaf has to enter one
(`Entering`), and `GuardIsFreed` is that statement of the flag. A step of one
thread leaves the others where they are (`Moved`), so all that has to be shown is
that a thread passes such a place only by doing what it owes. Without overlap at
most one thread is under way (`Alone`), and `Situation` says what the chart is at
each of its places. The refinement mapping (`CurrentLeaf`, `Waiting`) shows the
leaf that is being left, and the event that has been taken, until the Health
region has reacted: there the micro step is seen as a whole (`SerialCommit`),
beginning a call is the abstract `Put`, and all other steps are unseen.

**`ModelAdaptor`.** `NavInv` says that the application's thread is in a call of
the chart it navigates or in none (`Calling`) and that where it stands fits what
it was asked for (`Navigating`); with it every step of a navigation is a step of
`Lifecycle` or leaves its variables alone. `GoalInv` bounds what is left:
`ensure_health` has at most 6 steps of the order of health before it (`Gap`), and
`ensure_belonging` at most 5 to a leaf a healthy constituent can rest in (`Far`,
one more on the way down, since a role is left for Available). Distance
plus steps taken never grows (`GapCloses`, `FarCloses`). Timers, the monitor and
the second cycles may act in between, but they do nothing to a healthy
constituent except end a pending state (`Drift`), so after the call the leaf is
the one the event led to or the one that pending state resolves to (`Landed`).

**`Compensation`.** The key is `NeverBoth`: an event that is still to advance
the schedule is that of the slot the schedule expects, and within its grace
period, when the monitor has nothing to judge. So under `Timely` the load and
the store of one thread never fall between those of the other, though no lock
keeps them apart.
`Paced` says the schedule is less than a slot behind the source and never ahead;
`Handling` and `Judging` what each thread has in its hands; `Once` and `Owing` that
a slot the schedule has passed was handled or reconstructed, and not both.
`SlotsApart` is the one fact about multiples of the interval they need.

**`Delivery`.** Everything rests on `Earlier(made, f, e)`: f is another event
than e and, if one thread made the partition, was published before it by the same
source to the same partition. `Ordered` says it of any two neighbours on the way:
within one socket, of what was relayed against what was not, of what was handed
over against what is still in a socket. It is kept because an event is in one PUSH
socket at most, because `add_event` numbers an event after all that its source has
published (`Known`), and because events are only where their partition belongs
(`Sorted`). With two makers the clause for the replaced clients is dropped:
`Destined` names the consumers a client's event can still be handed to, and only
the logger, served by the observed client alone, keeps its promise. `Logged` and
`Observed` follow an event through its sockets; when those are empty nothing is
left but to have been handed over or lost, which gives `NoneVanishes` and
`NoneMissed`, the latter even for two makers. What two makers can break is that the
sockets are emptied (`AllPolled`).

What the longer modules add to these invariants:

* `Lifecycle`: `StaleEventsHarmless` follows from `RestIsSettled`: in any leaf but
  the one it is meant for, an event of the monitor or a timer reads as no event
  (`StaleReaction`), and a cycle without an event leaves a settled chart alone. The
  full role a timer gave to a degraded constituent is not settled, and excepted.
  `MembershipClimbs` adds that no reaction climbs more than a rung
  (`ReactClimbs`), nor two by the two cycles of a call, which are two steps.
* `RunToCompletion`: `Served` says that a thread leaves its cycle only when it has
  found the queue empty. Without overlap it finds the guard free whenever it asks
  (`GuardIsOwn`), so no call returns without having looked. With overlap TLC finds
  both `NoneBlocked` and `NoneForgotten` violated: the hypothesis is needed.
* `Pipeline`: `InTurn` says of the accepted events, each client's inbox and each
  partition's wire that the events of a partition are increasing in it and come
  before those that are still at an earlier stage. That one stage has several queues does no
  harm, since all events of a partition take the same ones (`Routed`). `Silenced` says that behind
  the place `stop()` has reached no flag is up, but for threads that had not begun
  when they were told to stop.

Model-checked only: the liveness properties `PendingEnds`, `FailureEvicts`,
`CallsEnd`, `NavigationEnds`, `EveryEventIsLogged`, `EveryEventIsObserved` and
`ShutdownCompletes`, since fairness and ENABLED are beyond the prover. No module
declares a RECURSIVE operator.

## What is not modelled

* Predictors: floating-point filters; their verdict is a choice.
* `EventProcessor`, the Java layer: operating-system processes and the Esper
  engine.
* ZeroMQ's own errors and malformed messages; reconnects after a failure of the
  relay, which nothing in the code handles either.
* `LifecycleLogger`: writes each transition at once; it decides nothing.
* The snapshot's parts and the stamp of an event: `emit_event` is one step.
* `announce`, `belonging_changed`, `health_changed`: no subscribers.
* Registries, schemas, result analysis: no behaviour over time.

## Plan

Done: 1. `Health`, `AdaptiveChart`, `Lifecycle`; 2. its proofs; 3.
`RunToCompletion` against `AtomicCycle`; 4. the other charts against
`Membership`; 5. `ModelAdaptor`; 6. `Compensation`; 7. `ExperimentRun`; 8.
`Delivery`; 9. `Pipeline`; 10. proofs of every invariant, action property and
refinement; 11. the safety halves of the liveness properties of `RunToCompletion`,
`Delivery` and `Pipeline`.

Next, in this order:

1. `emit_event` taken apart (flag, snapshot, flag) on top of `Lifecycle`, and
   `RunToCompletion` composed with the reads of the adaptor (`"unknown"`).
2. The receive loop and shutdown of the Java layer.
