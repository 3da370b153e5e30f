---------------------------- MODULE Compensation ----------------------------
(***************************************************************************)
(* Compensation for one constituent: the source, the delivery of its       *)
(* events, the ExpectedSchedule, and the two threads that share it without *)
(* a lock:                                                                 *)
(*                                                                         *)
(*   dispatch  the event stream's thread: Reconstructor.consume_event      *)
(*             advances the schedule past the event it was given;          *)
(*   monitor   Reconstructor._monitor_loop reconstructs the slot that is   *)
(*             missed and advances the schedule past it.                   *)
(*                                                                         *)
(* Slot k is due at time k * Interval; an event of the source carries the  *)
(* time of its slot.  Values and predictions are left out; confidence is   *)
(* a choice.  A thread's step is a read or a write of the shared next_ts.  *)
(***************************************************************************)
EXTENDS Naturals, FiniteSets

CONSTANTS Interval,  \* of the source and of the schedule
          Grace,     \* how late an event may be before its slot is missed
          MaxDelay,  \* from the emission of an event to the end of its handling
          MaxLag,    \* how long the monitor may take over a missed slot
          MaxTime    \* bound on time

ASSUME TimingAssumption ==
  /\ Interval \in Nat \ {0} /\ Grace \in Nat /\ MaxDelay \in Nat
  /\ MaxLag \in Nat /\ MaxTime \in Nat
  /\ Grace < Interval

VARIABLES
  now,            \* time.time()
  slot,           \* the next slot of the source
  travelling,     \* the times carried by the events on their way
  next_ts,        \* ExpectedSchedule.next_ts
  allow,          \* Reconstructor.allow_reconstruct
  dispatch,       \* the dispatch thread: at, the event's ts, what it loaded
  monitor,        \* the monitor thread: at, what it loaded
  observed,       \* history: slots whose event was handled
  reconstructed,  \* history: how often each slot was reconstructed
  owed            \* history: silent slots that are to be reconstructed

vars == <<now, slot, travelling, next_ts, allow, dispatch, monitor, observed,
          reconstructed, owed>>
history == <<observed, reconstructed, owed>>

Slots == 0..(MaxTime \div Interval)
Due(k) == k * Interval
Times == 0..(MaxTime + 2 * Interval)

TypeOK ==
  /\ now \in 0..MaxTime
  /\ slot \in 0..(MaxTime \div Interval + 1)
  /\ travelling \subseteq Times
  /\ next_ts \in Times
  /\ allow \in BOOLEAN
  /\ dispatch \in [at : {"idle", "test", "load", "store"}, ts : Times, loaded : Times]
  /\ monitor \in [at : {"idle", "missed", "reconstruct", "load", "store"}, loaded : Times]
  /\ observed \subseteq Slots
  /\ reconstructed \in [Slots -> Nat]
  /\ owed \subseteq Slots

\* The schedule expects its first event one interval after it is made.  The
\* source, made right after it, has its slot 0 at once, which comes to nothing
\* as the chart is disengaged.
Init ==
  /\ now = 0 /\ slot = 1 /\ travelling = {}
  /\ next_ts = Interval
  /\ allow = FALSE
  /\ dispatch = [at |-> "idle", ts |-> 0, loaded |-> 0]
  /\ monitor = [at |-> "idle", loaded |-> 0]
  /\ observed = {} /\ reconstructed = [k \in Slots |-> 0] /\ owed = {}

------------------------------------------------------------------------------
\* Faulty variant of Missed: no grace.
MissedAtOnce(t) == t > next_ts

\* Missed(t): ExpectedSchedule.is_missed at time t.
Missed(t) == t > next_ts + Grace

\* Time passes, but not over the source's next slot, the longest delay of an
\* event, or the longest lag of the monitor.
InTime(ts) == now < ts + MaxDelay

Tick ==
  /\ now < MaxTime
  /\ now < Due(slot)
  /\ \A ts \in travelling : InTime(ts)
  /\ dispatch.at # "idle" => InTime(dispatch.ts)
  /\ now <= next_ts + Grace + MaxLag
  /\ now' = now + 1
  /\ UNCHANGED <<slot, travelling, next_ts, allow, dispatch, monitor, history>>

\* _step emits the event of the slot ...
Emit ==
  /\ now = Due(slot) /\ slot \in Slots
  /\ travelling' = travelling \cup {Due(slot)}
  /\ slot' = slot + 1
  /\ UNCHANGED <<now, next_ts, allow, dispatch, monitor, history>>

\* ... or drops it, which is what compensation is for.
Drop ==
  /\ now = Due(slot) /\ slot \in Slots
  /\ slot' = slot + 1
  /\ owed' = IF allow THEN owed \cup {slot} ELSE owed
  /\ UNCHANGED <<now, travelling, next_ts, allow, dispatch, monitor, observed,
                 reconstructed>>

\* The chart enters or leaves the restricted role; what is missed while it is
\* not compensating is owed to nobody.
Enable ==
  /\ ~allow /\ allow' = TRUE
  /\ UNCHANGED <<now, slot, travelling, next_ts, dispatch, monitor, history>>

Disable ==
  /\ allow /\ allow' = FALSE
  /\ owed' = {}
  /\ UNCHANGED <<now, slot, travelling, next_ts, dispatch, monitor, observed,
                 reconstructed>>

------------------------------------------------------------------------------
(***************************************************************************)
(* The dispatch thread: while ts >= next_ts: advance().                    *)
(***************************************************************************)
Receive ==
  /\ dispatch.at = "idle"
  /\ \E ts \in travelling :
       /\ travelling' = travelling \ {ts}
       /\ dispatch' = [dispatch EXCEPT !.at = "test", !.ts = ts]
       /\ observed' = observed \cup {ts \div Interval}
  /\ UNCHANGED <<now, slot, next_ts, allow, monitor, reconstructed, owed>>

\* Faulty variant of TestEvent: the schedule is advanced one slot too far.
TestEventTooFar ==
  /\ dispatch.at = "test"
  /\ dispatch' = [dispatch EXCEPT !.at =
                    IF dispatch.ts + Interval >= next_ts THEN "load" ELSE "idle"]
  /\ UNCHANGED <<now, slot, travelling, next_ts, allow, monitor, history>>

TestEvent ==
  /\ dispatch.at = "test"
  /\ dispatch' = [dispatch EXCEPT !.at = IF dispatch.ts >= next_ts THEN "load" ELSE "idle"]
  /\ UNCHANGED <<now, slot, travelling, next_ts, allow, monitor, history>>

LoadForEvent ==
  /\ dispatch.at = "load"
  /\ dispatch' = [dispatch EXCEPT !.at = "store", !.loaded = next_ts]
  /\ UNCHANGED <<now, slot, travelling, next_ts, allow, monitor, history>>

StoreForEvent ==
  /\ dispatch.at = "store"
  /\ next_ts' = dispatch.loaded + Interval
  /\ dispatch' = [dispatch EXCEPT !.at = "test", !.loaded = 0]
  /\ UNCHANGED <<now, slot, travelling, allow, monitor, history>>

------------------------------------------------------------------------------
(***************************************************************************)
(* The monitor thread.                                                     *)
(***************************************************************************)
\* Faulty variant of FindMissed: every poll of the monitor finds a missed slot.
FindAlways ==
  /\ monitor.at = "idle"
  /\ monitor' = [monitor EXCEPT !.at = "missed"]
  /\ UNCHANGED <<now, slot, travelling, next_ts, allow, dispatch, history>>

FindMissed ==
  /\ monitor.at = "idle"
  /\ Missed(now)
  /\ monitor' = [monitor EXCEPT !.at = "missed"]
  /\ UNCHANGED <<now, slot, travelling, next_ts, allow, dispatch, history>>

\* if self.allow_reconstruct: self.reconstruct(self.schedule.next_ts)
Decide ==
  /\ monitor.at = "missed"
  /\ monitor' = IF allow THEN [at |-> "reconstruct", loaded |-> next_ts]
                         ELSE [monitor EXCEPT !.at = "load"]
  /\ UNCHANGED <<now, slot, travelling, next_ts, allow, dispatch, history>>

\* The confidence is high enough: an event for expected_ts is emitted.
Reconstruct ==
  LET k == monitor.loaded \div Interval
  IN  /\ monitor.at = "reconstruct"
      /\ reconstructed' = [reconstructed EXCEPT ![k] = @ + 1]
      /\ monitor' = [at |-> "load", loaded |-> 0]
      /\ UNCHANGED <<now, slot, travelling, next_ts, allow, dispatch, observed, owed>>

\* It is not: no event, and the chart is told, which ends a restricted role.  A
\* full role that was restricted before still compensates, and takes no notice.
GiveUp ==
  /\ monitor.at = "reconstruct"
  /\ monitor' = [at |-> "load", loaded |-> 0]
  /\ allow' \in {FALSE, allow}
  /\ owed' = IF allow' THEN owed \ {monitor.loaded \div Interval} ELSE {}
  /\ UNCHANGED <<now, slot, travelling, next_ts, dispatch, observed, reconstructed>>

Load ==
  /\ monitor.at = "load"
  /\ monitor' = [at |-> "store", loaded |-> next_ts]
  /\ UNCHANGED <<now, slot, travelling, next_ts, allow, dispatch, history>>

Store ==
  /\ monitor.at = "store"
  /\ next_ts' = monitor.loaded + Interval
  /\ monitor' = [at |-> "idle", loaded |-> 0]
  /\ UNCHANGED <<now, slot, travelling, allow, dispatch, history>>

------------------------------------------------------------------------------
DispatchStep == Receive \/ TestEvent \/ LoadForEvent \/ StoreForEvent

MonitorStep == FindMissed \/ Decide \/ Reconstruct \/ GiveUp \/ Load \/ Store

Next == Tick \/ Emit \/ Drop \/ Enable \/ Disable \/ DispatchStep \/ MonitorStep

Spec == Init /\ [][Next]_vars

------------------------------------------------------------------------------
(***************************************************************************)
(* Properties.                                                             *)
(***************************************************************************)

\* A slot the source left silent while compensation was on has been
\* reconstructed once the schedule is past it: neither thread ever steps over
\* a slot that is not its own.
SilentSlotsAreReconstructed ==
  \A k \in owed : next_ts > Due(k) => reconstructed[k] > 0

\* The complex event processor sees each slot once: not reconstructed twice,
\* and not reconstructed when its event came.
NoSlotTwice == \A k \in Slots :
  reconstructed[k] + (IF k \in observed THEN 1 ELSE 0) <= 1

\* Two threads that advance the same schedule never set it ahead of the slots
\* of the source, where it would not notice a silent one.
ScheduleKeepsPace == next_ts <= Due(slot)

=============================================================================
