------------------------- MODULE CompensationProofs -------------------------
(***************************************************************************)
(* Theorems about Compensation: if events are handled within the grace     *)
(* period and the monitor is done with a slot before the next one is due,  *)
(* the two threads never touch next_ts at the same time, although nothing  *)
(* keeps them from it, and every slot gets what it should.                 *)
(***************************************************************************)
EXTENDS Compensation, TLAPS

Timely == MaxDelay <= Grace /\ Grace + MaxLag + 1 < Interval

------------------------------------------------------------------------------
(***************************************************************************)
(* Lemmas about the times of slots.                                        *)
(***************************************************************************)
IsSlot(x) == \E k \in Nat : x = Due(k)

LEMMA DueType ==
  /\ \A k \in Nat : Due(k) \in Nat /\ IsSlot(Due(k)) /\ Due(k + 1) = Due(k) + Interval
  /\ Due(0) = 0
BY TimingAssumption DEF Due, IsSlot

LEMMA DueOrder ==
  ASSUME NEW j \in Nat, NEW k \in Nat, j < k
  PROVE  Due(j) + Interval <= Due(k)
<1>1. PICK d \in Nat : k = j + 1 + d
  <2>1. k - j - 1 \in Nat /\ k = j + 1 + (k - j - 1)
    OBVIOUS
  <2>. QED
    BY <2>1
<1>2. k * Interval = j * Interval + Interval + d * Interval
  BY <1>1, TimingAssumption
<1>3. d * Interval \in Nat /\ j * Interval \in Nat
  BY TimingAssumption
<1>. QED
  BY <1>2, <1>3, TimingAssumption DEF Due

LEMMA DueMonotone ==
  ASSUME NEW j \in Nat, NEW k \in Nat
  PROVE  /\ j < k <=> Due(j) < Due(k)
         /\ j = k <=> Due(j) = Due(k)
<1>1. j < k => Due(j) < Due(k)
  BY DueOrder, DueType, TimingAssumption
<1>2. k < j => Due(k) < Due(j)
  BY DueOrder, DueType, TimingAssumption
<1>. QED
  BY <1>1, <1>2, DueType

\* Slots lie an interval apart.
LEMMA SlotsApart ==
  ASSUME NEW x, NEW y, IsSlot(x), IsSlot(y), x < y
  PROVE  x + Interval <= y
<1>1. PICK j \in Nat : x = Due(j)
  BY DEF IsSlot
<1>2. PICK k \in Nat : y = Due(k)
  BY DEF IsSlot
<1>. QED
  BY <1>1, <1>2, DueOrder, DueMonotone

LEMMA SlotType ==
  ASSUME NEW x, IsSlot(x)
  PROVE  x \in Nat /\ IsSlot(x + Interval)
<1>1. PICK j \in Nat : x = Due(j)
  BY DEF IsSlot
<1>. QED
  BY <1>1, DueType

\* The number of a slot.
LEMMA SlotNumber ==
  ASSUME NEW k \in Nat
  PROVE  Due(k) \div Interval = k
<1>1. k * Interval = Interval * k + 0
  BY TimingAssumption
<1>. QED
  BY <1>1, TimingAssumption DEF Due

LEMMA SlotOf ==
  ASSUME NEW x, IsSlot(x)
  PROVE  x \div Interval \in Nat /\ Due(x \div Interval) = x
<1>1. PICK k \in Nat : x = Due(k)
  BY DEF IsSlot
<1>. QED
  BY <1>1, SlotNumber

LEMMA SlotsUpTo ==
  /\ Slots \subseteq Nat
  /\ \A k \in Nat : Due(k) <= MaxTime => k \in Slots
  /\ Due(MaxTime \div Interval) <= MaxTime
BY TimingAssumption DEF Slots, Due

------------------------------------------------------------------------------
(***************************************************************************)
(* The invariant.                                                          *)
(***************************************************************************)
Typed ==
  /\ now \in Nat /\ now <= MaxTime
  /\ slot \in Nat \ {0} /\ slot <= MaxTime \div Interval + 1
  /\ allow \in BOOLEAN
  /\ travelling \subseteq Nat
  /\ dispatch \in [at : {"idle", "test", "load", "store"}, ts : 0..MaxTime, loaded : Nat]
  /\ monitor \in [at : {"idle", "missed", "reconstruct", "load", "store"}, loaded : Nat]
  /\ dispatch.at # "store" => dispatch.loaded = 0
  /\ monitor.at \notin {"reconstruct", "store"} => monitor.loaded = 0
  /\ observed \subseteq Slots /\ owed \subseteq Slots
  /\ reconstructed \in [Slots -> {0, 1}]

\* Time is between the last slot of the source and its next one; the schedule
\* is not ahead of the source, and by less than an interval behind.
Paced ==
  /\ Due(slot - 1) <= now /\ now <= Due(slot)
  /\ IsSlot(next_ts) /\ next_ts <= Due(slot)
  /\ now <= next_ts + Grace + MaxLag + 1

\* An event that is not handled yet.
Fresh(ts) == IsSlot(ts) /\ ts < Due(slot) /\ now <= ts + MaxDelay

\* What the dispatch thread has in its hands ...
Handling ==
  /\ \A ts \in travelling : Fresh(ts)
  /\ dispatch.at # "idle" => Fresh(dispatch.ts)
  /\ dispatch.at \in {"load", "store"} => dispatch.ts >= next_ts
  /\ dispatch.at = "store" => dispatch.loaded = next_ts

\* ... and what the monitor thread has: never both the schedule.
Judging ==
  /\ monitor.at # "idle" => next_ts + Grace < now
  /\ monitor.at \in {"reconstruct", "store"} => monitor.loaded = next_ts

\* The monitor is past the reconstruction of slot k, or the schedule is.
Passed(k) ==
  Due(k) < next_ts \/ (Due(k) = next_ts /\ monitor.at \in {"load", "store"})

\* The event of slot k has not been handled to its end.
Underway(k) ==
  Due(k) \in travelling \/ (dispatch.at # "idle" /\ dispatch.ts = Due(k))

Once ==
  \A k \in Slots :
    /\ reconstructed[k] = 1 =>
         k < slot /\ k \notin observed /\ Due(k) \notin travelling /\ Passed(k)
    /\ k \in observed => Due(k) < next_ts \/ (dispatch.at # "idle" /\ dispatch.ts = Due(k))

Owing ==
  /\ ~allow => owed = {}
  /\ \A k \in owed : /\ k < slot /\ ~Underway(k)
                     /\ Passed(k) => reconstructed[k] = 1

IInv == Typed /\ Paced /\ Handling /\ Judging /\ Once /\ Owing

LEMMA InitIInv == Init => IInv
<1> SUFFICES ASSUME Init PROVE IInv
  OBVIOUS
<1>1. Due(0) = 0 /\ Due(1) = Interval /\ IsSlot(Interval)
  BY DueType, TimingAssumption
<1>2. MaxTime \div Interval \in Nat
  BY TimingAssumption
<1>3. Typed
  <2>1. reconstructed \in [Slots -> {0, 1}]
    BY DEF Init
  <2>2. now \in Nat /\ now <= MaxTime /\ slot \in Nat \ {0} /\ slot <= MaxTime \div Interval + 1
    BY <1>2, TimingAssumption DEF Init
  <2>3. /\ dispatch.at = "idle" /\ dispatch.loaded = 0 /\ monitor.at = "idle" /\ monitor.loaded = 0
        /\ dispatch \in [at : {"idle", "test", "load", "store"}, ts : 0..MaxTime, loaded : Nat]
        /\ monitor \in [at : {"idle", "missed", "reconstruct", "load", "store"}, loaded : Nat]
    BY TimingAssumption DEF Init
  <2>4. allow \in BOOLEAN /\ travelling = {} /\ observed = {} /\ owed = {}
    BY DEF Init
  <2>. QED
    BY <2>1, <2>2, <2>3, <2>4 DEF Typed
<1>4. Paced
  BY <1>1, TimingAssumption DEF Init, Paced
<1>5. Handling /\ Judging
  BY DEF Init, Handling, Judging
<1>6. Once /\ Owing
  BY DEF Init, Once, Owing
<1>. QED
  BY <1>3, <1>4, <1>5, <1>6 DEF IInv

\* While an event is to advance the schedule, the monitor has nothing to judge:
\* the event is that of the slot the schedule expects, and in its grace period.
LEMMA NeverBoth ==
  ASSUME Timely, Typed, Paced, NEW ts, Fresh(ts), ts >= next_ts
  PROVE  ts = next_ts /\ ~(next_ts + Grace < now)
<1>1. /\ ts \in Nat /\ next_ts \in Nat /\ IsSlot(ts) /\ IsSlot(next_ts)
      /\ now \in Nat /\ slot \in Nat \ {0}
  BY SlotType DEF Fresh, Paced, Typed
<1>2. ts <= now
  <2>1. PICK k \in Nat : ts = Due(k)
    BY <1>1 DEF IsSlot
  <2>2. k < slot
    BY <1>1, <2>1, DueMonotone DEF Fresh
  <2>3. slot - 1 \in Nat /\ (k < slot - 1 \/ k = slot - 1)
    BY <1>1, <2>2
  <2>4. Due(k) <= Due(slot - 1) /\ Due(slot - 1) \in Nat /\ Due(k) \in Nat
    BY <2>3, DueMonotone, DueType
  <2>. QED
    BY <1>1, <2>1, <2>4 DEF Paced
<1>3. ts = next_ts
  <2> SUFFICES ASSUME ts # next_ts PROVE FALSE
    OBVIOUS
  <2>1. next_ts + Interval <= ts
    BY <1>1, SlotsApart
  <2>. QED
    BY <1>1, <1>2, <2>1, TimingAssumption DEF Paced, Timely
<1>. QED
  BY <1>1, <1>3, TimingAssumption DEF Fresh, Timely

\* The schedule may be advanced over a slot the source has passed.
LEMMA MayAdvance ==
  ASSUME Typed, Paced, NEW x, IsSlot(x), x < Due(slot), next_ts <= x
  PROVE  /\ next_ts \in Nat /\ IsSlot(next_ts + Interval) /\ next_ts + Interval <= Due(slot)
         /\ now <= next_ts + Interval + Grace + MaxLag + 1
         /\ \A k \in Nat : Due(k) < next_ts + Interval <=> Due(k) <= next_ts
<1>1. IsSlot(Due(slot)) /\ Due(slot) \in Nat /\ now \in Nat
  BY DueType DEF Typed
<1>2. next_ts \in Nat /\ x \in Nat /\ IsSlot(next_ts + Interval)
  BY SlotType DEF Paced
<1>3. x + Interval <= Due(slot)
  BY <1>1, SlotsApart
<1>4. ASSUME NEW k \in Nat PROVE Due(k) < next_ts + Interval <=> Due(k) <= next_ts
  <2>1. IsSlot(Due(k)) /\ Due(k) \in Nat /\ IsSlot(next_ts)
    BY DueType DEF Paced
  <2>2. next_ts < Due(k) => next_ts + Interval <= Due(k)
    BY <2>1, SlotsApart
  <2>. QED
    BY <1>2, <2>1, <2>2, TimingAssumption
<1>. QED
  BY <1>1, <1>2, <1>3, <1>4, TimingAssumption DEF Paced

\* What the steps below use of times and slots.
LEMMA Basics ==
  ASSUME Typed, Paced
  PROVE  /\ now \in Nat /\ next_ts \in Nat /\ IsSlot(next_ts)
         /\ slot \in Nat /\ slot - 1 \in Nat /\ slot + 1 \in Nat
         /\ Due(slot) \in Nat /\ Due(slot - 1) \in Nat /\ IsSlot(Due(slot))
         /\ Due(slot + 1) = Due(slot) + Interval
         /\ \A k \in Slots : k \in Nat /\ Due(k) \in Nat /\ IsSlot(Due(k))
         /\ \A k \in Slots : /\ k < slot <=> Due(k) < Due(slot)
                             /\ k = slot <=> Due(k) = Due(slot)
<1>1. slot \in Nat /\ slot - 1 \in Nat /\ slot + 1 \in Nat /\ now \in Nat
  BY DEF Typed
<1>2. next_ts \in Nat /\ IsSlot(next_ts)
  BY SlotType DEF Paced
<1>3. \A k \in Slots : k \in Nat
  BY SlotsUpTo
<1>. QED
  BY <1>1, <1>2, <1>3, DueType, DueMonotone

\* Time.
LEMMA TickStep == IInv /\ Tick => IInv'
<1> SUFFICES ASSUME IInv, Tick PROVE IInv'
  OBVIOUS
<1> USE DEF IInv
<1>1. /\ now < MaxTime /\ now < Due(slot) /\ now' = now + 1
      /\ \A ts \in travelling : now < ts + MaxDelay
      /\ dispatch.at # "idle" => now < dispatch.ts + MaxDelay
      /\ now <= next_ts + Grace + MaxLag
      /\ UNCHANGED <<slot, travelling, next_ts, allow, dispatch, monitor, observed,
                     reconstructed, owed>>
  BY DEF Tick, InTime, history
<1>2. now \in Nat /\ next_ts \in Nat /\ Due(slot) \in Nat /\ Due(slot - 1) \in Nat
  BY Basics
<1>3. Typed'
  BY <1>1, <1>2, TimingAssumption DEF Typed
<1>4. Paced'
  BY <1>1, <1>2, TimingAssumption DEF Paced
<1>5. Handling'
  <2>1. \A ts \in travelling : Fresh(ts)'
    <3> SUFFICES ASSUME NEW ts \in travelling PROVE Fresh(ts)'
      OBVIOUS
    <3>1. ts \in Nat /\ Fresh(ts)
      BY DEF Typed, Handling
    <3>. QED
      BY <1>1, <1>2, <3>1, TimingAssumption DEF Fresh
  <2>2. dispatch.at # "idle" => Fresh(dispatch.ts)'
    BY <1>1, <1>2, TimingAssumption DEF Typed, Handling, Fresh
  <2>. QED
    BY <1>1, <2>1, <2>2 DEF Handling, Fresh
<1>6. Judging'
  BY <1>1, <1>2, TimingAssumption DEF Judging
<1>7. Once' /\ Owing'
  BY <1>1 DEF Once, Owing, Passed, Underway
<1>. QED
  BY <1>3, <1>4, <1>5, <1>6, <1>7

\* The source's slot.
LEMMA NextSource ==
  ASSUME IInv, now = Due(slot), slot \in Slots, slot' = slot + 1,
         UNCHANGED <<now, next_ts, allow, dispatch, monitor, observed, reconstructed>>
  PROVE  /\ slot' \in Nat \ {0} /\ slot' <= MaxTime \div Interval + 1
         /\ Due(slot) \in Nat /\ Due(slot) <= MaxTime
         /\ Paced' /\ Judging'
         /\ \A ts : ts = Due(slot) => Fresh(ts)'
         /\ \A ts : Fresh(ts) => Fresh(ts)' /\ ts # Due(slot)
<1> USE DEF IInv
<1>1. /\ now \in Nat /\ next_ts \in Nat /\ slot \in Nat /\ slot + 1 \in Nat
      /\ Due(slot) \in Nat /\ IsSlot(Due(slot)) /\ Due(slot + 1) = Due(slot) + Interval
      /\ slot + 1 - 1 = slot /\ Interval \in Nat \ {0}
  BY Basics, TimingAssumption
<1>2. slot' \in Nat \ {0} /\ slot' <= MaxTime \div Interval + 1
  BY <1>1, TimingAssumption DEF Slots
<1>3. Paced' /\ Judging'
  BY <1>1, TimingAssumption DEF Paced, Judging
<1>4. ASSUME NEW ts, ts = Due(slot) PROVE Fresh(ts)'
  BY <1>1, <1>4, TimingAssumption DEF Fresh
<1>5. ASSUME NEW ts, Fresh(ts) PROVE Fresh(ts)' /\ ts # Due(slot)
  <2>1. ts \in Nat
    BY <1>5, SlotType DEF Fresh
  <2>. QED
    BY <1>1, <1>5, <2>1 DEF Fresh
<1>. QED
  BY <1>1, <1>2, <1>3, <1>4, <1>5 DEF Typed

LEMMA EmitStep == IInv /\ Emit => IInv'
<1> SUFFICES ASSUME IInv, Emit PROVE IInv'
  OBVIOUS
<1> USE DEF IInv
<1>1. /\ now = Due(slot) /\ slot \in Slots /\ slot' = slot + 1
      /\ travelling' = travelling \cup {Due(slot)}
      /\ UNCHANGED <<now, next_ts, allow, dispatch, monitor, observed, reconstructed, owed>>
  BY DEF Emit, history
<1>2. /\ slot' \in Nat \ {0} /\ slot' <= MaxTime \div Interval + 1
      /\ Due(slot) \in Nat /\ Due(slot) <= MaxTime
      /\ Paced' /\ Judging'
      /\ \A ts : ts = Due(slot) => Fresh(ts)'
      /\ \A ts : Fresh(ts) => Fresh(ts)' /\ ts # Due(slot)
  BY <1>1, NextSource
<1>3. Typed'
  BY <1>1, <1>2 DEF Typed
<1>4. Handling'
  BY <1>1, <1>2 DEF Handling
<1>5. slot \in Nat /\ \A k \in Slots : k \in Nat /\ (k < slot => Due(k) # Due(slot) /\ k < slot')
  <2>1. slot \in Nat /\ \A k \in Slots : k \in Nat /\ Due(k) \in Nat
        /\ (k < slot <=> Due(k) < Due(slot))
    BY Basics
  <2>. QED
    BY <1>1, <1>2, <2>1
<1>6. Once'
  BY <1>1, <1>5 DEF Once, Passed
<1>7. Owing'
  BY <1>1, <1>5 DEF Owing, Passed, Underway, Typed
<1>. QED
  BY <1>2, <1>3, <1>4, <1>6, <1>7

LEMMA DropStep == IInv /\ Drop => IInv'
<1> SUFFICES ASSUME IInv, Drop PROVE IInv'
  OBVIOUS
<1> USE DEF IInv
<1>1. /\ now = Due(slot) /\ slot \in Slots /\ slot' = slot + 1
      /\ owed' = IF allow THEN owed \cup {slot} ELSE owed
      /\ UNCHANGED <<now, travelling, next_ts, allow, dispatch, monitor, observed, reconstructed>>
  BY DEF Drop
<1>2. /\ slot' \in Nat \ {0} /\ slot' <= MaxTime \div Interval + 1
      /\ Due(slot) \in Nat /\ Due(slot) <= MaxTime
      /\ Paced' /\ Judging'
      /\ \A ts : ts = Due(slot) => Fresh(ts)'
      /\ \A ts : Fresh(ts) => Fresh(ts)' /\ ts # Due(slot)
  BY <1>1, NextSource
<1>3. Typed'
  BY <1>1, <1>2 DEF Typed
<1>4. Handling'
  BY <1>1, <1>2 DEF Handling
<1>5. slot \in Nat /\ next_ts \in Nat /\ \A k \in Slots : k \in Nat
  BY Basics
<1>6. Once'
  BY <1>1, <1>5 DEF Once, Passed
<1>7. ~Underway(slot)
  BY <1>2 DEF Underway, Handling
<1>8. ~Passed(slot)
  <2>1. next_ts <= Due(slot)
    BY DEF Paced
  <2>2. monitor.at # "idle" => next_ts < Due(slot)
    BY <1>1, <1>2, <1>5, TimingAssumption DEF Judging
  <2>. QED
    BY <1>2, <1>5, <2>1, <2>2 DEF Passed
<1>9. Owing'
  <2>1. ~allow => owed' = {}
    BY <1>1 DEF Owing
  <2>2. ASSUME NEW k \in owed'
        PROVE  k < slot + 1 /\ ~Underway(k) /\ (Passed(k) => reconstructed[k] = 1)
    <3>1. CASE k \in owed
      BY <1>5, <3>1 DEF Owing, Typed
    <3>2. CASE k = slot
      BY <1>5, <1>7, <1>8, <3>2
    <3>. QED
      BY <1>1, <3>1, <3>2
  <2>. QED
    BY <1>1, <2>1, <2>2 DEF Owing, Underway, Passed
<1>. QED
  BY <1>2, <1>3, <1>4, <1>6, <1>9

\* Compensation is switched on and off.
LEMMA SwitchStep == IInv /\ (Enable \/ Disable) => IInv'
<1> SUFFICES ASSUME IInv, Enable \/ Disable PROVE IInv'
  OBVIOUS
<1> USE DEF IInv
<1>1. /\ \/ ~allow /\ allow' = TRUE /\ UNCHANGED owed
         \/ allow' = FALSE /\ owed' = {}
      /\ UNCHANGED <<now, slot, travelling, next_ts, dispatch, monitor, observed,
                     reconstructed>>
  BY DEF Enable, Disable, history
<1>2. Typed' /\ Paced' /\ Judging'
  BY <1>1 DEF Typed, Paced, Judging
<1>3. Handling' /\ Once'
  BY <1>1 DEF Handling, Fresh, Once, Passed
<1>4. Owing'
  BY <1>1 DEF Owing, Passed, Underway
<1>. QED
  BY <1>2, <1>3, <1>4

\* An event is taken from the stream.
LEMMA ReceiveStep == IInv /\ Receive => IInv'
<1> SUFFICES ASSUME IInv, Receive PROVE IInv'
  OBVIOUS
<1> USE DEF IInv
<1>1. PICK ts \in travelling :
        /\ dispatch.at = "idle"
        /\ travelling' = travelling \ {ts}
        /\ dispatch' = [dispatch EXCEPT !.at = "test", !.ts = ts]
        /\ observed' = observed \cup {ts \div Interval}
        /\ UNCHANGED <<now, slot, next_ts, allow, monitor, reconstructed, owed>>
  BY DEF Receive
<1> DEFINE n == ts \div Interval
<1>2. Fresh(ts) /\ ts \in Nat /\ n \in Nat /\ Due(n) = ts
  BY SlotOf, SlotType DEF Handling, Fresh
<1>3. n < slot /\ n \in Slots /\ ts <= MaxTime
  <2>1. n < slot
    BY <1>2, Basics, DueMonotone DEF Fresh
  <2>2. slot \in Nat \ {0} /\ slot <= MaxTime \div Interval + 1 /\ MaxTime \div Interval \in Nat
    BY TimingAssumption DEF Typed
  <2>3. n \in Slots
    BY <1>2, <2>1, <2>2 DEF Slots
  <2>4. Due(n) <= Due(MaxTime \div Interval)
    <3>1. n < MaxTime \div Interval \/ n = MaxTime \div Interval
      BY <1>2, <2>1, <2>2
    <3>2. Due(n) \in Nat /\ Due(MaxTime \div Interval) \in Nat
      BY <1>2, <2>2, DueType
    <3>. QED
      BY <1>2, <2>2, <3>1, <3>2, DueMonotone
  <2>5. Due(MaxTime \div Interval) \in Nat
    BY <2>2, DueType
  <2>. QED
    BY <1>2, <2>1, <2>3, <2>4, <2>5, SlotsUpTo, TimingAssumption
<1> HIDE DEF n
<1>4. /\ dispatch'.at = "test" /\ dispatch'.ts = ts /\ dispatch'.loaded = 0
      /\ dispatch' \in [at : {"idle", "test", "load", "store"}, ts : 0..MaxTime, loaded : Nat]
  <2>1. /\ dispatch \in [at : {"idle", "test", "load", "store"}, ts : 0..MaxTime, loaded : Nat]
        /\ dispatch.loaded = 0
    BY <1>1 DEF Typed
  <2>2. ts \in 0..MaxTime
    BY <1>2, <1>3
  <2>3. dispatch' = [at |-> "test", ts |-> ts, loaded |-> 0]
    BY <1>1, <2>1
  <2>. QED
    BY <2>2, <2>3
<1>5. observed' = observed \cup {n}
  BY <1>1 DEF n
<1>6. Typed'
  BY <1>1, <1>3, <1>4, <1>5 DEF Typed
<1>7. Paced' /\ Judging'
  BY <1>1 DEF Paced, Judging
<1>8. Handling'
  BY <1>1, <1>2, <1>4 DEF Handling, Fresh
<1>9. Once'
  <2>1. reconstructed[n] # 1
    BY <1>2, <1>3 DEF Once
  <2>. QED
    BY <1>1, <1>2, <1>4, <1>5, <2>1 DEF Once, Passed
<1>10. Owing'
  BY <1>1, <1>2, <1>4 DEF Owing, Passed, Underway
<1>. QED
  BY <1>6, <1>7, <1>8, <1>9, <1>10

\* The dispatch thread compares, and reads the schedule.
LEMMA TestStep == IInv /\ (TestEvent \/ LoadForEvent) => IInv'
<1> SUFFICES ASSUME IInv, TestEvent \/ LoadForEvent PROVE IInv'
  OBVIOUS
<1> USE DEF IInv
<1>1. /\ UNCHANGED <<now, slot, travelling, next_ts, allow, monitor, observed,
                     reconstructed, owed>>
      /\ dispatch.at # "idle"
  BY DEF TestEvent, LoadForEvent, history
<1>2. next_ts \in Nat
  BY Basics
<1>3. /\ dispatch' \in [at : {"idle", "test", "load", "store"}, ts : 0..MaxTime, loaded : Nat]
      /\ dispatch'.ts = dispatch.ts /\ dispatch.ts \in Nat
      /\ dispatch'.at = "idle" => ~(dispatch.ts >= next_ts)
      /\ dispatch'.at \in {"load", "store"} => dispatch.ts >= next_ts
      /\ dispatch'.at = "store" => dispatch'.loaded = next_ts
      /\ dispatch'.at # "store" => dispatch'.loaded = 0
  <2>1. CASE TestEvent
    BY <1>2, <2>1 DEF TestEvent, Typed
  <2>2. CASE LoadForEvent
    <3>1. /\ dispatch \in [at : {"idle", "test", "load", "store"}, ts : 0..MaxTime, loaded : Nat]
          /\ dispatch.at = "load" /\ dispatch.ts >= next_ts
          /\ dispatch' = [dispatch EXCEPT !.at = "store", !.loaded = next_ts]
      BY <2>2 DEF LoadForEvent, Typed, Handling
    <3>2. dispatch' = [at |-> "store", ts |-> dispatch.ts, loaded |-> next_ts]
      BY <3>1
    <3>. QED
      BY <1>2, <3>1, <3>2
  <2>. QED
    BY <2>1, <2>2
<1>4. Typed' /\ Paced' /\ Judging'
  BY <1>1, <1>3 DEF Typed, Paced, Judging
<1>5. Handling'
  BY <1>1, <1>3 DEF Handling, Fresh
<1>6. Once'
  BY <1>1, <1>2, <1>3 DEF Once, Passed
<1>7. Owing'
  BY <1>1, <1>3 DEF Owing, Passed, Underway
<1>. QED
  BY <1>4, <1>5, <1>6, <1>7

\* The dispatch thread advances the schedule: the monitor is idle.
LEMMA StoreForEventStep == Timely /\ IInv /\ StoreForEvent => IInv'
<1> SUFFICES ASSUME Timely, IInv, StoreForEvent PROVE IInv'
  OBVIOUS
<1> USE DEF IInv
<1> DEFINE ts == dispatch.ts
<1>1. /\ dispatch.at = "store" /\ dispatch.loaded = next_ts
      /\ next_ts' = next_ts + Interval
      /\ dispatch' = [dispatch EXCEPT !.at = "test", !.loaded = 0]
      /\ UNCHANGED <<now, slot, travelling, allow, monitor, observed, reconstructed, owed>>
  BY DEF StoreForEvent, history, Handling
<1>2. Fresh(ts) /\ ts >= next_ts
  BY <1>1 DEF Handling
<1>3. ts = next_ts /\ ~(next_ts + Grace < now)
  BY <1>2, NeverBoth
<1>4. monitor.at = "idle"
  BY <1>3 DEF Judging
<1>5. /\ next_ts \in Nat /\ IsSlot(next_ts + Interval) /\ next_ts + Interval <= Due(slot)
      /\ now <= next_ts + Interval + Grace + MaxLag + 1
      /\ \A k \in Nat : Due(k) < next_ts + Interval <=> Due(k) <= next_ts
  BY <1>2, <1>3, MayAdvance, Basics DEF Fresh
<1>6. /\ dispatch'.at = "test" /\ dispatch'.ts = ts /\ dispatch'.loaded = 0
      /\ dispatch' \in [at : {"idle", "test", "load", "store"}, ts : 0..MaxTime, loaded : Nat]
  BY <1>1 DEF Typed
<1> HIDE DEF ts
<1>7. Typed' /\ Paced' /\ Judging'
  BY <1>1, <1>4, <1>5, <1>6 DEF Typed, Paced, Judging
<1>8. Handling'
  BY <1>1, <1>2, <1>6 DEF Handling, Fresh
<1>9. \A k \in Slots : /\ k \in Nat /\ Due(k) \in Nat
                       /\ Passed(k) => Passed(k)'
                       /\ Passed(k)' => Passed(k) \/ Due(k) = ts
  <2>1. \A k \in Slots : k \in Nat /\ Due(k) \in Nat
    BY Basics
  <2>. QED
    BY <1>1, <1>3, <1>4, <1>5, <2>1 DEF Passed
<1>10. Once'
  <2>1. \A k \in Slots : Due(k) < next_ts => Due(k) < next_ts'
    BY <1>1, <1>5, <1>9
  <2>. QED
    BY <1>1, <1>6, <1>9, <2>1 DEF Once, ts
<1>11. Owing'
  <2>1. \A k \in owed : Due(k) # ts
    BY <1>1 DEF Owing, Underway, ts
  <2>. QED
    BY <1>1, <1>6, <1>9, <2>1 DEF Owing, Underway, Typed, ts
<1>. QED
  BY <1>7, <1>8, <1>10, <1>11

\* The monitor finds a slot missed, reads or leaves the schedule.
LEMMA FindStep == IInv /\ (FindMissed \/ Decide \/ Load) => IInv'
<1> SUFFICES ASSUME IInv, FindMissed \/ Decide \/ Load PROVE IInv'
  OBVIOUS
<1> USE DEF IInv
<1>1. UNCHANGED <<now, slot, travelling, next_ts, allow, dispatch, observed,
                  reconstructed, owed>>
  BY DEF FindMissed, Decide, Load, history
<1>2. next_ts \in Nat /\ now \in Nat
  BY Basics
<1>3. monitor \in [at : {"idle", "missed", "reconstruct", "load", "store"}, loaded : Nat]
  BY DEF Typed
<1>4. /\ monitor' \in [at : {"idle", "missed", "reconstruct", "load", "store"}, loaded : Nat]
      /\ monitor'.at \notin {"reconstruct", "store"} => monitor'.loaded = 0
      /\ monitor'.at \in {"reconstruct", "store"} => monitor'.loaded = next_ts
      /\ next_ts + Grace < now
      /\ \/ monitor.at \notin {"load", "store"} /\ monitor'.at \notin {"load", "store"}
         \/ monitor.at \in {"load", "store"} /\ monitor'.at \in {"load", "store"}
         \/ monitor.at \notin {"load", "store"} /\ ~allow
  <2>1. CASE FindMissed
    BY <1>2, <1>3, <2>1, TimingAssumption DEF FindMissed, Missed, Typed
  <2>2. CASE Decide
    BY <1>2, <1>3, <2>2 DEF Decide, Typed, Judging
  <2>3. CASE Load
    BY <1>2, <1>3, <2>3 DEF Load, Typed, Judging
  <2>. QED
    BY <2>1, <2>2, <2>3
<1>5. Typed' /\ Paced' /\ Judging'
  BY <1>1, <1>4 DEF Typed, Paced, Judging
<1>6. Handling'
  BY <1>1 DEF Handling, Fresh
<1>7. \A k : Passed(k) => Passed(k)'
  <2>1. monitor.at \in {"load", "store"} => monitor'.at \in {"load", "store"}
    BY <1>4
  <2>. QED
    BY <1>1, <2>1 DEF Passed
<1>8. Once'
  BY <1>1, <1>7 DEF Once
<1>9. Owing'
  <2>1. CASE owed = {}
    BY <1>1, <2>1 DEF Owing
  <2>2. CASE owed # {}
    <3>1. monitor'.at \in {"load", "store"} => monitor.at \in {"load", "store"}
      BY <1>4, <2>2 DEF Owing
    <3>2. \A k : Passed(k)' => Passed(k)
      BY <1>1, <3>1 DEF Passed
    <3>. QED
      BY <1>1, <3>2 DEF Owing, Underway
  <2>. QED
    BY <2>1, <2>2
<1>. QED
  BY <1>5, <1>6, <1>8, <1>9

\* The slot that is missed is reconstructed: no event of it is left.
LEMMA ReconstructStep == Timely /\ IInv /\ Reconstruct => IInv'
<1> SUFFICES ASSUME Timely, IInv, Reconstruct PROVE IInv'
  OBVIOUS
<1> USE DEF IInv
<1> DEFINE n == monitor.loaded \div Interval
<1>1. /\ monitor.at = "reconstruct" /\ monitor.loaded = next_ts
      /\ reconstructed' = [reconstructed EXCEPT ![n] = @ + 1]
      /\ monitor' = [at |-> "load", loaded |-> 0]
      /\ UNCHANGED <<now, slot, travelling, next_ts, allow, dispatch, observed, owed>>
  BY DEF Reconstruct, Judging
<1>2. next_ts \in Nat /\ now \in Nat /\ next_ts + Grace < now /\ IsSlot(next_ts)
  BY <1>1, Basics DEF Judging
<1>3. n \in Nat /\ Due(n) = next_ts
  BY <1>1, <1>2, SlotOf
<1> HIDE DEF n
<1>4. \A k \in Slots : Due(k) = next_ts <=> k = n
  BY <1>2, <1>3, DueMonotone, SlotsUpTo
<1>5. ~Underway(n)
  BY <1>2, <1>3, NeverBoth DEF Underway, Handling
<1>6. n \in Slots => n < slot /\ n \notin observed /\ reconstructed[n] = 0
  <2> SUFFICES ASSUME n \in Slots PROVE n < slot /\ n \notin observed /\ reconstructed[n] = 0
    OBVIOUS
  <2>1. next_ts < Due(slot) /\ ~(Due(n) < next_ts)
    <3>1. Due(slot) \in Nat
      BY Basics
    <3>. QED
      BY <1>2, <1>3, <3>1, TimingAssumption DEF Paced
  <2>2. n < slot
    BY <1>3, <2>1, Basics
  <2>3. n \notin observed
    BY <1>3, <1>5, <2>1 DEF Once, Underway
  <2>4. reconstructed[n] # 1
    BY <1>1, <2>1 DEF Once, Passed
  <2>. QED
    BY <2>2, <2>3, <2>4 DEF Typed
<1>7. reconstructed' = [k \in Slots |-> IF k = n THEN 1 ELSE reconstructed[k]]
  <2>1. reconstructed \in [Slots -> {0, 1}]
    BY DEF Typed
  <2>2. CASE n \in Slots
    <3>1. reconstructed[n] + 1 = 1
      BY <1>6, <2>2
    <3>. QED
      BY <1>1, <2>1, <3>1
  <2>3. CASE n \notin Slots
    BY <1>1, <2>1, <2>3
  <2>. QED
    BY <2>2, <2>3
<1>8. Typed' /\ Paced' /\ Judging'
  <2>1. reconstructed' \in [Slots -> {0, 1}]
    BY <1>7 DEF Typed
  <2>. QED
    BY <1>1, <1>2, <2>1 DEF Typed, Paced, Judging
<1>9. Handling'
  BY <1>1 DEF Handling, Fresh
<1>10. \A k \in Slots : Passed(k)' <=> Passed(k) \/ k = n
  BY <1>1, <1>4 DEF Passed
<1>11. Once'
  BY <1>1, <1>5, <1>6, <1>7, <1>10 DEF Once, Underway
<1>12. Owing'
  BY <1>1, <1>7, <1>10 DEF Owing, Underway, Typed
<1>. QED
  BY <1>8, <1>9, <1>11, <1>12

\* Nothing is reconstructed, and nothing owed for this slot.
LEMMA GiveUpStep == IInv /\ GiveUp => IInv'
<1> SUFFICES ASSUME IInv, GiveUp PROVE IInv'
  OBVIOUS
<1> USE DEF IInv
<1> DEFINE n == monitor.loaded \div Interval
<1>1. /\ monitor.at = "reconstruct" /\ monitor.loaded = next_ts
      /\ monitor' = [at |-> "load", loaded |-> 0]
      /\ allow' \in {FALSE, allow}
      /\ owed' = IF allow' THEN owed \ {n} ELSE {}
      /\ UNCHANGED <<now, slot, travelling, next_ts, dispatch, observed, reconstructed>>
  BY DEF GiveUp, Judging
<1>2. next_ts \in Nat /\ now \in Nat /\ next_ts + Grace < now /\ IsSlot(next_ts)
  BY <1>1, Basics DEF Judging
<1>3. n \in Nat /\ Due(n) = next_ts
  BY <1>1, <1>2, SlotOf
<1> HIDE DEF n
<1>4. \A k \in Slots : Due(k) = next_ts <=> k = n
  BY <1>2, <1>3, DueMonotone, SlotsUpTo
<1>5. Typed' /\ Paced' /\ Judging'
  BY <1>1, <1>2 DEF Typed, Paced, Judging
<1>6. Handling'
  BY <1>1 DEF Handling, Fresh
<1>7. \A k \in Slots : Passed(k)' <=> Passed(k) \/ k = n
  BY <1>1, <1>4 DEF Passed
<1>8. Once'
  BY <1>1, <1>7 DEF Once
<1>9. Owing'
  BY <1>1, <1>7 DEF Owing, Underway, Typed
<1>. QED
  BY <1>5, <1>6, <1>8, <1>9

\* The monitor advances the schedule: the dispatch thread does not.
LEMMA StoreStep == Timely /\ IInv /\ Store => IInv'
<1> SUFFICES ASSUME Timely, IInv, Store PROVE IInv'
  OBVIOUS
<1> USE DEF IInv
<1>1. /\ monitor.at = "store" /\ monitor.loaded = next_ts
      /\ next_ts' = next_ts + Interval
      /\ monitor' = [at |-> "idle", loaded |-> 0]
      /\ UNCHANGED <<now, slot, travelling, allow, dispatch, observed, reconstructed, owed>>
  BY DEF Store, history, Judging
<1>2. /\ next_ts \in Nat /\ now \in Nat /\ next_ts + Grace < now /\ IsSlot(next_ts)
      /\ Due(slot) \in Nat
  BY <1>1, Basics DEF Judging
<1>3. next_ts < Due(slot)
  BY <1>2, TimingAssumption DEF Paced
<1>4. dispatch.at \notin {"load", "store"}
  BY <1>2, NeverBoth DEF Handling
<1>5. /\ IsSlot(next_ts + Interval) /\ next_ts + Interval <= Due(slot)
      /\ now <= next_ts + Interval + Grace + MaxLag + 1
      /\ \A k \in Nat : Due(k) < next_ts + Interval <=> Due(k) <= next_ts
  BY <1>2, <1>3, MayAdvance
<1>6. Typed' /\ Paced' /\ Judging'
  BY <1>1, <1>5 DEF Typed, Paced, Judging
<1>7. Handling'
  BY <1>1, <1>4 DEF Handling, Fresh
<1>8. \A k \in Slots : (Passed(k)' <=> Passed(k)) /\ (Due(k) < next_ts => Due(k) < next_ts')
  <2>1. \A k \in Slots : k \in Nat /\ Due(k) \in Nat
    BY Basics
  <2>2. \A k \in Slots : Due(k) <= next_ts <=> Due(k) < next_ts \/ Due(k) = next_ts
    BY <1>2, <2>1
  <2>. QED
    BY <1>1, <1>5, <2>1, <2>2 DEF Passed
<1>9. Once'
  BY <1>1, <1>8 DEF Once
<1>10. Owing'
  BY <1>1, <1>8 DEF Owing, Underway, Typed
<1>. QED
  BY <1>6, <1>7, <1>9, <1>10

LEMMA NextIInv == Timely /\ IInv /\ [Next]_vars => IInv'
<1> SUFFICES ASSUME Timely, IInv, [Next]_vars PROVE IInv'
  OBVIOUS
<1>1. CASE Tick \/ Emit \/ Drop \/ Enable \/ Disable
  BY <1>1, TickStep, EmitStep, DropStep, SwitchStep
<1>2. CASE DispatchStep
  BY <1>2, ReceiveStep, TestStep, StoreForEventStep DEF DispatchStep
<1>3. CASE MonitorStep
  BY <1>3, FindStep, ReconstructStep, GiveUpStep, StoreStep DEF MonitorStep
<1>4. CASE UNCHANGED vars
  BY <1>4 DEF vars, IInv, Typed, Paced, Handling, Fresh, Judging, Once, Owing, Passed, Underway
<1>. QED
  BY <1>1, <1>2, <1>3, <1>4 DEF Next

------------------------------------------------------------------------------
(***************************************************************************)
(* Theorems.                                                               *)
(***************************************************************************)
LEMMA Invariance ==
  ASSUME Timely
  PROVE  Spec => []IInv
<1>1. Init => IInv
  BY InitIInv
<1>2. IInv /\ [Next]_vars => IInv'
  BY NextIInv
<1>. QED
  BY <1>1, <1>2, PTL DEF Spec

\* The schedule is never ahead of the source's next slot.
THEOREM SchedulePaced ==
  ASSUME Timely
  PROVE  Spec => []ScheduleKeepsPace
<1>1. IInv => ScheduleKeepsPace
  BY DEF IInv, Paced, ScheduleKeepsPace
<1>. QED
  BY <1>1, Invariance, PTL

\* No slot is reconstructed twice, nor if its event came.
THEOREM SlotsOnce ==
  ASSUME Timely
  PROVE  Spec => []NoSlotTwice
<1>1. IInv => NoSlotTwice
  BY DEF IInv, Typed, Once, NoSlotTwice
<1>. QED
  BY <1>1, Invariance, PTL

\* Every silent slot that compensation owes is reconstructed by the time the
\* schedule is past it.
THEOREM SilentSlotsMadeUpFor ==
  ASSUME Timely
  PROVE  Spec => []SilentSlotsAreReconstructed
<1>1. IInv => SilentSlotsAreReconstructed
  <2> SUFFICES ASSUME IInv, NEW k \in owed, next_ts > Due(k) PROVE reconstructed[k] > 0
    BY DEF SilentSlotsAreReconstructed
  <2>1. k \in Slots /\ Due(k) \in Nat /\ next_ts \in Nat
    BY Basics DEF IInv, Typed
  <2>2. Passed(k)
    BY <2>1 DEF Passed
  <2>. QED
    BY <2>2 DEF IInv, Owing
<1>. QED
  BY <1>1, Invariance, PTL

\* Type correctness, with the times of the threads: nobody loads or stores a
\* time beyond the source's next slot.
THEOREM CompensationTyped ==
  ASSUME Timely
  PROVE  Spec => []TypeOK
<1>1. ASSUME IInv PROVE TypeOK
  <2> USE <1>1 DEF IInv
  <2>1. /\ MaxTime \div Interval \in Nat /\ Due(MaxTime \div Interval) <= MaxTime
        /\ Due(MaxTime \div Interval) \in Nat
    <3>1. MaxTime \div Interval \in Nat
      BY TimingAssumption
    <3>. QED
      BY <3>1, DueType, SlotsUpTo
  <2>2. /\ slot \in Nat /\ slot <= MaxTime \div Interval + 1 /\ next_ts \in Nat /\ now \in Nat
        /\ Due(slot) \in Nat /\ Due(MaxTime \div Interval + 1) \in Nat
    BY <2>1, Basics, DueType DEF Typed
  <2>3. Due(slot) <= Due(MaxTime \div Interval + 1)
    <3>1. slot < MaxTime \div Interval + 1 \/ slot = MaxTime \div Interval + 1
      BY <2>1, <2>2
    <3>. QED
      BY <2>1, <2>2, <3>1, DueMonotone
  <2>4. Due(slot) <= MaxTime + Interval
    BY <2>1, <2>2, <2>3, DueType, TimingAssumption
  <2>5. next_ts \in Times
    BY <2>2, <2>4, TimingAssumption DEF Times, Paced
  <2>6. \A ts \in travelling : ts \in Times
    <3> SUFFICES ASSUME NEW ts \in travelling PROVE ts \in Times
      OBVIOUS
    <3>1. ts \in Nat /\ ts < Due(slot)
      BY DEF Typed, Handling, Fresh
    <3>. QED
      BY <2>2, <2>4, <3>1, TimingAssumption DEF Times
  <2>7. dispatch.loaded \in Times /\ monitor.loaded \in Times
    <3>1. 0 \in Times
      BY TimingAssumption DEF Times
    <3>. QED
      BY <2>5, <3>1 DEF Typed, Handling, Judging
  <2>8. dispatch \in [at : {"idle", "test", "load", "store"}, ts : Times, loaded : Times]
    <3>1. 0..MaxTime \subseteq Times
      BY TimingAssumption DEF Times
    <3>2. dispatch \in [at : {"idle", "test", "load", "store"}, ts : 0..MaxTime, loaded : Nat]
      BY DEF Typed
    <3>. QED
      BY <2>7, <3>1, <3>2
  <2>9. monitor \in [at : {"idle", "missed", "reconstruct", "load", "store"}, loaded : Times]
    <3>1. monitor \in [at : {"idle", "missed", "reconstruct", "load", "store"}, loaded : Nat]
      BY DEF Typed
    <3>. QED
      BY <2>7, <3>1
  <2>10. /\ slot \in 0..(MaxTime \div Interval + 1) /\ now \in 0..MaxTime
         /\ reconstructed \in [Slots -> Nat]
    BY <2>1, <2>2, TimingAssumption DEF Typed
  <2>. QED
    BY <2>5, <2>6, <2>8, <2>9, <2>10 DEF TypeOK, Typed
<1>. QED
  BY <1>1, Invariance, PTL

=============================================================================
