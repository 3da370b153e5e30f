------------------------ MODULE RunToCompletionProofs ------------------------
(***************************************************************************)
(* Theorems about RunToCompletion: what any number of overlapping calls    *)
(* cannot destroy, and that calls which do not overlap are atomic.         *)
(***************************************************************************)
EXTENDS RunToCompletion, ChartLemmas, TLAPS

------------------------------------------------------------------------------
(***************************************************************************)
(* The invariant of overlapping calls.                                     *)
(***************************************************************************)

\* A thread under way has a call of run_cycle to make, and executes an event
\* it has taken.
Counted == \A t \in Threads :
  /\ pc[t] # "out" => cycles[t] \in 1..2
  /\ pc[t] = "execute" => taken[t] \in InEvents

\* A thread that leaves a leaf has one to enter.
Aiming == \A t \in Threads : pc[t] \in {"leave", "enter"} => target[t] \in Belonging

\* Whoever raised an event, or will have let it stand, has still to clear.
Clearing == raised # {} =>
  \E t \in Threads : pc[t] \in {"dispatch", "leave", "enter", "health", "clear"}

\* Whoever left the region without a leaf has still to enter one.
Entering == bel = Between => \E t \in Threads : pc[t] = "enter"

IInv == TypeOK /\ Counted /\ Aiming /\ Clearing /\ Entering /\ GuardIsFreed

LEMMA InitIInv == Init => IInv
<1> SUFFICES ASSUME Init PROVE IInv
  OBVIOUS
<1>1. TypeOK
  <2>1. /\ pc \in [Threads -> Pcs] /\ cycles \in [Threads -> 0..2]
        /\ taken \in [Threads -> InEvents \cup {None}]
        /\ source \in [Threads -> Belonging \cup {Between}]
        /\ target \in [Threads -> Belonging \cup {Between}]
    BY DEF Init, Pcs
  <2>2. queue \in Seq(InEvents) /\ calls \in 0..MaxCalls
    BY ThreadAssumption DEF Init
  <2>. QED
    BY <2>1, <2>2 DEF Init, TypeOK
<1>2. Counted /\ Aiming /\ Clearing /\ Entering /\ GuardIsFreed
  BY DEF Init, Counted, Aiming, Clearing, Entering, GuardIsFreed, Belonging, Between
<1>. QED
  BY <1>1, <1>2 DEF IInv

\* A step of t, for the others and for the parts of the invariant that ask for
\* a thread at some place.
Moved(t, from, to) ==
  /\ pc[t] = from
  /\ pc' \in [Threads -> Pcs]
  /\ pc'[t] = to
  /\ \A u \in Others(t) : pc'[u] = pc[u]

LEMMA GotoMoves ==
  ASSUME NEW t \in Threads, NEW from, NEW to \in Pcs, pc \in [Threads -> Pcs],
         Goto(t, from, to)
  PROVE  Moved(t, from, to)
BY DEF Goto, Moved, Others

\* The same for the end of a call.
LEMMA FinishMoves ==
  ASSUME NEW t \in Threads, NEW from, from # "out", pc \in [Threads -> Pcs],
         cycles \in [Threads -> 0..2], Counted, Finish(t, from)
  PROVE  /\ Moved(t, from, "check") \/ Moved(t, from, "out")
         /\ cycles' \in [Threads -> 0..2]
         /\ \A u \in Others(t) : cycles'[u] = cycles[u]
         /\ pc'[t] # "out" => cycles'[t] \in 1..2
<1>1. pc[t] = from /\ cycles[t] \in 1..2
  BY DEF Finish, Goto, Counted
<1>2. cycles' = [cycles EXCEPT ![t] = @ - 1]
  BY DEF Finish
<1>3. cycles' \in [Threads -> 0..2] /\ cycles'[t] = cycles[t] - 1
  BY <1>1, <1>2
<1>4. CASE cycles[t] > 1
  <2>1. Moved(t, from, "check")
    BY <1>4, GotoMoves DEF Finish, Pcs
  <2>. QED
    BY <1>1, <1>2, <1>3, <1>4, <2>1 DEF Others
<1>5. CASE ~(cycles[t] > 1)
  <2>1. Moved(t, from, "out")
    BY <1>5, GotoMoves DEF Finish, Pcs
  <2>. QED
    BY <1>1, <1>2, <1>3, <2>1 DEF Others, Moved
<1>. QED
  BY <1>4, <1>5

\* What the steps disturb: Counted and Aiming are kept for the threads whose
\* fields are untouched.
LEMMA PartsKept ==
  ASSUME IInv, NEW t \in Threads, NEW from, NEW to, Moved(t, from, to),
         \A u \in Others(t) : cycles'[u] = cycles[u] /\ taken'[u] = taken[u]
                              /\ target'[u] = target[u],
         to # "out" => cycles'[t] \in 1..2,
         to = "execute" => taken'[t] \in InEvents,
         to \in {"leave", "enter"} => target'[t] \in Belonging
  PROVE  Counted' /\ Aiming'
BY DEF IInv, Counted, Aiming, Moved, Others

\* A call begins.
LEMMA PutStep ==
  ASSUME IInv, NEW t \in Threads, NEW e \in Offered[t], Put(t, e)
  PROVE  IInv'
<1> USE DEF IInv
<1>1. e \in InEvents
  BY ThreadAssumption
<1>2. Moved(t, "out", "check")
  BY GotoMoves DEF Put, TypeOK, Pcs
<1>3. /\ cycles' = [cycles EXCEPT ![t] = IF t \in Callers THEN 2 ELSE 1]
      /\ queue' = Append(queue, e) /\ calls < MaxCalls /\ calls' = calls + 1
      /\ UNCHANGED <<bel, health, position, raised, executing, taken, source, target>>
  BY DEF Put
<1>4. /\ cycles' \in [Threads -> 0..2] /\ cycles'[t] \in 1..2
      /\ \A u \in Others(t) : cycles'[u] = cycles[u]
  BY <1>3 DEF TypeOK, Others
<1>5. queue' \in Seq(InEvents) /\ calls' \in 0..MaxCalls
  BY <1>1, <1>3, ThreadAssumption DEF TypeOK
<1>6. TypeOK'
  BY <1>2, <1>3, <1>4, <1>5 DEF TypeOK, Moved
<1>7. Counted' /\ Aiming'
  BY <1>2, <1>3, <1>4, PartsKept
<1>8. Clearing' /\ Entering' /\ GuardIsFreed'
  BY <1>2, <1>3 DEF Clearing, Entering, GuardIsFreed, InCycle, Moved, Others
<1>. QED
  BY <1>6, <1>7, <1>8

\* The flag is tested and set.
LEMMA TurnStep ==
  ASSUME IInv, NEW t \in Threads, Turn(t)
  PROVE  IInv'
<1> USE DEF IInv
<1>1. /\ Moved(t, "check", "check") \/ Moved(t, "check", "out")
      /\ cycles' \in [Threads -> 0..2]
      /\ \A u \in Others(t) : cycles'[u] = cycles[u]
      /\ pc'[t] # "out" => cycles'[t] \in 1..2
  BY FinishMoves DEF Turn, TypeOK
<1>2. UNCHANGED <<bel, health, position, queue, raised, executing, taken, source,
                  target, calls>>
  BY DEF Turn
<1>3. TypeOK'
  BY <1>1, <1>2 DEF TypeOK, Moved
<1>4. Counted' /\ Aiming'
  BY <1>1, <1>2, PartsKept DEF Moved
<1>5. Clearing' /\ Entering' /\ GuardIsFreed'
  BY <1>1, <1>2 DEF Clearing, Entering, GuardIsFreed, InCycle, Moved, Others
<1>. QED
  BY <1>3, <1>4, <1>5

LEMMA ClaimSteps ==
  ASSUME IInv, NEW t \in Threads, Proceed(t) \/ Claim(t)
  PROVE  IInv'
<1> USE DEF IInv
<1>1. \/ Moved(t, "check", "claim") /\ executing' = executing
      \/ Moved(t, "claim", "first") /\ executing' = TRUE
  BY GotoMoves DEF Proceed, Claim, TypeOK, Pcs
<1>2. UNCHANGED <<bel, health, position, queue, raised, cycles, taken, source,
                  target, calls>>
  BY DEF Proceed, Claim
<1>3. pc[t] # "out"
  BY <1>1 DEF Moved
<1>4. TypeOK'
  BY <1>1, <1>2 DEF TypeOK, Moved
<1>5. Counted' /\ Aiming'
  BY <1>1, <1>2, <1>3, PartsKept DEF Counted
<1>6. Clearing' /\ Entering' /\ GuardIsFreed'
  BY <1>1, <1>2 DEF Clearing, Entering, GuardIsFreed, InCycle, Moved, Others
<1>. QED
  BY <1>4, <1>5, <1>6

\* An event is looked for, taken and executed.
LEMMA PeekStep ==
  ASSUME IInv, NEW t \in Threads, NEW from, NEW otherwise,
         \/ from = "first" /\ otherwise = "dispatch"
         \/ from = "next" /\ otherwise = "release",
         Peek(t, from, otherwise)
  PROVE  IInv'
<1> USE DEF IInv
<1>1. PICK to \in {"get", otherwise} : Goto(t, from, to)
  BY DEF Peek
<1>2. Moved(t, from, to)
  BY <1>1, GotoMoves DEF TypeOK, Pcs
<1>3. /\ taken' = [taken EXCEPT ![t] = None]
      /\ UNCHANGED <<bel, health, position, queue, raised, executing, cycles, source,
                     target, calls>>
  BY DEF Peek
<1>4. /\ taken' \in [Threads -> InEvents \cup {None}]
      /\ \A u \in Others(t) : taken'[u] = taken[u]
  BY <1>3 DEF TypeOK, Others
<1>5. TypeOK'
  BY <1>2, <1>3, <1>4 DEF TypeOK, Moved
<1>6. cycles[t] \in 1..2 /\ to \notin {"execute", "leave", "enter"}
  BY <1>1, <1>2 DEF Counted, Moved
<1>7. Counted' /\ Aiming'
  BY <1>2, <1>3, <1>4, <1>6, PartsKept
<1>8. Clearing' /\ Entering' /\ GuardIsFreed'
  BY <1>1, <1>2, <1>3 DEF Clearing, Entering, GuardIsFreed, InCycle, Moved, Others
<1>. QED
  BY <1>5, <1>7, <1>8

LEMMA GetStep ==
  ASSUME IInv, NEW t \in Threads, Get(t)
  PROVE  IInv'
<1> USE DEF IInv
<1>1. Moved(t, "get", "execute")
  BY GotoMoves DEF Get, TypeOK, Pcs
<1>2. /\ queue # <<>> /\ queue' = Tail(queue)
      /\ taken' = [taken EXCEPT ![t] = Head(queue)]
      /\ UNCHANGED <<bel, health, position, raised, executing, cycles, source, target,
                     calls>>
  BY DEF Get
<1>3. queue \in Seq(InEvents)
  BY DEF TypeOK
<1>4. Head(queue) \in InEvents /\ queue' \in Seq(InEvents)
  BY <1>2, <1>3
<1>5. /\ taken' \in [Threads -> InEvents \cup {None}] /\ taken'[t] \in InEvents
      /\ \A u \in Others(t) : taken'[u] = taken[u]
  BY <1>2, <1>4 DEF TypeOK, Others
<1>6. TypeOK'
  BY <1>1, <1>2, <1>4, <1>5 DEF TypeOK, Moved
<1>7. Counted' /\ Aiming'
  <2>1. cycles[t] \in 1..2
    BY <1>1 DEF Counted, Moved
  <2>. QED
    BY <1>1, <1>2, <1>5, <2>1, PartsKept
<1>8. Clearing' /\ Entering' /\ GuardIsFreed'
  BY <1>1, <1>2 DEF Clearing, Entering, GuardIsFreed, InCycle, Moved, Others
<1>. QED
  BY <1>6, <1>7, <1>8

LEMMA ExecuteStep ==
  ASSUME IInv, NEW t \in Threads, Execute(t)
  PROVE  IInv'
<1> USE DEF IInv
<1>1. Moved(t, "execute", "dispatch")
  BY GotoMoves DEF Execute, TypeOK, Pcs
<1>2. /\ raised' = raised \cup {taken[t]}
      /\ UNCHANGED <<bel, health, position, queue, executing, cycles, taken, source,
                     target, calls>>
  BY DEF Execute
<1>3. taken[t] \in InEvents /\ cycles[t] \in 1..2
  BY <1>1 DEF Counted, Moved
<1>4. TypeOK'
  BY <1>1, <1>2, <1>3 DEF TypeOK, Moved
<1>5. Counted' /\ Aiming'
  BY <1>1, <1>2, <1>3, PartsKept
<1>6. Clearing' /\ Entering' /\ GuardIsFreed'
  BY <1>1, <1>2 DEF Clearing, Entering, GuardIsFreed, InCycle, Moved, Others
<1>. QED
  BY <1>4, <1>5, <1>6

\* The micro step.
LEMMA DispatchStep ==
  ASSUME IInv, NEW t \in Threads, Dispatch(t)
  PROVE  IInv'
<1> USE DEF IInv
<1> DEFINE to == IF bel = Between THEN Between ELSE React(bel, health, raised)
<1>1. PICK next \in {"health", "leave"} :
        Goto(t, "dispatch", next) /\ (next = "leave" => to # bel)
  BY DEF Dispatch
<1>2. Moved(t, "dispatch", next)
  BY <1>1, GotoMoves DEF TypeOK, Pcs
<1>3. /\ source' = [source EXCEPT ![t] = bel] /\ target' = [target EXCEPT ![t] = to]
      /\ position' = 0
      /\ UNCHANGED <<bel, health, queue, raised, executing, cycles, taken, calls>>
  BY DEF Dispatch
<1>4. /\ to \in Belonging \cup {Between}
      /\ to # bel => to \in Belonging
  BY ReactType DEF TypeOK
<1> HIDE DEF to
<1>5. /\ source' \in [Threads -> Belonging \cup {Between}]
      /\ target' \in [Threads -> Belonging \cup {Between}]
      /\ target'[t] = to
      /\ \A u \in Others(t) : target'[u] = target[u]
  BY <1>3, <1>4 DEF TypeOK, Others
<1>6. TypeOK'
  BY <1>2, <1>3, <1>5 DEF TypeOK, Moved
<1>7. Counted' /\ Aiming'
  <2>1. cycles[t] \in 1..2
    BY <1>2 DEF Counted, Moved
  <2>2. next = "leave" => target'[t] \in Belonging
    BY <1>1, <1>4, <1>5
  <2>. QED
    BY <1>2, <1>3, <1>5, <2>1, <2>2, PartsKept
<1>8. Clearing' /\ Entering' /\ GuardIsFreed'
  BY <1>1, <1>2, <1>3 DEF Clearing, Entering, GuardIsFreed, InCycle, Moved, Others
<1>. QED
  BY <1>6, <1>7, <1>8

LEMMA LeaveStep ==
  ASSUME IInv, NEW t \in Threads, Leave(t)
  PROVE  IInv'
<1> USE DEF IInv
<1>1. Moved(t, "leave", "enter")
  BY GotoMoves DEF Leave, TypeOK, Pcs
<1>2. /\ bel' = Between /\ raised' \subseteq raised /\ position' = 0
      /\ UNCHANGED <<health, queue, executing, cycles, taken, source, target, calls>>
  BY DEF Leave
<1>3. TypeOK'
  BY <1>1, <1>2 DEF TypeOK, Moved
<1>4. Counted' /\ Aiming'
  <2>1. cycles[t] \in 1..2 /\ target[t] \in Belonging
    BY <1>1 DEF Counted, Aiming, Moved
  <2>. QED
    BY <1>1, <1>2, <2>1, PartsKept
<1>5. Clearing' /\ Entering' /\ GuardIsFreed'
  BY <1>1, <1>2 DEF Clearing, Entering, GuardIsFreed, InCycle, Moved, Others
<1>. QED
  BY <1>3, <1>4, <1>5

LEMMA EnterStep ==
  ASSUME IInv, NEW t \in Threads, Enter(t)
  PROVE  IInv'
<1> USE DEF IInv
<1>1. Moved(t, "enter", "health")
  BY GotoMoves DEF Enter, TypeOK, Pcs
<1>2. /\ bel' = target[t] /\ position' = 0
      /\ UNCHANGED <<health, queue, raised, executing, cycles, taken, source, target,
                     calls>>
  BY DEF Enter
<1>3. cycles[t] \in 1..2 /\ target[t] \in Belonging /\ Between \notin Belonging
  BY <1>1 DEF Counted, Aiming, Moved, Between, Belonging
<1>4. TypeOK'
  BY <1>1, <1>2, <1>3 DEF TypeOK, Moved
<1>5. Counted' /\ Aiming'
  BY <1>1, <1>2, <1>3, PartsKept
<1>6. Clearing' /\ Entering' /\ GuardIsFreed'
  BY <1>1, <1>2, <1>3 DEF Clearing, Entering, GuardIsFreed, InCycle, Moved, Others
<1>. QED
  BY <1>4, <1>5, <1>6

LEMMA HealthStep ==
  ASSUME IInv, NEW t \in Threads, ReactHealth(t)
  PROVE  IInv'
<1> USE DEF IInv
<1>1. Moved(t, "health", "clear")
  BY GotoMoves DEF ReactHealth, TypeOK, Pcs
<1>2. /\ health' \in {health, HealthReact(health, raised)} /\ position' \in {position, 1}
      /\ UNCHANGED <<bel, queue, raised, executing, cycles, taken, source, target, calls>>
  BY DEF ReactHealth
<1>3. health' \in HealthStates
  BY <1>2, HealthReactType DEF TypeOK
<1>4. TypeOK'
  BY <1>1, <1>2, <1>3 DEF TypeOK, Moved
<1>5. Counted' /\ Aiming'
  <2>1. cycles[t] \in 1..2
    BY <1>1 DEF Counted, Moved
  <2>. QED
    BY <1>1, <1>2, <2>1, PartsKept
<1>6. Clearing' /\ Entering' /\ GuardIsFreed'
  BY <1>1, <1>2 DEF Clearing, Entering, GuardIsFreed, InCycle, Moved, Others
<1>. QED
  BY <1>4, <1>5, <1>6

\* The end of a cycle.
LEMMA ClearStep ==
  ASSUME IInv, NEW t \in Threads, Clear(t)
  PROVE  IInv'
<1> USE DEF IInv
<1>1. Moved(t, "clear", "next")
  BY GotoMoves DEF Clear, TypeOK, Pcs
<1>2. /\ raised' = {}
      /\ UNCHANGED <<bel, health, position, queue, executing, cycles, taken, source,
                     target, calls>>
  BY DEF Clear
<1>3. TypeOK'
  BY <1>1, <1>2 DEF TypeOK, Moved
<1>4. Counted' /\ Aiming'
  <2>1. cycles[t] \in 1..2
    BY <1>1 DEF Counted, Moved
  <2>. QED
    BY <1>1, <1>2, <2>1, PartsKept
<1>5. Clearing' /\ Entering' /\ GuardIsFreed'
  BY <1>1, <1>2 DEF Clearing, Entering, GuardIsFreed, InCycle, Moved, Others
<1>. QED
  BY <1>3, <1>4, <1>5

LEMMA ReleaseStep ==
  ASSUME IInv, NEW t \in Threads, Release(t)
  PROVE  IInv'
<1> USE DEF IInv
<1>1. /\ Moved(t, "release", "check") \/ Moved(t, "release", "out")
      /\ cycles' \in [Threads -> 0..2]
      /\ \A u \in Others(t) : cycles'[u] = cycles[u]
      /\ pc'[t] # "out" => cycles'[t] \in 1..2
  BY FinishMoves DEF Release, TypeOK
<1>2. /\ executing' = FALSE
      /\ UNCHANGED <<bel, health, position, queue, raised, taken, source, target, calls>>
  BY DEF Release
<1>3. TypeOK'
  BY <1>1, <1>2 DEF TypeOK, Moved
<1>4. Counted' /\ Aiming'
  BY <1>1, <1>2, PartsKept DEF Moved
<1>5. Clearing' /\ Entering' /\ GuardIsFreed'
  BY <1>1, <1>2 DEF Clearing, Entering, GuardIsFreed, Moved, Others
<1>. QED
  BY <1>3, <1>4, <1>5

LEMMA StepIInv == IInv /\ [Next]_vars => IInv'
<1> SUFFICES ASSUME IInv, [Next]_vars PROVE IInv'
  OBVIOUS
<1>1. ASSUME NEW t \in Threads, NEW e \in Offered[t], Put(t, e) PROVE IInv'
  BY <1>1, PutStep
<1>2. ASSUME NEW t \in Threads, Advance(t) PROVE IInv'
  BY <1>2, TurnStep, ClaimSteps, PeekStep, GetStep, ExecuteStep, DispatchStep, LeaveStep,
     EnterStep, HealthStep, ClearStep, ReleaseStep DEF Advance
<1>3. CASE UNCHANGED vars
  BY <1>3 DEF vars, thread, IInv, TypeOK, Counted, Aiming, Clearing, Entering,
              GuardIsFreed, InCycle
<1>. QED
  BY <1>1, <1>2, <1>3 DEF Next

LEMMA Invariance == Spec => []IInv
BY InitIInv, StepIInv, PTL DEF Spec

\* Whatever threads overlap, every part of the chart and of the threads keeps
\* its type: a thread that calls run_cycle never leaves its two calls.
THEOREM ThreadsTyped == Spec => []TypeOK
<1>1. IInv => TypeOK
  BY DEF IInv
<1>. QED
  BY <1>1, Invariance, PTL

\* __is_executing is only set while some thread is inside run_cycle: for any
\* number of threads, no order of their unlocked tests and assignments locks the
\* chart out for good.
THEOREM GuardFreed == Spec => []GuardIsFreed
<1>1. IInv => GuardIsFreed
  BY DEF IInv
<1>. QED
  BY <1>1, Invariance, PTL

\* When all calls have returned no in-event is left raised.
THEOREM NoneStaysRaised == Spec => []NothingStaysRaised
<1>1. IInv => NothingStaysRaised
  BY DEF IInv, Clearing, NothingStaysRaised, Quiet
<1>. QED
  BY <1>1, Invariance, PTL

\* When all calls have returned the Belonging region is in a leaf.
THEOREM LeafKept == Spec => []RegionKeepsALeaf
<1>1. IInv => RegionKeepsALeaf
  BY DEF IInv, Entering, RegionKeepsALeaf, Quiet, TypeOK
<1>. QED
  BY <1>1, Invariance, PTL

------------------------------------------------------------------------------
(***************************************************************************)
(* Calls that do not overlap implement AtomicCycle.                        *)
(***************************************************************************)

\* The event a thread's micro step reacts to, if any.
EventOf(t) == IF taken[t] = None THEN {} ELSE {taken[t]}

\* At most one call is under way.
Alone == \A t, u \in Threads : pc[t] # "out" /\ pc[u] # "out" => t = u

Only(t) == \A u \in Others(t) : pc[u] = "out"

\* The reaction chosen at dispatch, and what is left of the event for the
\* Health region: the exit sequence resets time events only.
Chosen(t) ==
  /\ source[t] \in Belonging
  /\ target[t] = React(source[t], health, EventOf(t))
  /\ HealthReact(health, raised) = HealthReact(health, EventOf(t))

Untouched == bel \in Belonging /\ raised = {}

\* What holds of the chart while t is the only thread that may be under way.
Situation(t) ==
  /\ pc[t] \notin {"dispatch", "leave", "enter", "health", "clear"} => Untouched
  /\ pc[t] = "dispatch" => bel \in Belonging /\ raised = EventOf(t)
  /\ pc[t] = "leave"    => bel \in Belonging /\ raised = EventOf(t) /\ Chosen(t)
  /\ pc[t] = "enter"    => Chosen(t)
  /\ pc[t] = "health"   => Chosen(t) /\ bel = target[t] /\ position = 0
  /\ pc[t] = "clear"    => bel \in Belonging

Staged == \A t \in Threads : Only(t) => Situation(t)

SerialInv == IInv /\ Alone /\ Staged

LEMMA SerialInit == Init => SerialInv
<1> SUFFICES ASSUME Init PROVE SerialInv
  OBVIOUS
<1>1. Alone
  BY DEF Init, Alone
<1>2. Staged
  BY DEF Init, Staged, Situation, Untouched
<1>. QED
  BY <1>1, <1>2, InitIInv DEF SerialInv

\* While one thread is under way its situation is all there is to keep.
LEMMA SerialKept ==
  ASSUME SerialInv, IInv', NEW t \in Threads, Only(t), NEW from, NEW to,
         Moved(t, from, to), Situation(t)'
  PROVE  SerialInv' /\ Only(t)'
<1>1. Only(t)'
  BY DEF Only, Moved
<1>2. Alone'
  BY <1>1 DEF Alone, Only, Others
<1>3. ASSUME NEW u \in Threads, Only(u)' PROVE Situation(u)'
  <2>1. CASE u = t
    BY <2>1
  <2>2. CASE u # t
    <3>1. pc'[t] = "out" /\ pc'[u] = "out"
      BY <1>1, <1>3, <2>2 DEF Only, Others
    <3>. QED
      BY <3>1 DEF Situation
  <2>. QED
    BY <2>1, <2>2
<1>. QED
  BY <1>1, <1>2, <1>3 DEF SerialInv, Staged

\* What the refinement mapping says while t is the only thread under way.
LeafAt(t) == IF pc[t] \in {"leave", "enter", "health"} THEN source[t] ELSE bel

WaitingAt(t) ==
  IF pc[t] \in {"execute", "dispatch", "leave", "enter", "health"} /\ taken[t] # None
  THEN <<taken[t]>> \o queue ELSE queue

LEMMA OneMember ==
  ASSUME NEW t
  PROVE  (CHOOSE u \in {t} : TRUE) = t
OBVIOUS

LEMMA MapNow ==
  ASSUME NEW t \in Threads, Only(t)
  PROVE  CurrentLeaf = LeafAt(t) /\ Waiting = WaitingAt(t)
<1>1. InTransit = IF pc[t] \in {"leave", "enter", "health"} THEN {t} ELSE {}
  BY DEF Only, InTransit, Others
<1>2. Uncommitted = IF pc[t] \in {"execute", "dispatch", "leave", "enter", "health"}
                    THEN {t} ELSE {}
  BY DEF Only, Uncommitted, Others
<1>. QED
  BY <1>1, <1>2, OneMember DEF CurrentLeaf, Waiting, LeafAt, WaitingAt

LEMMA MapNext ==
  ASSUME NEW t \in Threads, Only(t)'
  PROVE  CurrentLeaf' = LeafAt(t)' /\ Waiting' = WaitingAt(t)'
<1>1. InTransit' = IF pc'[t] \in {"leave", "enter", "health"} THEN {t} ELSE {}
  BY DEF Only, InTransit, Others
<1>2. Uncommitted' = IF pc'[t] \in {"execute", "dispatch", "leave", "enter", "health"}
                     THEN {t} ELSE {}
  BY DEF Only, Uncommitted, Others
<1>. QED
  BY <1>1, <1>2, OneMember DEF CurrentLeaf, Waiting, LeafAt, WaitingAt

\* AtomicCycle is about the same chart.
LEMMA SameChart ==
  /\ \A b, h, E : Atomic!React(b, h, E) = React(b, h, E)
  /\ \A h, E : Atomic!HealthReact(h, E) = HealthReact(h, E)
  /\ Atomic!Belonging = Belonging /\ Atomic!HealthStates = HealthStates
  /\ Atomic!InEvents = InEvents
<1>1. \A h, E : Atomic!HealthReact(h, E) = HealthReact(h, E)
  BY DEF Atomic!HealthReact, HealthReact, Atomic!Worse, Worse, Atomic!Better, Better
<1>2. /\ Atomic!Belonging = Belonging /\ Atomic!HealthStates = HealthStates
      /\ Atomic!InEvents = InEvents
  BY DEF Atomic!Belonging, Belonging, Atomic!HealthStates, HealthStates, Atomic!InEvents,
         InEvents, Atomic!BelongingEvents, BelongingEvents, Atomic!HealthEvents,
         HealthEvents, Atomic!TimeEvents, TimeEvents
<1>3. \A b, h, E : Atomic!React(b, h, E) = React(b, h, E)
  <2> USE DEF Atomic!Role, Role, Atomic!ActiveReact, ActiveReact, Atomic!PassiveReact,
              PassiveReact, Atomic!ParticipatingReact, ParticipatingReact
  <2>1. /\ \A h, E : Atomic!DisengagedReact(h, E) = DisengagedReact(h, E)
        /\ \A h, E : Atomic!PreparedReact(h, E) = PreparedReact(h, E)
        /\ \A h, E : Atomic!NegotiatingReact(h, E) = NegotiatingReact(h, E)
        /\ \A h, E : Atomic!AvailableReact(h, E) = AvailableReact(h, E)
    BY DEF Atomic!DisengagedReact, DisengagedReact, Atomic!PreparedReact, PreparedReact,
           Atomic!NegotiatingReact, NegotiatingReact, Atomic!AvailableReact, AvailableReact
  <2>2. /\ \A h, E : Atomic!PendingEntryReact(h, E) = PendingEntryReact(h, E)
        /\ \A h, E : Atomic!FullRoleReact(h, E) = FullRoleReact(h, E)
        /\ \A h, E : Atomic!RestrictedRoleReact(h, E) = RestrictedRoleReact(h, E)
        /\ \A h, E : Atomic!PendingExitReact(h, E) = PendingExitReact(h, E)
    BY DEF Atomic!PendingEntryReact, PendingEntryReact, Atomic!FullRoleReact, FullRoleReact,
           Atomic!RestrictedRoleReact, RestrictedRoleReact, Atomic!PendingExitReact,
           PendingExitReact
  <2>. QED
    BY <2>1, <2>2 DEF Atomic!React, React
<1>. QED
  BY <1>1, <1>2, <1>3

\* The exit sequence takes no health event away.
LEMMA HealthUnmoved ==
  ASSUME NEW h, NEW E, NEW D, D \subseteq TimeEvents
  PROVE  HealthReact(h, E \ D) = HealthReact(h, E)
<1>1. "full_recovery" \notin D /\ "degrade" \notin D /\ "improve" \notin D
  BY DEF TimeEvents
<1>. QED
  BY <1>1 DEF HealthReact

LEMMA FirstAndRest ==
  ASSUME NEW S, NEW e \in S, NEW q \in Seq(S)
  PROVE  /\ <<e>> \o q # <<>> /\ Head(<<e>> \o q) = e /\ Tail(<<e>> \o q) = q
         /\ q # <<>> => <<Head(q)>> \o Tail(q) = q
OBVIOUS

------------------------------------------------------------------------------
\* A step that changes nothing AtomicCycle sees.
Unseen(t) == LeafAt(t)' = LeafAt(t) /\ WaitingAt(t)' = WaitingAt(t) /\ health' = health

Abstract == <<CurrentLeaf, health, Waiting>>

\* What a step of the one thread under way does to the chart: unseen, or the
\* micro step that ends it.
Micro(t) ==
  /\ LeafAt(t)' = React(LeafAt(t), health, EventOf(t))
  /\ health' = HealthReact(health, EventOf(t))
  /\ EventOf(t) = {} => WaitingAt(t)' = WaitingAt(t)
  /\ EventOf(t) # {} => /\ WaitingAt(t) # <<>>
                        /\ EventOf(t) = {Head(WaitingAt(t))}
                        /\ WaitingAt(t)' = Tail(WaitingAt(t))

LEMMA SerialPut ==
  ASSUME SerialInv, IInv', NEW t \in Threads, NEW e \in Offered[t], Put(t, e), ~Overlap
  PROVE  SerialInv' /\ Atomic!Put(e)
<1>1. Only(t) /\ pc[t] = "out"
  BY DEF Put, Goto, Only
<1>2. Situation(t)
  BY <1>1 DEF SerialInv, Staged
<1>3. Moved(t, "out", "check")
  BY GotoMoves DEF Put, SerialInv, IInv, TypeOK, Pcs
<1>4. UNCHANGED <<bel, health, raised>> /\ queue' = Append(queue, e)
  BY DEF Put
<1>5. Situation(t)'
  BY <1>1, <1>2, <1>3, <1>4 DEF Situation, Untouched, Moved
<1>6. SerialInv' /\ Only(t)'
  BY <1>1, <1>3, <1>5, SerialKept
<1>7. LeafAt(t)' = LeafAt(t) /\ WaitingAt(t)' = Append(WaitingAt(t), e)
  BY <1>1, <1>3, <1>4 DEF LeafAt, WaitingAt, Moved
<1>8. CurrentLeaf' = CurrentLeaf /\ Waiting' = Append(Waiting, e)
  BY <1>1, <1>6, <1>7, MapNow, MapNext
<1>. QED
  BY <1>4, <1>6, <1>8 DEF Atomic!Put

\* The steps before and after a micro step.
LEMMA SerialAround ==
  ASSUME SerialInv, IInv', NEW t \in Threads, Only(t), Situation(t),
         \/ Turn(t) \/ Proceed(t) \/ Claim(t)
         \/ Clear(t) \/ Release(t)
  PROVE  SerialInv' /\ Only(t)' /\ Unseen(t)
<1>1. PICK from \in {"check", "claim", "clear", "release"},
           to \in {"check", "out", "claim", "first", "next"} : Moved(t, from, to)
  BY GotoMoves, FinishMoves
  DEF Turn, Proceed, Claim, Clear, Release, SerialInv, IInv, TypeOK, Pcs
<1>2. /\ UNCHANGED <<bel, health, queue, taken, source>>
      /\ raised' = IF from = "clear" THEN {} ELSE raised
  BY <1>1 DEF Turn, Proceed, Claim, Clear, Release, Goto, Finish, Moved
<1>3. Situation(t)'
  BY <1>1, <1>2 DEF Situation, Untouched, Moved
<1>4. Unseen(t)
  BY <1>1, <1>2 DEF Unseen, LeafAt, WaitingAt, Moved
<1>. QED
  BY <1>1, <1>3, <1>4, SerialKept

LEMMA SerialFetch ==
  ASSUME SerialInv, IInv', NEW t \in Threads, Only(t), Situation(t),
         \/ Peek(t, "first", "dispatch") \/ Peek(t, "next", "release")
         \/ Get(t) \/ Execute(t)
  PROVE  SerialInv' /\ Only(t)' /\ Unseen(t)
<1>0. TypeOK /\ None \notin InEvents
  BY DEF SerialInv, IInv, None, InEvents, BelongingEvents, HealthEvents, TimeEvents
<1>1. ASSUME NEW from \in {"first", "next"}, NEW otherwise \in {"dispatch", "release"},
             Peek(t, from, otherwise)
      PROVE  SerialInv' /\ Only(t)' /\ Unseen(t)
  <2>1. PICK to \in {"get", otherwise} : Goto(t, from, to)
    BY <1>1 DEF Peek
  <2>2. Moved(t, from, to)
    BY <1>0, <2>1, GotoMoves DEF TypeOK, Pcs
  <2>3. /\ taken'[t] = None
        /\ UNCHANGED <<bel, health, queue, raised, source>>
    BY <1>0, <1>1 DEF Peek, TypeOK
  <2>4. Situation(t)'
    BY <2>2, <2>3 DEF Situation, Untouched, Moved, EventOf
  <2>5. Unseen(t)
    BY <2>2, <2>3 DEF Unseen, LeafAt, WaitingAt, Moved
  <2>. QED
    BY <2>2, <2>4, <2>5, SerialKept
<1>2. CASE Get(t)
  <2>1. Moved(t, "get", "execute")
    BY <1>0, <1>2, GotoMoves DEF Get, TypeOK, Pcs
  <2>2. /\ taken'[t] = Head(queue) /\ queue # <<>> /\ queue' = Tail(queue)
        /\ UNCHANGED <<bel, health, raised, source>>
    BY <1>0, <1>2 DEF Get, TypeOK
  <2>3. Head(queue) \in InEvents /\ <<Head(queue)>> \o Tail(queue) = queue
    <3>1. queue \in Seq(InEvents)
      BY <1>0 DEF TypeOK
    <3>2. Head(queue) \in InEvents
      BY <2>2, <3>1
    <3>. QED
      BY <2>2, <3>1, <3>2, FirstAndRest
  <2>4. Situation(t)'
    BY <2>1, <2>2 DEF Situation, Untouched, Moved
  <2>5. Unseen(t)
    BY <1>0, <2>1, <2>2, <2>3 DEF Unseen, LeafAt, WaitingAt, Moved
  <2>. QED
    BY <2>1, <2>4, <2>5, SerialKept
<1>3. CASE Execute(t)
  <2>1. Moved(t, "execute", "dispatch")
    BY <1>0, <1>3, GotoMoves DEF Execute, TypeOK, Pcs
  <2>2. taken[t] # None
    BY <1>0, <2>1 DEF SerialInv, IInv, Counted, Moved
  <2>3. /\ raised' = raised \cup {taken[t]}
        /\ UNCHANGED <<bel, health, queue, taken, source>>
    BY <1>3 DEF Execute
  <2>4. Situation(t)'
    BY <2>1, <2>2, <2>3 DEF Situation, Untouched, Moved, EventOf
  <2>5. Unseen(t)
    BY <2>1, <2>3 DEF Unseen, LeafAt, WaitingAt, Moved
  <2>. QED
    BY <2>1, <2>4, <2>5, SerialKept
<1>. QED
  BY <1>1, <1>2, <1>3

LEMMA SerialDispatch ==
  ASSUME SerialInv, IInv', NEW t \in Threads, Only(t), Situation(t), Dispatch(t)
  PROVE  SerialInv' /\ Only(t)' /\ Unseen(t)
<1>0. TypeOK
  BY DEF SerialInv, IInv
<1> DEFINE to == IF bel = Between THEN Between ELSE React(bel, health, raised)
<1>1. Goto(t, "dispatch", IF to = bel THEN "health" ELSE "leave")
  BY DEF Dispatch
<1>2. bel \in Belonging /\ raised = EventOf(t) /\ bel # Between
  BY <1>1 DEF Situation, Goto, Belonging, Between
<1>3. to = React(bel, health, EventOf(t))
  BY <1>2
<1>4. /\ source'[t] = bel /\ target'[t] = to /\ position' = 0
      /\ UNCHANGED <<bel, health, queue, raised, taken>>
  BY <1>0 DEF Dispatch, TypeOK
<1> HIDE DEF to
<1>5. PICK next \in {"health", "leave"} :
        Moved(t, "dispatch", next) /\ (next = "health" => to = bel)
  BY <1>0, <1>1, GotoMoves DEF TypeOK, Pcs
<1>6. Chosen(t)'
  BY <1>2, <1>3, <1>4 DEF Chosen, EventOf
<1>7. Situation(t)'
  BY <1>2, <1>4, <1>5, <1>6 DEF Situation, Moved, EventOf
<1>8. Unseen(t)
  BY <1>4, <1>5 DEF Unseen, LeafAt, WaitingAt, Moved
<1>. QED
  BY <1>5, <1>7, <1>8, SerialKept

LEMMA SerialCross ==
  ASSUME SerialInv, IInv', NEW t \in Threads, Only(t), Situation(t), Leave(t) \/ Enter(t)
  PROVE  SerialInv' /\ Only(t)' /\ Unseen(t)
<1>1. CASE Leave(t)
  <2>1. Moved(t, "leave", "enter")
    BY <1>1, GotoMoves DEF Leave, SerialInv, IInv, TypeOK, Pcs
  <2>2. UNCHANGED <<health, queue, taken, source, target>>
    BY <1>1 DEF Leave
  <2>3. PICK D \in SUBSET TimeEvents : raised' = raised \ D
    BY <1>1 DEF Leave, TimeEvents
  <2>4. Chosen(t)'
    <3>1. HealthReact(health, raised') = HealthReact(health, raised)
      BY <2>3, HealthUnmoved
    <3>. QED
      BY <2>1, <2>2, <3>1 DEF Situation, Chosen, EventOf, Moved
  <2>5. Situation(t)'
    BY <2>1, <2>4 DEF Situation, Moved
  <2>6. Unseen(t)
    BY <2>1, <2>2 DEF Unseen, LeafAt, WaitingAt, Moved
  <2>. QED
    BY <2>1, <2>5, <2>6, SerialKept
<1>2. CASE Enter(t)
  <2>1. Moved(t, "enter", "health")
    BY <1>2, GotoMoves DEF Enter, SerialInv, IInv, TypeOK, Pcs
  <2>2. /\ bel' = target[t] /\ position' = 0
        /\ UNCHANGED <<health, queue, raised, taken, source, target>>
    BY <1>2 DEF Enter
  <2>3. Situation(t)'
    BY <2>1, <2>2 DEF Situation, Chosen, EventOf, Moved
  <2>4. Unseen(t)
    BY <2>1, <2>2 DEF Unseen, LeafAt, WaitingAt, Moved
  <2>. QED
    BY <2>1, <2>3, <2>4, SerialKept
<1>. QED
  BY <1>1, <1>2

\* The Health region has reacted: now the micro step is visible as a whole.
LEMMA SerialCommit ==
  ASSUME SerialInv, IInv', NEW t \in Threads, Only(t), Situation(t), ReactHealth(t)
  PROVE  SerialInv' /\ Only(t)' /\ Micro(t)
<1>1. TypeOK
  BY DEF SerialInv, IInv
<1>2. Moved(t, "health", "clear")
  BY <1>1, GotoMoves DEF ReactHealth, TypeOK, Pcs
<1>3. Chosen(t) /\ bel = target[t] /\ position = 0
  BY <1>2 DEF Situation, Moved
<1>4. /\ health' = HealthReact(health, EventOf(t))
      /\ UNCHANGED <<bel, queue, taken, source>>
  BY <1>3 DEF ReactHealth, Chosen
<1>5. bel \in Belonging
  BY <1>1, <1>3, ReactType DEF Chosen, TypeOK
<1>6. Situation(t)'
  BY <1>2, <1>4, <1>5 DEF Situation, Moved
<1>7. LeafAt(t) = source[t] /\ LeafAt(t)' = target[t] /\ WaitingAt(t)' = queue
  BY <1>2, <1>3, <1>4 DEF LeafAt, WaitingAt, Moved
<1>8. EventOf(t) = {} => WaitingAt(t) = queue
  BY DEF EventOf, WaitingAt
<1>9. EventOf(t) # {} => /\ WaitingAt(t) # <<>> /\ EventOf(t) = {Head(WaitingAt(t))}
                         /\ queue = Tail(WaitingAt(t))
  <2> SUFFICES ASSUME taken[t] # None
               PROVE  /\ WaitingAt(t) # <<>> /\ EventOf(t) = {Head(WaitingAt(t))}
                      /\ queue = Tail(WaitingAt(t))
    BY DEF EventOf
  <2>1. taken[t] \in InEvents /\ queue \in Seq(InEvents)
    BY <1>1 DEF TypeOK
  <2>2. WaitingAt(t) = <<taken[t]>> \o queue /\ EventOf(t) = {taken[t]}
    BY <1>2 DEF WaitingAt, EventOf, Moved
  <2>. QED
    BY <2>1, <2>2, FirstAndRest
<1>10. Micro(t)
  BY <1>3, <1>4, <1>7, <1>8, <1>9 DEF Micro, Chosen
<1>. QED
  BY <1>2, <1>6, <1>10, SerialKept

\* Only a thread under way advances.
LEMMA AdvanceSerial ==
  ASSUME SerialInv, IInv', NEW t \in Threads, Advance(t)
  PROVE  SerialInv' /\ [Atomic!Next]_Abstract
<1>1. pc[t] # "out"
  BY DEF Advance, Turn, Proceed, Claim, Peek, Get, Execute, Dispatch, Leave, Enter,
         ReactHealth, Clear, Release, Finish, Goto
<1>2. Only(t)
  BY <1>1 DEF SerialInv, Alone, Only, Others
<1>3. Situation(t)
  BY <1>2 DEF SerialInv, Staged
<1>4. SerialInv' /\ Only(t)' /\ (Unseen(t) \/ Micro(t))
  BY <1>2, <1>3, SerialAround, SerialFetch, SerialDispatch, SerialCross, SerialCommit
  DEF Advance
<1>5. /\ CurrentLeaf = LeafAt(t) /\ Waiting = WaitingAt(t)
      /\ CurrentLeaf' = LeafAt(t)' /\ Waiting' = WaitingAt(t)'
  BY <1>2, <1>4, MapNow, MapNext
<1>6. CASE Unseen(t)
  BY <1>4, <1>5, <1>6 DEF Unseen, Abstract
<1>7. CASE Micro(t)
  <2>1. CASE EventOf(t) = {}
    <3>1. Atomic!ReactToNone
      BY <1>5, <1>7, <2>1, SameChart DEF Micro, Atomic!ReactToNone, Atomic!Step
    <3>. QED
      BY <1>4, <3>1 DEF Atomic!Next
  <2>2. CASE EventOf(t) # {}
    <3>1. Atomic!ReactToNext
      BY <1>5, <1>7, <2>2, SameChart DEF Micro, Atomic!ReactToNext, Atomic!Step
    <3>. QED
      BY <1>4, <3>1 DEF Atomic!Next
  <2>. QED
    BY <2>1, <2>2
<1>. QED
  BY <1>4, <1>6, <1>7

LEMMA StepSerial ==
  ASSUME ~Overlap, SerialInv, [Next]_vars
  PROVE  SerialInv' /\ [Atomic!Next]_Abstract
<1>1. IInv'
  BY StepIInv DEF SerialInv
<1>2. ASSUME NEW t \in Threads, NEW e \in Offered[t], Put(t, e)
      PROVE  SerialInv' /\ [Atomic!Next]_Abstract
  <2>1. e \in Atomic!InEvents
    BY ThreadAssumption, SameChart
  <2>. QED
    BY <1>1, <1>2, <2>1, SerialPut DEF Atomic!Next
<1>3. ASSUME NEW t \in Threads, Advance(t)
      PROVE  SerialInv' /\ [Atomic!Next]_Abstract
  BY <1>1, <1>3, AdvanceSerial
<1>4. CASE UNCHANGED vars
  <2>1. Alone' /\ Staged'
    BY <1>4 DEF vars, thread, SerialInv, Alone, Staged, Only, Situation, Untouched,
                Chosen, EventOf
  <2>2. UNCHANGED Abstract
    BY <1>4 DEF vars, thread, Abstract, CurrentLeaf, Waiting, InTransit, Uncommitted
  <2>. QED
    BY <1>1, <2>1, <2>2 DEF SerialInv
<1>. QED
  BY <1>2, <1>3, <1>4 DEF Next

\* Refinement: with any number of threads whose calls do not overlap, run_cycle
\* is an atomic reaction to one event at a time, which is what Lifecycle,
\* LevelLifecycle, ModelAdaptor and ExperimentRun take it for.
THEOREM CyclesComplete ==
  ASSUME ~Overlap
  PROVE  Spec => RunsToCompletion
<1>1. Init => SerialInv
  BY SerialInit
<1>2. Init => Atomic!Init
  <2> SUFFICES ASSUME Init PROVE Atomic!Init
    OBVIOUS
  <2>1. InTransit = {} /\ Uncommitted = {}
    BY DEF Init, InTransit, Uncommitted
  <2>2. CurrentLeaf = bel /\ Waiting = <<>>
    BY <2>1 DEF Init, CurrentLeaf, Waiting
  <2>. QED
    BY <2>2, SameChart DEF Init, Atomic!Init, Atomic!AtRest
<1>3. SerialInv /\ [Next]_vars => SerialInv' /\ [Atomic!Next]_<<CurrentLeaf, health, Waiting>>
  BY StepSerial DEF Abstract
<1>. QED
  BY <1>1, <1>2, <1>3, PTL DEF Spec, RunsToCompletion, Atomic!Spec


------------------------------------------------------------------------------
(***************************************************************************)
(* Calls that do not overlap serve the queue: the safety half of CallsEnd. *)
(***************************************************************************)

\* What the test of empty() found is still true at get().
NoneBlocked == \A t \in Threads : pc[t] = "get" => queue # <<>>

\* All calls have returned, and nothing is left to be executed.
NoneForgotten == Quiet => queue = <<>>

\* Why: a thread only leaves its cycle when it has found the queue empty.
Served ==
  /\ NoneBlocked
  /\ NoneForgotten
  /\ \A t \in Threads : pc[t] = "release" => queue = <<>>

\* The one thread under way never finds the guard set.
LEMMA GuardIsOwn ==
  ASSUME SerialInv, NEW t \in Threads, Only(t), executing
  PROVE  InCycle(t)
BY DEF SerialInv, IInv, GuardIsFreed, Only, Others, InCycle

LEMMA ServedStep ==
  ASSUME ~Overlap, SerialInv, Served, [Next]_vars
  PROVE  Served'
<1>0. TypeOK
  BY DEF SerialInv, IInv
<1>1. ASSUME NEW t \in Threads, NEW from, NEW to, Only(t), Moved(t, from, to),
             to = "get" => queue' # <<>>,
             to \in {"release", "out"} => queue' = <<>>
      PROVE  Served'
  <2>1. pc'[t] = to /\ \A u \in Others(t) : pc'[u] = "out"
    BY <1>1 DEF Only, Moved, Others
  <2>2. NoneForgotten'
    BY <1>1, <2>1 DEF NoneForgotten, Quiet
  <2>. QED
    BY <1>1, <2>1, <2>2 DEF Served, NoneBlocked, Others
<1>2. ASSUME NEW t \in Threads, NEW e \in Offered[t], Put(t, e) PROVE Served'
  <2>1. Only(t) /\ Moved(t, "out", "check")
    BY <1>0, <1>2, GotoMoves DEF Put, Goto, Only, TypeOK, Pcs
  <2>. QED
    BY <1>1, <2>1
<1>3. ASSUME NEW t \in Threads, Advance(t) PROVE Served'
  <2>1. pc[t] # "out"
    BY <1>3 DEF Advance, Turn, Proceed, Claim, Peek, Get, Execute, Dispatch, Leave, Enter,
                ReactHealth, Clear, Release, Finish, Goto
  <2>2. Only(t)
    BY <2>1 DEF SerialInv, Alone, Only, Others
  <2>3. ~Turn(t)
    BY <2>2, GuardIsOwn DEF Turn, Finish, Goto, InCycle
  <2>4. ASSUME Peek(t, "first", "dispatch") \/ Peek(t, "next", "release") PROVE Served'
    <3>1. PICK from \in {"first", "next"}, to \in {"get", "dispatch", "release"} :
            /\ Moved(t, from, to)
            /\ to = "get" => queue # <<>>
            /\ to = "release" => queue = <<>>
      BY <1>0, <2>4, GotoMoves DEF Peek, TypeOK, Pcs
    <3>2. queue' = queue
      BY <2>4 DEF Peek
    <3>. QED
      BY <1>1, <2>2, <3>1, <3>2
  <2>5. ASSUME Release(t) PROVE Served'
    <3>1. PICK to \in {"check", "out"} : Moved(t, "release", to)
      <4>1. Finish(t, "release") /\ Counted
        BY <2>5 DEF Release, SerialInv, IInv
      <4>. QED
        BY <1>0, <4>1, FinishMoves DEF TypeOK
    <3>2. queue' = <<>>
      BY <2>5, <3>1 DEF Served, Release, Moved
    <3>. QED
      BY <1>1, <2>2, <3>1, <3>2
  <2>6. ASSUME \/ Proceed(t) \/ Claim(t) \/ Get(t) \/ Execute(t) \/ Dispatch(t)
               \/ Leave(t) \/ Enter(t) \/ ReactHealth(t) \/ Clear(t)
        PROVE  Served'
    <3>1. PICK from \in Pcs, to \in Pcs \ {"get", "release", "out"} : Goto(t, from, to)
      BY <2>6 DEF Proceed, Claim, Get, Execute, Dispatch, Leave, Enter, ReactHealth, Clear,
                  Goto, Pcs
    <3>2. Moved(t, from, to)
      BY <1>0, <3>1, GotoMoves DEF TypeOK
    <3>. QED
      BY <1>1, <2>2, <3>2
  <2>. QED
    BY <1>3, <2>3, <2>4, <2>5, <2>6 DEF Advance
<1>4. CASE UNCHANGED vars
  BY <1>4 DEF vars, thread, Served, NoneBlocked, NoneForgotten, Quiet
<1>. QED
  BY <1>2, <1>3, <1>4 DEF Next

LEMMA ServedInvariance ==
  ASSUME ~Overlap
  PROVE  Spec => [](SerialInv /\ Served)
<1>1. Init => SerialInv /\ Served
  BY SerialInit DEF Init, Served, NoneBlocked, NoneForgotten
<1>2. SerialInv /\ Served /\ [Next]_vars => (SerialInv /\ Served)'
  BY StepSerial, ServedStep
<1>. QED
  BY <1>1, <1>2, PTL DEF Spec

\* A thread that calls get() finds an event there, so it does not wait with
\* __is_executing set: what the test of empty() found is still true.
THEOREM NoCallBlocks ==
  ASSUME ~Overlap
  PROVE  Spec => []NoneBlocked
<1>1. Served => NoneBlocked
  BY DEF Served
<1>. QED
  BY <1>1, ServedInvariance, PTL

\* When all calls have returned no event is left in the queue: none is answered
\* by the test of __is_executing and left for a cycle that may never come.
THEOREM NoEventForgotten ==
  ASSUME ~Overlap
  PROVE  Spec => []NoneForgotten
<1>1. Served => NoneForgotten
  BY DEF Served
<1>. QED
  BY <1>1, ServedInvariance, PTL
=============================================================================
