--------------------------- MODULE RunToCompletion ---------------------------
(***************************************************************************)
(* One chart's run_cycle at the grain at which Python threads interleave.  *)
(*                                                                         *)
(* raise_X and time_elapsed put an event in in_event_queue and call        *)
(* run_cycle; ModelAdaptor._raise then calls run_cycle once more.          *)
(* run_cycle tests __is_executing and sets it in two steps, without a      *)
(* lock; the queue is a thread-safe queue.Queue, but __get_next_event      *)
(* tests empty() and then calls a get() that blocks.                       *)
(*                                                                         *)
(* A step is a stretch of code that reads or writes what another thread    *)
(* writes.  Left atomic: evaluating the guards of one reaction, the entry  *)
(* actions with the assignment of the new leaf, a Health transition, and   *)
(* __clear_in_events.                                                      *)
(***************************************************************************)
EXTENDS AdaptiveChart, Naturals, Sequences

CONSTANTS Callers,   \* threads that go through ModelAdaptor._raise
          Timers,    \* timer threads: each delivers time events
          Offered,   \* the in-events each thread may raise
          Overlap,   \* FALSE: a call only begins when no other is under way
          MaxCalls   \* bound: the calls made in all

Threads == Callers \cup Timers

ASSUME ThreadAssumption ==
  /\ Callers \cap Timers = {}
  /\ Offered \in [Threads -> SUBSET InEvents]
  /\ Overlap \in BOOLEAN
  /\ MaxCalls \in Nat

\* state_vector[0] while a transition has left one leaf and not entered the
\* next: the enclosing state, which __micro_step does not dispatch on.
Between == "between"

VARIABLES
  bel,        \* state_vector[0]
  health,     \* state_vector[1]
  position,   \* __state_conf_vector_position
  queue,      \* in_event_queue
  raised,     \* the in-event flags that are True
  executing,  \* __is_executing
  pc,         \* where each thread is
  cycles,     \* the run_cycle calls a thread still has to make
  taken,      \* next_event: what a thread took from the queue
  source,     \* state: the leaf a thread's micro step dispatched on
  target,     \* the leaf its reaction goes to
  calls       \* how many calls were made

thread == <<pc, cycles, taken, source, target, calls>>
vars   == <<bel, health, position, queue, raised, executing, thread>>

None == "none"

Pcs == {"out", "check", "claim", "first", "get", "execute", "dispatch",
        "leave", "enter", "health", "clear", "next", "release"}

TypeOK ==
  /\ bel       \in Belonging \cup {Between}
  /\ health    \in HealthStates
  /\ position  \in {0, 1}
  /\ queue     \in Seq(InEvents)
  /\ raised    \in SUBSET InEvents
  /\ executing \in BOOLEAN
  /\ pc        \in [Threads -> Pcs]
  /\ cycles    \in [Threads -> 0..2]
  /\ taken     \in [Threads -> InEvents \cup {None}]
  /\ source    \in [Threads -> Belonging \cup {Between}]
  /\ target    \in [Threads -> Belonging \cup {Between}]
  /\ calls     \in 0..MaxCalls

\* Any configuration Lifecycle leaves at rest (RestIsSettled).
Init ==
  /\ bel \in Belonging
  /\ health \in HealthStates
  /\ React(bel, health, {}) = bel \/ (bel = "full_role" /\ health = "degraded")
  /\ position = 0
  /\ queue = <<>>
  /\ raised = {}
  /\ executing = FALSE
  /\ pc = [t \in Threads |-> "out"]
  /\ cycles = [t \in Threads |-> 0]
  /\ taken = [t \in Threads |-> None]
  /\ source = [t \in Threads |-> Between]
  /\ target = [t \in Threads |-> Between]
  /\ calls = 0

Goto(t, from, to) ==
  /\ pc[t] = from
  /\ pc' = [pc EXCEPT ![t] = to]

\* The end of a run_cycle call of t: on to the next one, or out.
Finish(t, from) ==
  /\ cycles' = [cycles EXCEPT ![t] = @ - 1]
  /\ Goto(t, from, IF cycles[t] > 1 THEN "check" ELSE "out")

Others(t) == Threads \ {t}

------------------------------------------------------------------------------
\* raise_X, time_elapsed: the event is put in the queue.
Put(t, e) ==
  /\ calls < MaxCalls
  /\ Overlap \/ \A u \in Others(t) : pc[u] = "out"
  /\ Goto(t, "out", "check")
  /\ queue' = Append(queue, e)
  /\ cycles' = [cycles EXCEPT ![t] = IF t \in Callers THEN 2 ELSE 1]
  /\ calls' = calls + 1
  /\ UNCHANGED <<bel, health, position, raised, executing, taken, source, target>>

\* if self.__is_executing: return
Turn(t) ==
  /\ executing
  /\ Finish(t, "check")
  /\ UNCHANGED <<bel, health, position, queue, raised, executing, taken, source,
                 target, calls>>

Proceed(t) ==
  /\ ~executing
  /\ Goto(t, "check", "claim")
  /\ UNCHANGED <<bel, health, position, queue, raised, executing, cycles, taken,
                 source, target, calls>>

\* self.__is_executing = True
Claim(t) ==
  /\ Goto(t, "claim", "first")
  /\ executing' = TRUE
  /\ UNCHANGED <<bel, health, position, queue, raised, cycles, taken, source,
                 target, calls>>

\* Faulty variant of Peek: the queue is not tested, get() is called at once.
PeekNothing(t, from, otherwise) ==
  /\ Goto(t, from, "get")
  /\ taken' = [taken EXCEPT ![t] = None]
  /\ UNCHANGED <<bel, health, position, queue, raised, executing, cycles, source,
                 target, calls>>

\* __get_next_event, the test of empty(): without an event the first fetch of
\* a cycle goes on to the micro step, the later ones end the loop.
Peek(t, from, otherwise) ==
  /\ Goto(t, from, IF queue = <<>> THEN otherwise ELSE "get")
  /\ taken' = [taken EXCEPT ![t] = None]
  /\ UNCHANGED <<bel, health, position, queue, raised, executing, cycles, source,
                 target, calls>>

\* Faulty variant of Get: the event is removed and not kept.
GetNothing(t) ==
  /\ queue # <<>>
  /\ Goto(t, "get", "execute")
  /\ queue' = Tail(queue)
  /\ UNCHANGED <<bel, health, position, raised, executing, cycles, taken, source,
                 target, calls>>

\* __get_next_event, get(): blocks as long as the queue is empty.
Get(t) ==
  /\ queue # <<>>
  /\ Goto(t, "get", "execute")
  /\ taken' = [taken EXCEPT ![t] = Head(queue)]
  /\ queue' = Tail(queue)
  /\ UNCHANGED <<bel, health, position, raised, executing, cycles, source, target,
                 calls>>

\* __execute_queued_event
Execute(t) ==
  /\ Goto(t, "execute", "dispatch")
  /\ raised' = raised \cup {taken[t]}
  /\ UNCHANGED <<bel, health, position, queue, executing, cycles, taken, source,
                 target, calls>>

\* Faulty variant of Dispatch: leaves and enters when no transition is taken.
DispatchAlways(t) ==
  LET to == IF bel = Between THEN Between ELSE React(bel, health, raised)
  IN  /\ Goto(t, "dispatch", "leave")
      /\ source' = [source EXCEPT ![t] = bel]
      /\ target' = [target EXCEPT ![t] = to]
      /\ position' = 0
      /\ UNCHANGED <<bel, health, queue, raised, executing, cycles, taken, calls>>

\* __micro_step: dispatch on state_vector[0], evaluate the guards.
Dispatch(t) ==
  LET to == IF bel = Between THEN Between ELSE React(bel, health, raised)
  IN  /\ Goto(t, "dispatch", IF to = bel THEN "health" ELSE "leave")
      /\ source' = [source EXCEPT ![t] = bel]
      /\ target' = [target EXCEPT ![t] = to]
      /\ position' = 0
      /\ UNCHANGED <<bel, health, queue, raised, executing, cycles, taken, calls>>

\* The exit sequence; the reactions to a time event also reset its flag.
Leave(t) ==
  /\ Goto(t, "leave", "enter")
  /\ bel' = Between
  /\ raised' = raised \ (CASE source[t] = "pending_entry" /\ target[t] \in Participating
                                -> {"entry_delay"}
                           [] source[t] = "pending_exit" /\ target[t] = "available"
                                -> {"exit_delay"}
                           [] OTHER -> {})
  /\ position' = 0
  /\ UNCHANGED <<health, queue, executing, cycles, taken, source, target, calls>>

\* The enter sequence.
Enter(t) ==
  /\ Goto(t, "enter", "health")
  /\ bel' = target[t]
  /\ position' = 0
  /\ UNCHANGED <<health, queue, raised, executing, cycles, taken, source, target,
                 calls>>

\* The Health half of __micro_step.  A health state that is entered sets the
\* position to 1, which would keep another thread's micro step out of here.
ReactHealth(t) ==
  LET to == IF position < 1 THEN HealthReact(health, raised) ELSE health
  IN  /\ Goto(t, "health", "clear")
      /\ health' = to
      /\ position' = IF to # health THEN 1 ELSE position
      /\ UNCHANGED <<bel, queue, raised, executing, cycles, taken, source, target,
                     calls>>

\* Faulty variant of Clear: the time events stay raised.
ClearWithoutTime(t) ==
  /\ Goto(t, "clear", "next")
  /\ raised' = raised \cap TimeEvents
  /\ UNCHANGED <<bel, health, position, queue, executing, cycles, taken, source,
                 target, calls>>

\* __clear_in_events
Clear(t) ==
  /\ Goto(t, "clear", "next")
  /\ raised' = {}
  /\ UNCHANGED <<bel, health, position, queue, executing, cycles, taken, source,
                 target, calls>>

\* Faulty variant of Release: __is_executing is not reset.
ReleaseNothing(t) ==
  /\ Finish(t, "release")
  /\ UNCHANGED <<bel, health, position, queue, raised, executing, taken, source,
                 target, calls>>

\* self.__is_executing = False
Release(t) ==
  /\ executing' = FALSE
  /\ Finish(t, "release")
  /\ UNCHANGED <<bel, health, position, queue, raised, taken, source, target, calls>>

------------------------------------------------------------------------------
Advance(t) ==
  \/ Turn(t)
  \/ Proceed(t)
  \/ Claim(t)
  \/ Peek(t, "first", "dispatch")
  \/ Get(t)
  \/ Execute(t)
  \/ Dispatch(t)
  \/ Leave(t)
  \/ Enter(t)
  \/ ReactHealth(t)
  \/ Clear(t)
  \/ Peek(t, "next", "release")
  \/ Release(t)

Next == \E t \in Threads :
  \/ \E e \in Offered[t] : Put(t, e)
  \/ Advance(t)

Spec == Init /\ [][Next]_vars

\* Every thread that can take its next step is scheduled in the end.
Fairness == \A t \in Threads : WF_vars(Advance(t))

FairSpec == Spec /\ Fairness

------------------------------------------------------------------------------
(***************************************************************************)
(* Properties that hold although the threads overlap.                      *)
(***************************************************************************)

InCycle(t) == pc[t] \notin {"out", "check", "claim"}

Quiet == \A t \in Threads : pc[t] = "out"

\* The guard is never left set by a thread that has gone: no chart is locked
\* out for good, whatever order the threads claim and release it in.
GuardIsFreed == executing => \E t \in Threads : InCycle(t)

\* An event that is executed late, after another thread's micro step, is not
\* left raised for a later cycle to react to.
NothingStaysRaised == Quiet => raised = {}

\* Two transitions that tear each other's exit and enter sequences apart still
\* leave the region in a leaf, from which it can go on reacting.
RegionKeepsALeaf == Quiet => bel \in Belonging

(***************************************************************************)
(* Properties of calls that do not overlap.                                *)
(***************************************************************************)

\* A call that has begun ends: no thread is left waiting in get().
CallsEnd == \A t \in Threads : pc[t] # "out" ~> pc[t] = "out"

\* Without overlap run_cycle is what Lifecycle takes it for.  A micro step
\* takes effect when the Health region has reacted; until then its event
\* counts as queued and the leaf it started from as current.
Uncommitted == {t \in Threads : pc[t] \in {"execute", "dispatch", "leave", "enter", "health"}}

InTransit == {t \in Threads : pc[t] \in {"leave", "enter", "health"}}

CurrentLeaf == IF InTransit = {} THEN bel ELSE source[CHOOSE t \in InTransit : TRUE]

Waiting ==
  LET t == CHOOSE u \in Uncommitted : TRUE
  IN  IF Uncommitted = {} \/ taken[t] = None THEN queue ELSE <<taken[t]>> \o queue

Atomic == INSTANCE AtomicCycle WITH bel <- CurrentLeaf, queue <- Waiting

\* run_cycle implements an atomic reaction to one queued event at a time.
RunsToCompletion == Atomic!Spec

=============================================================================
