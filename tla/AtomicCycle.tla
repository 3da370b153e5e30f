---------------------------- MODULE AtomicCycle ----------------------------
(***************************************************************************)
(* What run_cycle promises: a "run to completion" step.  Each in-event     *)
(* that is put in the queue is reacted to by one micro step that sees no   *)
(* other in-event and is not mixed with another micro step; a cycle may    *)
(* also run without an event.  This is how module Lifecycle uses the chart.*)
(***************************************************************************)
EXTENDS AdaptiveChart, Sequences

VARIABLES bel, health, queue

Step(E) ==
  /\ bel' = React(bel, health, E)
  /\ health' = HealthReact(health, E)

Put(e) ==
  /\ queue' = Append(queue, e)
  /\ UNCHANGED <<bel, health>>

ReactToNext ==
  /\ queue # <<>>
  /\ Step({Head(queue)})
  /\ queue' = Tail(queue)

ReactToNone ==
  /\ Step({})
  /\ UNCHANGED queue

\* RestIsSettled of Lifecycle.
AtRest == \/ React(bel, health, {}) = bel
          \/ bel = "full_role" /\ health = "degraded"

Init ==
  /\ bel \in Belonging
  /\ health \in HealthStates
  /\ AtRest
  /\ queue = <<>>

Next == (\E e \in InEvents : Put(e)) \/ ReactToNext \/ ReactToNone

Spec == Init /\ [][Next]_<<bel, health, queue>>

=============================================================================
