---------------------------- MODULE ModelAdaptor ----------------------------
(***************************************************************************)
(* The navigation of ModelAdaptor (ensure_belonging, ensure_health) as the *)
(* application's thread runs it through LifecycleManager, and the snapshot *)
(* of the state, on top of Lifecycle: main's calls are the ones the        *)
(* navigation chooses, while the timers and the monitor thread act on the  *)
(* same chart at any time.                                                 *)
(*                                                                         *)
(* The navigation reads the leaf, looks up an event that leads towards the *)
(* goal, raises it, sleeps a little longer than the chart's delay if that  *)
(* brought it into a pending state, and reads the leaf again.              *)
(***************************************************************************)
EXTENDS Lifecycle

CONSTANTS MaxSteps,        \* max_steps of ensure_belonging
          MaxHealthSteps,  \* max_steps of ensure_health
          Punctual         \* TRUE: a timer is delivered during the sleep

ASSUME StepsAssumption ==
  MaxSteps \in Nat /\ MaxHealthSteps \in Nat /\ Punctual \in BOOLEAN

VARIABLES
  nav,      \* where main stands in a navigation
  snapshot  \* ModelAdaptor.state

navVars == <<vars, nav, snapshot>>

None == "none"

RoleGoals == {"participating"} \cup Participating

Goals == Belonging \cup RoleGoals

\* How a navigation ended; "error" is the RuntimeError of ensure_health, which
\* LifecycleManager.set_health logs and drops.
Results == {None, "reached", "refused", "exhausted", "error"}

NavAt == {"idle", "choose", "act", "called", "sleep", "compare"}

\* goal is a leaf, "participating" or a health; from is the leaf the navigation
\* started in, before the one its current step started in, waits the pending
\* state it sleeps in.
NavTypeOK ==
  /\ TypeOK
  /\ nav.at \in NavAt
  /\ nav.c \in Constituents
  /\ nav.goal \in Goals \cup HealthStates \cup {None}
  /\ nav.event \in MainEvents \cup {None}
  /\ nav.before \in Belonging \cup {None}
  /\ nav.waits \in Belonging \cup {None}
  /\ nav.from \in Belonging \cup {None}
  /\ nav.steps \in 0..(IF MaxSteps > MaxHealthSteps THEN MaxSteps ELSE MaxHealthSteps)
  /\ nav.result \in Results
  /\ snapshot \in [Constituents -> [main : {MainOf(b) : b \in Belonging},
                                    sub : Belonging, health : HealthStates]]

------------------------------------------------------------------------------
\* What update_snapshot stores.
Current(c) == [main |-> MainOf(bel[c]), sub |-> bel[c], health |-> health[c]]

UpdateSnapshot(c) == snapshot' = [snapshot EXCEPT ![c] = Current(c)]

NavInit ==
  /\ Init
  /\ \E c \in Constituents :
       nav = [at |-> "idle", c |-> c, goal |-> None, event |-> None, before |-> None,
              waits |-> None, from |-> None, steps |-> 0, result |-> None]
  /\ snapshot = [c \in Constituents |-> Current(c)]

\* BELONGING_POLICY: the event that leads from leaf b towards the goal.
Policy(goal, b) ==
  CASE b = "disengaged" /\ goal # "disengaged"              -> "prepare_for_so_s"
    [] b = "prepared" /\ goal = "disengaged"                -> "disengage_from_so_s"
    [] b = "prepared" /\ goal \notin {"disengaged", "prepared"} -> "join_so_s"
    [] b \in Passive /\ goal \in {"disengaged", "prepared"} -> "leave_so_s"
    [] b = "available" /\ goal \notin {"disengaged", "prepared", "available"}
                                                            -> "join_invitation"
    [] b = "negotiating" /\ goal = "available"              -> "admission_rejected"
    [] b = "negotiating" /\ goal \in Active \cup RoleGoals  -> "join_constellation"
    [] b = "pending_entry" /\ goal \notin RoleGoals \cup {"pending_entry"}
                                                            -> "leave_constellation"
    [] b \in Participating /\ goal \notin RoleGoals         -> "leave_constellation"
    [] b = "pending_exit" /\ goal \in RoleGoals             -> "exit_denied"
    [] OTHER                                                -> None

Reached(goal, b) == IF goal = "participating" THEN b \in Participating ELSE b = goal

\* HEALTH_ORDER as a ranking.
Rank == [ideal |-> 0, defective |-> 1, faulty |-> 2, erroneous |-> 3,
         malfunctioning |-> 4, degraded |-> 5, failed |-> 6]

\* Faulty variant of HealthStep: the order of health read the wrong way round.
HealthStepReversed(goal, h) ==
  IF goal = "ideal" THEN "full_recovery"
  ELSE IF Rank[goal] > Rank[h] THEN "improve" ELSE "degrade"

HealthStep(goal, h) ==
  IF goal = "ideal" THEN "full_recovery"
  ELSE IF Rank[goal] > Rank[h] THEN "degrade" ELSE "improve"

------------------------------------------------------------------------------
At(from) == nav.at = from

End(result) == nav' = [nav EXCEPT !.at = "idle", !.result = result, !.event = None,
                                  !.before = None, !.waits = None]

Begin(c, goal) ==
  /\ At("idle")
  /\ nav' = [nav EXCEPT !.at = "choose", !.c = c, !.goal = goal, !.steps = 0,
                        !.from = bel[c], !.result = None]
  /\ UNCHANGED <<vars, snapshot>>

\* LifecycleManager.set_belonging, activate_all.
SetBelonging(c, goal) == bel[c] # goal /\ Begin(c, goal)

\* LifecycleManager.set_health.
SetHealth(c, goal) == health[c] # goal /\ Begin(c, goal)

\* Faulty variant of ChooseBelonging: no limit on the steps.
ChooseBelongingWithoutLimit(c) ==
  LET event == Policy(nav.goal, bel[c])
  IN  /\ At("choose") /\ nav.c = c /\ nav.goal \in Goals
      /\ UNCHANGED vars
      /\ \/ /\ Reached(nav.goal, bel[c])
            /\ End("reached") /\ UNCHANGED snapshot
         \/ /\ ~Reached(nav.goal, bel[c]) /\ event = None
            /\ End("refused") /\ UpdateSnapshot(c)
         \/ /\ ~Reached(nav.goal, bel[c]) /\ event # None
            /\ nav' = [nav EXCEPT !.at = "act", !.event = event, !.before = bel[c]]
            /\ UNCHANGED snapshot

\* The head of ensure_belonging's loop.
ChooseBelonging(c) ==
  LET event == Policy(nav.goal, bel[c])
  IN  /\ At("choose") /\ nav.c = c /\ nav.goal \in Goals
      /\ UNCHANGED vars
      /\ \/ /\ nav.steps = MaxSteps
            /\ End("exhausted") /\ UNCHANGED snapshot
         \/ /\ nav.steps < MaxSteps /\ Reached(nav.goal, bel[c])
            /\ End("reached") /\ UNCHANGED snapshot
         \/ /\ nav.steps < MaxSteps /\ ~Reached(nav.goal, bel[c]) /\ event = None
            /\ End("refused") /\ UpdateSnapshot(c)
         \/ /\ nav.steps < MaxSteps /\ ~Reached(nav.goal, bel[c]) /\ event # None
            /\ nav' = [nav EXCEPT !.at = "act", !.event = event, !.before = bel[c]]
            /\ UNCHANGED snapshot

\* The head of ensure_health's loop.
ChooseHealth(c) ==
  /\ At("choose") /\ nav.c = c /\ nav.goal \in HealthStates
  /\ UNCHANGED <<vars, snapshot>>
  /\ \/ nav.steps = MaxHealthSteps /\ End("error")
     \/ nav.steps < MaxHealthSteps /\ health[c] = nav.goal /\ End("reached")
     \/ /\ nav.steps < MaxHealthSteps /\ health[c] # nav.goal
        /\ nav' = [nav EXCEPT !.at = "act", !.event = HealthStep(nav.goal, health[c]),
                              !.before = bel[c]]

\* getattr(self, action)(goal=goal): the leaf may have changed since.
Act(c) ==
  /\ At("act") /\ nav.c = c
  /\ Raise(c, nav.event)
  /\ nav' = [nav EXCEPT !.at = "called"]
  /\ UNCHANGED snapshot

\* Faulty variant of Proceed: the call may end without its second cycle.
ProceedEarly(c, p) ==
  /\ UNCHANGED nav
  /\ \/ Goto(c, p, "raised", "idle") /\ UNCHANGED <<chart, elapsed, snapshot>>
     \/ Return(c, p) /\ UpdateSnapshot(c)

\* _raise goes on: its second cycle, then update_snapshot.
Proceed(c, p) ==
  /\ UNCHANGED nav
  /\ \/ Settle(c, p) /\ UNCHANGED snapshot
     \/ Return(c, p) /\ UpdateSnapshot(c)

\* Faulty variant of Await: it does not sleep in a pending state.
AwaitNothing(c) ==
  /\ At("called") /\ nav.c = c /\ phase[c]["main"] = "idle"
  /\ nav' = IF nav.goal \in HealthStates
            THEN [nav EXCEPT !.at = "choose", !.steps = @ + 1]
            ELSE [nav EXCEPT !.at = "compare"]
  /\ UNCHANGED <<vars, snapshot>>

\* The call is over; _wait_if_transient reads the leaf.
Await(c) ==
  /\ At("called") /\ nav.c = c /\ phase[c]["main"] = "idle"
  /\ nav' = IF nav.goal \in HealthStates
            THEN [nav EXCEPT !.at = "choose", !.steps = @ + 1]
            ELSE [nav EXCEPT !.at = IF bel[c] \in {"pending_entry", "pending_exit"}
                                    THEN "sleep" ELSE "compare",
                             !.waits = bel[c]]
  /\ UNCHANGED <<vars, snapshot>>

\* The sleep of DELTA + 0.05 seconds is over.  The timer was set before the
\* sleep began and waits DELTA seconds.
Wake(c) ==
  /\ At("sleep") /\ nav.c = c
  /\ Punctual => bel[c] # nav.waits
  /\ nav' = [nav EXCEPT !.at = "compare"]
  /\ UpdateSnapshot(c)
  /\ UNCHANGED vars

\* Faulty variant of Compare: the steps are not counted.
CompareWithoutCount(c) ==
  /\ At("compare") /\ nav.c = c
  /\ IF bel[c] = nav.before THEN End("refused")
     ELSE nav' = [nav EXCEPT !.at = "choose"]
  /\ UNCHANGED <<vars, snapshot>>

\* The end of ensure_belonging's loop: no progress is taken for a refusal.
Compare(c) ==
  /\ At("compare") /\ nav.c = c
  /\ IF bel[c] = nav.before THEN End("refused")
     ELSE nav' = [nav EXCEPT !.at = "choose", !.steps = @ + 1]
  /\ UNCHANGED <<vars, snapshot>>

------------------------------------------------------------------------------
Navigate(c) ==
  \/ ChooseBelonging(c)
  \/ ChooseHealth(c)
  \/ Act(c)
  \/ Await(c)
  \/ Wake(c)
  \/ Compare(c)

Environment(c) ==
  /\ UNCHANGED <<nav, snapshot>>
  /\ \/ Compensate(c)
     \/ EmitReconstructed(c)
     \/ ExceedUncertainty(c)
     \/ \E e \in TimeEvents : Timers(c, e)

NavNext == \E c \in Constituents :
  \/ \E goal \in Goals : SetBelonging(c, goal)
  \/ \E goal \in HealthStates : SetHealth(c, goal)
  \/ Navigate(c)
  \/ \E p \in Callers : Proceed(c, p)
  \/ Environment(c)

NavSpec == NavInit /\ [][NavNext]_navVars

NavFairness == \A c \in Constituents :
  /\ WF_navVars(Navigate(c))
  /\ \A p \in Callers : WF_navVars(Proceed(c, p))
  /\ \A e \in TimeEvents :
       WF_navVars(Expire(c, e) /\ UNCHANGED <<nav, snapshot>>)
         /\ WF_navVars(TimeElapsed(c, e) /\ UNCHANGED <<nav, snapshot>>)

NavFairSpec == NavSpec /\ NavFairness

------------------------------------------------------------------------------
(***************************************************************************)
(* Properties.                                                             *)
(***************************************************************************)

\* The navigation is one of the uses of the chart Lifecycle allows, so what is
\* proved of Lifecycle holds while it runs.
ImplementsLifecycle == Spec

\* A healthy constituent that is asked to go to a state it can rest in gets
\* there, whatever time events are still about: no refusal, and the step
\* limits are never met.  A navigation that begins in a pending state is
\* excluded: the policy may have no event for it.
HealthyGoals == {"disengaged", "prepared", "available", "negotiating",
                 "participating", "full_role"}

HealthyReachTheirGoal == \A c \in Constituents :
  (/\ At("idle") /\ nav.c = c /\ nav.goal \in HealthyGoals
   /\ nav.from \notin {"pending_entry", "pending_exit"}
   /\ health[c] \in {"ideal", "defective", "faulty"}
   /\ nav.result # None)
     => nav.result = "reached"

\* ensure_health always gets to its goal within its step limit, so that the
\* error LifecycleManager drops is never raised.
HealthIsReached == nav.result # "error"

\* A navigation ends although it may meet guards that refuse, pending states
\* that swallow its events and a monitor that pulls the constituent out.
NavigationEnds == ~At("idle") ~> At("idle")

=============================================================================
