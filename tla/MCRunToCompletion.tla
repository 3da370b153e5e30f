-------------------------- MODULE MCRunToCompletion --------------------------
(***************************************************************************)
(* RunToCompletion for TLC: the application's thread, a reconstructor and  *)
(* one timer thread on one chart.                                          *)
(***************************************************************************)
EXTENDS RunToCompletion

CONSTANTS main, monitor, timer

\* Each thread brings every event it can bring.
AllEvents == [t \in {main, monitor, timer} |->
  CASE t = main    -> InEvents \ (TimeEvents \cup {"uncertainty_threshold_exceeded"})
    [] t = monitor -> {"uncertainty_threshold_exceeded"}
    [] t = timer   -> TimeEvents]

\* What may collide around a role: main makes the constituent leave or
\* degrades it while the delay of a pending state elapses.
RoleEvents == [t \in {main, timer} |->
  CASE t = main  -> {"leave_constellation", "exit_denied", "degrade"}
    [] t = timer -> TimeEvents]

=============================================================================
