----------------------------- MODULE Membership -----------------------------
(***************************************************************************)
(* What every reliability level promises about membership: a ladder from   *)
(* disengaged over prepared and passive to active that is climbed one rung *)
(* at a time and descended one rung at a time.  Where health is enforced   *)
(* (levels 2 to 4) a failed constituent does not get in, and failure is    *)
(* the one reason to fall from active straight to prepared.                *)
(***************************************************************************)
VARIABLES stage, failed, enforced

Stages == {"inactive", "disengaged", "prepared", "passive", "active"}

Climb ==
  \/ stage = "disengaged" /\ stage' = "prepared"
  \/ /\ stage = "prepared" /\ stage' = "passive"
     /\ ~(enforced /\ failed)
  \/ stage = "passive" /\ stage' = "active"

Descend ==
  \/ stage = "prepared" /\ stage' = "disengaged"
  \/ stage = "passive" /\ stage' = "prepared"
  \/ stage = "active" /\ stage' = "passive"

Evict ==
  /\ enforced /\ failed
  /\ stage \in {"passive", "active"} /\ stage' = "prepared"

\* The chart is entered afresh, or exited from wherever it is.
Enter == stage = "inactive" /\ stage' = "disengaged" /\ ~failed'
Exit  == stage # "inactive" /\ stage' = "inactive"

\* A rung may change together with the health, by its old value.
Init == stage = "inactive" /\ failed = FALSE /\ enforced \in BOOLEAN

Next ==
  /\ failed' \in BOOLEAN
  /\ UNCHANGED enforced
  /\ Climb \/ Descend \/ Evict \/ Enter \/ Exit \/ UNCHANGED stage

Spec == Init /\ [][Next]_<<stage, failed, enforced>>

=============================================================================
