----------------------------- MODULE MCDelivery -----------------------------
(***************************************************************************)
(* Delivery for TLC: two sources can race to make the partition of the     *)
(* validated events; one of them publishes observed events as well, the    *)
(* reconstructor of the other reconstructed ones.                          *)
(***************************************************************************)
EXTENDS Delivery

Order == <<"s1", "s2">>

Published == [s \in Sources |->
  {"observed.validated", IF s = "s1" THEN "observed" ELSE "reconstructed"}]

=============================================================================
