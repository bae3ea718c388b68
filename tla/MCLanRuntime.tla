---------------------------- MODULE MCLanRuntime -----------------------------
(* One post, two subnets, short timers. *)
EXTENDS LanRuntime

CONSTANTS m1, n1, n2
=============================================================================
