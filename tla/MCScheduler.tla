----------------------------- MODULE MCScheduler -----------------------------
(* Small instances of Scheduler: one post of two fragments and one of one. *)
EXTENDS Scheduler

CONSTANTS long, short

MCMsgs == {long, short}
MCFragments == [m \in MCMsgs |-> IF m = long THEN 2 ELSE 1]
MCJitterBytes == {0, 255}
=============================================================================
