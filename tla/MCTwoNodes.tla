---------------------------- MODULE MCTwoNodes ----------------------------
(* A post of two fragments and one of one, from one sender. *)
EXTENDS TwoNodes

CONSTANTS long, short, tag, noise

MCMsgs == {long, short}
MCFragments == [m \in MCMsgs |-> IF m = long THEN 2 ELSE 1]
MCKeyOf == [m \in MCMsgs |-> [tag |-> tag, seq |-> IF m = long THEN 1 ELSE 2]]
MCTags == {tag}
MCJitterBytes == {0}
MCGarbage == {noise}
=============================================================================
