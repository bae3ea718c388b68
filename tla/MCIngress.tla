----------------------------- MODULE MCIngress -----------------------------
(***************************************************************************)
(* Two instances of Ingress.  Twins: two posts of the same key and         *)
(* geometry, and one of another sender with the same sender sequence.      *)
(* Pairs: under each of two keys a post of two fragments and one of one.   *)
(***************************************************************************)
EXTENDS Ingress

CONSTANTS a, b, c, d, left, right, noise

MCTags == {left, right}
MCGarbage == {noise}

TwinPosts == {a, b, c}
TwinCount == [p \in TwinPosts |-> 2]
TwinKeyOf == [p \in TwinPosts |->
  [tag |-> IF p = c THEN right ELSE left, seq |-> 1]]

PairPosts == {a, b, c, d}
PairCount == [p \in PairPosts |-> IF p \in {a, c} THEN 2 ELSE 1]
PairKeyOf == [p \in PairPosts |->
  [tag |-> IF p \in {a, b} THEN left ELSE right, seq |-> 1]]
=============================================================================
