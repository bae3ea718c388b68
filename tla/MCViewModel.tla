---------------------------- MODULE MCViewModel ----------------------------
(***************************************************************************)
(* A timeline of two with two posts of one peer and an own post, so that   *)
(* each can be evicted while it is shown, answered or returned to.  Their  *)
(* bodies differ in length: one fills more than a screen, the others fit.  *)
(***************************************************************************)
EXTENDS ViewModel

CONSTANTS early, late, own, peer, me

MCPosts == {early, late, own}
MCSenderOf == [p \in MCPosts |-> IF p = own THEN me ELSE peer]
MCDetailLines == [p \in MCPosts |-> IF p = early THEN 1 ELSE 0]
MCOneSetting == {Defaults}
=============================================================================
