------------------------------ MODULE MCSession ------------------------------
(* Two local and three remote posts, a timeline and a ledger of three,     *)
(* two install ids: every kind of eviction and one deletion happen.        *)
EXTENDS Session, TLC

Symmetry ==
  Permutations(LocalIds) \cup Permutations(RemoteIds) \cup Permutations(Installs)
=============================================================================
