----------------------------- MODULE MCCapLora -----------------------------
(* Small instance of CapLora. *)
EXTENDS CapLora
=============================================================================
