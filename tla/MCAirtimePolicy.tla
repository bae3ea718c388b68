--------------------------- MODULE MCAirtimePolicy ---------------------------
(* A bucket of 3 ms that gains 1 ms every 2 ms, and a gap of 2 ms. *)
EXTENDS AirtimePolicy
=============================================================================
