--------------------------- MODULE MCSettingsStore ---------------------------
(***************************************************************************)
(* Two records, each written by up to two calls.                           *)
(***************************************************************************)
EXTENDS SettingsStore
=============================================================================
