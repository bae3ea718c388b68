------------------------------ MODULE AtomicFile ------------------------------
(***************************************************************************)
(* What the session relies on when it saves its settings: one file that    *)
(* holds one whole value at any time, before and after a power loss, and   *)
(* an answer that says which.                                              *)
(***************************************************************************)
CONSTANTS Values, None

VARIABLES
  current,     \* what load returns now
  possible,    \* what load may return after a power loss
  saving,      \* the value of the save under way, or None
  replaced,    \* that save has replaced the file
  answer       \* what the last save returned

vars == <<current, possible, saving, replaced, answer>>

Init ==
  /\ current \in Values \cup {None} /\ possible = {current}
  /\ saving = None /\ replaced = FALSE /\ answer = "none"

Begin(v) ==
  /\ saving = None
  /\ saving' = v /\ replaced' = FALSE /\ answer' = "none"
  /\ UNCHANGED <<current, possible>>

Replace ==
  /\ saving # None /\ ~replaced
  /\ current' = saving /\ possible' = possible \cup {saving}
  /\ replaced' = TRUE
  /\ UNCHANGED <<saving, answer>>

Harden ==
  /\ possible' = {current}
  /\ UNCHANGED <<current, saving, replaced, answer>>

\* A save that succeeds leaves nothing but its value; one that fails says
\* whether the file was replaced.
Return ==
  /\ saving # None
  /\ \/ replaced /\ possible = {saving} /\ answer' = "saved"
     \/ answer' = IF replaced THEN "failed_replaced" ELSE "failed"
  /\ saving' = None /\ replaced' = FALSE
  /\ UNCHANGED <<current, possible>>

\* A save that does not begin.
Refuse ==
  /\ saving = None /\ answer' = "failed"
  /\ UNCHANGED <<current, possible, saving, replaced>>

Stop ==
  /\ saving' = None /\ replaced' = FALSE /\ answer' = "none"
  /\ UNCHANGED <<current, possible>>

PowerLoss ==
  /\ current' \in possible /\ possible' = {current'}
  /\ saving' = None /\ replaced' = FALSE /\ answer' = "none"

Next == \/ \E v \in Values : Begin(v)
        \/ Replace \/ Harden \/ Return \/ Refuse \/ Stop \/ PowerLoss

Spec == Init /\ [][Next]_vars
=============================================================================
