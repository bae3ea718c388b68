------------------------------ MODULE Delivery ------------------------------
(***************************************************************************)
(* What one broadcast promises, seen from both ends: the sender is told    *)
(* what became of each post it handed to the radio, and a receiver ends up *)
(* with some of the posts.  Nothing is acknowledged, so Broadcast does not *)
(* say that anyone received the post; but the receiver has nothing that    *)
(* was not sent, and nothing the sender was told had failed.  One outcome  *)
(* is in between: a radio that fails while it has the last frame of a post *)
(* may or may not have sent it.  The sender is told Failed afterwards; the *)
(* specification keeps this case apart as Doubtful.                        *)
(***************************************************************************)
CONSTANT Msgs

VARIABLES status,   \* what the sender knows of each post
          reached   \* the posts the receiver has stored

vars == <<status, reached>>

Init == status = [m \in Msgs |-> "New"] /\ reached = {}

\* The radio takes the post.
Hand(m) ==
  /\ status[m] = "New" /\ status' = [status EXCEPT ![m] = "Queued"]
  /\ UNCHANGED reached

\* The sender learns the outcome.  A post that fails without doubt, or whose
\* transmission is cancelled when the program stops, has not reached anyone and
\* never will.
Conclude(m, s) ==
  /\ status[m] = "Queued" /\ status' = [status EXCEPT ![m] = s]
  /\ UNCHANGED reached

\* stop cancels everything that waits, at once.
CancelAll ==
  /\ status' = [m \in Msgs |-> IF status[m] = "Queued" THEN "Cancelled" ELSE status[m]]
  /\ UNCHANGED reached

\* The receiver stores a post, or stores it again; only one that was sent or
\* may have been.
Reach(m) ==
  /\ status[m] \in {"Broadcast", "Doubtful"} /\ reached' = reached \cup {m}
  /\ UNCHANGED status

Next ==
  \/ \E m \in Msgs : Hand(m) \/ Reach(m)
  \/ \E m \in Msgs, s \in {"Broadcast", "Failed", "Doubtful"} : Conclude(m, s)
  \/ CancelAll

Spec == Init /\ [][Next]_vars
=============================================================================
