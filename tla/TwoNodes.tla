------------------------------ MODULE TwoNodes ------------------------------
(***************************************************************************)
(* Two nodes on the air: the scheduler of one (Scheduler) and the inbound  *)
(* side of the other (Ingress), joined by a channel that loses, repeats    *)
(* and reorders frames within a tick.  The steady clocks of both run at    *)
(* the same rate, and a constant time in flight would shift the receiver's *)
(* ticks alike, so one clock and no time in flight stand for both.         *)
(*                                                                         *)
(* The window of the receiver and the deadline of the sender are the same  *)
(* 60 s in two unrelated headers (kReassemblyTimeoutTicks,                 *)
(* kOutboundDeadlineTicks).  What that buys is stated here.                *)
(***************************************************************************)
EXTENDS Scheduler

CONSTANTS Tags, KeyOf, Garbage,                       \* as in Ingress
          QueueCapacity, SlotCapacity, RecentCapacity, QuarantineCapacity,
          Timeout

VARIABLES stopped, queue, recent, slots, quarantine, stored, barred,
          handed,   \* the posts the session has handed to the scheduler
          airborne, \* the frames on the air at this tick
          \* History, per post: the fragments on which the transport failed,
          \* and those heard since the receiver started and last turned the
          \* post away.
          doubtful, heard

\* The sender's own frames decode to the post they were cut from.
In == INSTANCE Ingress WITH Posts <- Msgs, Count <- Fragments, Undecodable <- {}

receiver == <<stopped, queue, recent, slots, quarantine, stored, barred>>
nodes == <<vars, receiver, handed, airborne, doubtful, heard>>

ASSUME TwoNodesAssumption ==
  \* One sender: its sequence tells its posts apart (Session's
  \* SequenceNeverReused), so no two posts share a key.
  /\ \A m, n \in Msgs : KeyOf[m] = KeyOf[n] => m = n
  \* What decode_frame refuses is no frame of a post.
  /\ Garbage \cap In!Frames = {}
  /\ {SlotCapacity, RecentCapacity} \subseteq Nat \ {0}
  \* transmission_scheduler.h:22, reassembler.h:24
  /\ Timeout = OutboundDeadline

TwoInit ==
  /\ Init /\ In!Init /\ now = 0
  /\ handed = {} /\ airborne = {}
  /\ doubtful = [m \in Msgs |-> {}] /\ heard = [m \in Msgs |-> {}]

-----------------------------------------------------------------------------
\* enqueue_queued_posts: a post is handed over once (Session, HandedOnce).
Hand(m) ==
  /\ m \notin handed
  /\ Enqueue(m)
  /\ handed' = handed \cup {m}
  /\ UNCHANGED <<receiver, airborne, doubtful, heard>>

\* The frame that pump offers.
FrontFrame == [post |-> Front.id, index |-> Front.fragment_index]

\* pump_outbound: what the transport accepts is on the air.
Transmit ==
  /\ PumpAccepted
  /\ airborne' = airborne \cup {FrontFrame}
  /\ UNCHANGED <<receiver, handed, doubtful, heard>>

\* The hardware fails in try_send, which closes the transport and answers
\* Disconnected.  The frame may be on the air all the same: SetTx was written,
\* the wait for BUSY after it failed, and so did the shutdown that should have
\* put the radio to sleep (CapLora, WriteFails and Shutdown).
TransmitFails ==
  /\ PumpBackpressure /\ closed'
  /\ airborne' \in {airborne, airborne \cup {FrontFrame}}
  /\ doubtful' = [doubtful EXCEPT ![Front.id] = @ \cup {Front.fragment_index}]
  /\ UNCHANGED <<receiver, handed, heard>>

\* Every other way out of the scheduler's pump.
SenderPump ==
  /\ \/ PumpExpired \/ PumpClosed \/ PumpSkip
     \/ \E t \in Ticks : PumpDeferred(t)
     \/ PumpRefused \/ PumpBackpressure \/ PumpSendError
  /\ UNCHANGED <<receiver, handed, airborne, doubtful, heard>>

\* RadioRuntime::stop of the sender.
SenderStops == CancelAll /\ UNCHANGED <<receiver, handed, airborne, doubtful, heard>>

\* The transport closes between two pumps.
SenderCloses ==
  CloseTransport /\ UNCHANGED <<receiver, handed, airborne, doubtful, heard>>

\* Both pump in the same tick as often as it takes: pump_inbound takes from
\* the queue all it has put there.  What is on the air is gone with the tick.
Tick ==
  /\ queue = << >>
  /\ AdvanceClock
  /\ airborne' = {}
  /\ UNCHANGED <<receiver, handed, doubtful, heard>>

\* pump_inbound receives a frame; a frame may be missed or come twice.
Hear(f) ==
  /\ queue = << >>
  /\ In!Enqueue(f)
  /\ heard' = IF f \in Garbage THEN heard ELSE [heard EXCEPT ![f.post] = @ \cup {f.index}]
  /\ UNCHANGED <<vars, handed, airborne, doubtful>>

\* pump_inbound processes it.
ReceiverPump ==
  /\ queue # << >>
  /\ \/ In!ProcessStale \/ In!ProcessRecentDuplicate \/ In!ProcessMalformed
     \/ In!ProcessQuarantined
     \/ In!ProcessDuplicateFragment \/ In!ProcessConflict
     \/ In!ProcessFragmentAccepted \/ In!ProcessInvalidPost \/ In!ProcessCommitted
  /\ UNCHANGED <<vars, handed, airborne, doubtful, heard>>

\* No slot is free for the frame, or the session refuses the completed post:
\* it has to be heard again.
ReceiverTurnsAway ==
  /\ In!ProcessCapacityExceeded \/ In!ProcessNotCommitted
  /\ heard' = [heard EXCEPT ![In!Taken.post] = {}]
  /\ UNCHANGED <<vars, handed, airborne, doubtful>>

\* process_next on an empty queue expires slots and keys.
ReceiverIdles ==
  In!ProcessEmpty /\ UNCHANGED <<vars, handed, airborne, doubtful, heard>>

\* The receiver stops and starts again: what it stored stays.
ReceiverStops ==
  /\ In!Stop /\ heard' = [m \in Msgs |-> {}]
  /\ UNCHANGED <<vars, handed, airborne, doubtful>>

ReceiverStarts ==
  /\ stopped /\ stopped' = FALSE
  /\ UNCHANGED <<queue, recent, slots, quarantine, stored, barred>>
  /\ UNCHANGED <<vars, handed, airborne, doubtful, heard>>

TwoNext ==
  \/ \E m \in Msgs : Hand(m)
  \/ Transmit
  \/ TransmitFails
  \/ SenderPump
  \/ SenderStops
  \/ SenderCloses
  \/ Tick
  \/ \E f \in airborne \cup Garbage : Hear(f)
  \/ ReceiverPump
  \/ ReceiverTurnsAway
  \/ ReceiverIdles
  \/ ReceiverStops
  \/ ReceiverStarts

TwoSpec == TwoInit /\ [][TwoNext]_nodes

-----------------------------------------------------------------------------
\* The fragments of a post that may have left the sender: its transport
\* accepted them or failed on them.
Left(m) == accepted[m] \cup doubtful[m]

\* Not Broadcast and never to be, yet nothing of it is missing for certain: the
\* transport failed when it had the last fragment in its hands.  The post is
\* still Queued then and Failed with the next pump.
InDoubt(m) == outcome[m] # "Broadcast" /\ Indices(m) \subseteq Left(m)

Status ==
  [m \in Msgs |->
     IF InDoubt(m) THEN "Doubtful"
     ELSE CASE outcome[m] # "None" -> outcome[m]
            [] outcome[m] = "None" /\ m \notin handed -> "New"
            [] outcome[m] = "None" /\ m \in handed /\ Queued(m) -> "Queued"
            [] OTHER -> "Cancelled"]

Whole(m) == [i \in Indices(m) |-> m]

\* The posts stored; a content that is no whole post stands for itself.
Reached ==
  {IF c[0] \in Msgs /\ c = Whole(c[0]) THEN c[0] ELSE c : c \in stored}

Promise == INSTANCE Delivery WITH status <- Status, reached <- Reached

\* Both ends together keep the promise of Delivery: whatever is lost,
\* repeated, deferred, cancelled or restarted, the receiver stores only whole
\* posts, and only ones that the sender's scheduler has reported Broadcast or
\* that are in doubt.  So a post shown as Failed is nowhere, unless the
\* transport failed on the only fragment it had not accepted yet, which may
\* have been sent all the same (transmission_scheduler.cpp:96-220 fails a post
\* only while one of its fragments was never accepted;
\* linux_cap_lora_1262_radio.cpp:236-239, 651-653 fails after SetTx;
\* reassembler.cpp:196-217 completes a post only with all fragments).
KeepsPromise == Promise!Spec

\* The repeat pass fills the holes of the first one: a receiver that has heard
\* every fragment of a post at least once, in whichever pass, since it last
\* turned the post away (no slot for a frame, or the session refused it) or
\* started, has stored the post.  The slot opened by the first fragment outlives
\* the last possible offer, because the window of reassembler.cpp:160-162 is as
\* long as the deadline of transmission_scheduler.cpp:80.
EitherPassCompletes ==
  \A m \in Msgs :
    heard[m] = Indices(m) /\ queue = << >> => m \in Reached

=============================================================================
