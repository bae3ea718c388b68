----------------------------- MODULE LanRuntime ------------------------------
(***************************************************************************)
(* The main loop of app/app.cpp with app/radio_runtime pumping a post over *)
(* the Wi-Fi LAN: the UDP transport and socket of adapters/network, whose  *)
(* view of the link is cached, under a link that is lost, comes back and   *)
(* roams between any two calls.                                            *)
(*                                                                         *)
(* Posts are one frame long and the transmission scheduler is reduced to   *)
(* what that leaves of it; timers count down.                              *)
(***************************************************************************)
EXTENDS Integers, Sequences, FiniteSets, SequencesExt

CONSTANTS
  Posts,
  Nets,          \* subnets the interface may have an address in
  Down,          \* no address
  Cut,           \* an address, but the network is unreachable
  Faults,        \* what may go wrong besides the link
  CacheTicks,    \* connected() believes its last answer (500 ms)
  DeadlineTicks, \* kOutboundDeadlineTicks
  RepeatTicks,   \* pause before the second pass
  MaxPending,    \* kMaximumOutboundMessages
  MaxWork,       \* kMaximumRadioWorkPerPump
  MaxFiltered,   \* kMaximumFilteredReceivesPerCall
  MaxArrivals    \* bound: datagrams that come in

ASSUME LanAssumption ==
  /\ Down \notin Nets /\ Cut \notin Nets /\ Down # Cut
  /\ Faults \subseteq {"WouldBlock", "Failed", "Deferred", "Random", "Storage"}
  /\ {CacheTicks, DeadlineTicks, RepeatTicks, MaxPending, MaxWork, MaxFiltered}
       \subseteq Nat \ {0}
  /\ MaxArrivals \in Nat /\ IsFiniteSet(Posts)

VARIABLES
  link,              \* the subnet, Down or Cut
  inbox, arrived,    \* datagrams in the kernel, and how many came
  open, closed,      \* the descriptor; the transport gave up
  cached, age,       \* interface_connected and the time since it was checked
  posts,             \* delivery state of each post in the timeline
  session,           \* ready, or recovery after a failed save
  pending,           \* the scheduler's queue
  sent,              \* posts whose frame the socket took
  pc, work, filtered,\* where the loop is, datagrams received and filtered
  shown              \* transport status on the screen

env == <<link, inbox, arrived>>
socket == <<open, closed, cached, age>>
book == <<posts, session, pending, sent>>
loop == <<pc, work, filtered, shown>>
vars == <<env, socket, book, loop>>

\* From a peer, from this device, from another port, or too long.
Datagram == [net : Nets, kind : {"peer", "own", "port", "long"}]

Links == Nets \cup {Down, Cut}

Init ==
  /\ link \in Links /\ inbox = <<>> /\ arrived = 0
  /\ open = FALSE /\ closed = FALSE /\ cached = FALSE /\ age = CacheTicks
  /\ posts = [p \in Posts |-> "none"]
  /\ session = "ready" /\ pending = <<>> /\ sent = {}
  /\ pc = "start" /\ work = 0 /\ filtered = 0 /\ shown = "Offline"

-----------------------------------------------------------------------------
(* The world. *)

LinkChange ==
  /\ link' \in Links \ {link}
  /\ UNCHANGED <<inbox, arrived, socket, book, loop>>

Arrive(d) ==
  /\ link \in Nets /\ arrived < MaxArrivals /\ open
  /\ inbox' = Append(inbox, d) /\ arrived' = arrived + 1
  /\ UNCHANGED <<link, socket, book, loop>>

\* The user posts from the key handler, which lv_timer_handler calls.
Compose(p) ==
  /\ pc = "idle" /\ session = "ready" /\ posts[p] = "none"
  /\ posts' = [posts EXCEPT ![p] = "Queued"]
  /\ UNCHANGED <<env, socket, session, pending, sent, loop>>

Less(n) == IF n = 0 THEN 0 ELSE n - 1

Tick ==
  /\ pc = "idle"
  /\ age' = IF age = CacheTicks THEN age ELSE age + 1
  /\ pending' = [i \in DOMAIN pending |->
       [pending[i] EXCEPT !.wait = Less(@), !.left = Less(@)]]
  /\ UNCHANGED <<env, open, closed, cached, posts, session, sent, loop>>

-----------------------------------------------------------------------------
(* UDP transport and socket. *)

\* connected() of the transport and of the socket.
Stale == open /\ age = CacheTicks
Connected == open /\ (IF Stale THEN link # Down ELSE cached)

CheckLink ==
  IF Stale THEN cached' = (link # Down) /\ age' = 0
  ELSE UNCHANGED <<cached, age>>

LinkLost == cached' = FALSE /\ age' = 0

\* fail_closed, close
FailClosed == closed' = TRUE /\ open' = FALSE

-----------------------------------------------------------------------------
(* The pump. *)

\* The start of run(): the socket is made, or there is no radio.
Start ==
  /\ pc = "start"
  /\ \/ open' = TRUE /\ cached' = (link # Down) /\ age' = 0 /\ pc' = "idle"
        /\ shown' = IF link # Down THEN "WifiLan" ELSE "Offline"
     \/ pc' = "no_radio" /\ UNCHANGED <<open, cached, age, shown>>
  /\ UNCHANGED <<env, closed, book, work, filtered>>

\* A link loss keeps the work queued; a closed transport must fail it.
Mutant_PumpRuns == session = "ready" /\ Connected
PumpRuns == session = "ready" /\ (Connected \/ closed)

PumpBegin ==
  /\ pc = "idle"
  /\ IF session = "ready" THEN CheckLink ELSE UNCHANGED <<cached, age>>
  /\ pc' = IF PumpRuns THEN "enqueue" ELSE "status"
  /\ UNCHANGED <<env, open, closed, book, work, filtered, shown>>

Queued == {p \in Posts : posts[p] = "Queued"}
Held == {pending[i].post : i \in DOMAIN pending}

\* mark_broadcast, mark_failed: only a queued post, and the save may fail; a
\* session that needs recovery saves nothing.
Mark(p, state) ==
  IF posts[p] # "Queued" \/ session # "ready" THEN UNCHANGED <<posts, session>>
  ELSE \/ posts' = [posts EXCEPT ![p] = state] /\ UNCHANGED session
       \/ "Storage" \in Faults /\ session' = "recovery" /\ UNCHANGED posts

Fresh(p) == [post |-> p, offers |-> 0, wait |-> 0, left |-> DeadlineTicks,
             repeat |-> FALSE]

\* enqueue_queued_posts on an open transport.
EnqueueQueued ==
  /\ pc = "enqueue" /\ ~closed
  /\ LET new == SetToSeq(Queued \ Held)
         room == MaxPending - Len(pending)
         taken == IF Len(new) > room THEN SubSeq(new, 1, room) ELSE new
     IN pending' = pending \o [i \in DOMAIN taken |-> Fresh(taken[i])]
  /\ pc' = "outbound"
  /\ UNCHANGED <<env, socket, posts, session, sent, work, filtered, shown>>

\* The random source fails at one post.  Its failure changes the timeline, so
\* the loop over it ends; when that is not saved the loop goes on.
EnqueueFails ==
  /\ pc = "enqueue" /\ ~closed /\ "Random" \in Faults
  /\ \E taken \in SUBSET (Queued \ Held), p \in Queued \ Held :
       /\ p \notin taken /\ Len(pending) < MaxPending
       /\ pending' = pending \o [i \in 1 .. Cardinality(taken) |->
                                  Fresh(SetToSeq(taken)[i])]
       /\ Mark(p, "Failed")
       /\ Len(pending) + Cardinality(taken)
            <= IF session' = "ready" THEN MaxPending - 1 ELSE MaxPending
  /\ pc' = "outbound"
  /\ UNCHANGED <<env, socket, sent, work, filtered, shown>>

\* The datagram size of a closed transport is zero, so enqueue refuses the
\* first queued post, held or not.
EnqueueClosed ==
  /\ pc = "enqueue" /\ closed
  /\ IF Queued = {} THEN UNCHANGED <<posts, session>>
     ELSE \E p \in Queued : Mark(p, "Failed")
  /\ pc' = "outbound"
  /\ UNCHANGED <<env, socket, pending, sent, work, filtered, shown>>

Foremost == Head(pending)

OutboundWaits ==
  /\ pc = "outbound"
  /\ pending # <<>> => Foremost.wait > 0 /\ Foremost.left > 0
  /\ pc' = "inbound" /\ work' = 0 /\ filtered' = 0
  /\ UNCHANGED <<env, socket, book, shown>>

\* The front leaves; its first pass fails the post, its second does not.
DropFront ==
  /\ pending' = Tail(pending)
  /\ IF Foremost.repeat THEN UNCHANGED <<posts, session>>
     ELSE Mark(Foremost.post, "Failed")

OutboundEnds ==
  /\ pc = "outbound" /\ pending # <<>>
  /\ \/ Foremost.left = 0
     \/ Foremost.wait = 0 /\ closed
     \/ Foremost.wait = 0 /\ Foremost.repeat /\ Foremost.offers = 2
  /\ DropFront
  /\ pc' = "inbound" /\ work' = 0 /\ filtered' = 0
  /\ UNCHANGED <<env, socket, sent, shown>>

Offering ==
  /\ pc = "outbound" /\ pending # <<>>
  /\ Foremost.wait = 0 /\ Foremost.left > 0 /\ ~closed
  /\ ~(Foremost.repeat /\ Foremost.offers = 2)
  /\ pc' = "inbound" /\ work' = 0 /\ filtered' = 0
  /\ UNCHANGED <<env, shown>>

Deferred ==
  /\ Offering /\ "Deferred" \in Faults
  /\ pending' = [pending EXCEPT ![1].wait = 1]
  /\ UNCHANGED <<socket, posts, session, sent>>

OfferRefused ==
  IF Foremost.offers + 1 >= 2 THEN DropFront
  ELSE /\ pending' = [pending EXCEPT ![1].wait = 1, ![1].offers = @ + 1]
       /\ UNCHANGED <<posts, session>>

\* The link is lost when the frame is offered, whatever connected() said.
SendDisconnected ==
  /\ Offering /\ link \notin Nets
  /\ LinkLost /\ OfferRefused
  /\ UNCHANGED <<open, closed, sent>>

SendWouldBlock ==
  /\ Offering /\ link \in Nets /\ "WouldBlock" \in Faults
  /\ OfferRefused
  /\ UNCHANGED <<socket, sent>>

SendFailed ==
  /\ Offering /\ link \in Nets /\ "Failed" \in Faults
  /\ FailClosed /\ OfferRefused
  /\ UNCHANGED <<cached, age, sent>>

Accepted ==
  IF Foremost.repeat THEN pending' = Tail(pending) /\ UNCHANGED <<posts, session>>
  ELSE /\ pending' = [pending EXCEPT ![1].repeat = TRUE, ![1].wait = RepeatTicks,
                                     ![1].offers = @ + 1]
       /\ Mark(Foremost.post, "Broadcast")

SendAccepted ==
  /\ Offering /\ link \in Nets
  /\ Accepted
  /\ sent' = sent \cup {Foremost.post}
  /\ UNCHANGED socket

-----------------------------------------------------------------------------
(* pump_inbound: recvfrom by recvfrom. *)

Filtered(d) == d.net # link \/ d.kind = "own"

\* recvfrom takes the datagram from the kernel even when it is too long.
Taken == Tail(inbox)

Receive ==
  /\ pc = "inbound" /\ ~closed /\ inbox # <<>> /\ link # Cut
  /\ inbox' = Taken
  /\ LET d == Head(inbox) IN
     IF d.kind = "long"
     THEN pc' = "status" /\ UNCHANGED <<work, filtered, cached, age>>
     ELSE IF d.kind # "port" /\ link = Down
     THEN pc' = "status" /\ LinkLost /\ UNCHANGED <<work, filtered>>
     ELSE IF d.kind = "port" \/ Filtered(d)
     THEN /\ filtered' = filtered + 1
          /\ pc' = IF filtered' = MaxFiltered THEN "status" ELSE "inbound"
          /\ UNCHANGED <<work, cached, age>>
     ELSE /\ work' = work + 1 /\ filtered' = 0
          /\ pc' = IF work' = MaxWork THEN "status" ELSE "inbound"
          /\ UNCHANGED <<cached, age>>
  /\ UNCHANGED <<link, arrived, open, closed, book, shown>>

ReceiveEnds ==
  /\ pc = "inbound" /\ (closed \/ (inbox = <<>> /\ link # Cut)) /\ pc' = "status"
  /\ UNCHANGED <<env, socket, book, work, filtered, shown>>

ReceiveDisconnected ==
  /\ pc = "inbound" /\ ~closed /\ link = Cut
  /\ LinkLost /\ pc' = "status"
  /\ UNCHANGED <<env, open, closed, book, work, filtered, shown>>

ReceiveFailed ==
  /\ pc = "inbound" /\ ~closed /\ "Failed" \in Faults
  /\ FailClosed /\ pc' = "status"
  /\ UNCHANGED <<env, cached, age, book, work, filtered, shown>>

-----------------------------------------------------------------------------
\* The end of one turn of the loop: the screen follows ready().
ShowStatus ==
  /\ pc = "status" /\ pc' = "idle"
  /\ shown' = IF Connected THEN "WifiLan" ELSE "Offline"
  /\ CheckLink
  /\ UNCHANGED <<env, open, closed, book, work, filtered>>

\* request_stop: stop() cancels the scheduler and closes the transport.
Mutant_Stop ==
  /\ pc = "idle" /\ pc' = "stopped"
  /\ pending' = <<>> /\ FailClosed
  /\ posts' = [p \in Posts |-> IF p \in Held THEN "Failed" ELSE posts[p]]
  /\ UNCHANGED <<env, cached, age, session, sent, work, filtered, shown>>
Stop ==
  /\ pc = "idle" /\ pc' = "stopped"
  /\ pending' = <<>> /\ FailClosed
  /\ UNCHANGED <<env, cached, age, posts, session, sent, work, filtered, shown>>

Loop ==
  \/ Start \/ PumpBegin \/ EnqueueQueued \/ EnqueueFails \/ EnqueueClosed
  \/ OutboundWaits \/ OutboundEnds \/ Deferred
  \/ SendDisconnected \/ SendWouldBlock \/ SendFailed \/ SendAccepted
  \/ Receive \/ ReceiveEnds \/ ReceiveDisconnected
  \/ ReceiveFailed \/ ShowStatus

Over == pc \in {"stopped", "no_radio"} /\ UNCHANGED vars

Next ==
  \/ LinkChange \/ (\E d \in Datagram : Arrive(d)) \/ (\E p \in Posts : Compose(p))
  \/ Tick \/ Loop \/ Stop \/ Over

\* The main loop turns, and time passes while it sleeps.
Spec == Init /\ [][Next]_vars /\ WF_vars(Loop) /\ SF_vars(Tick)

-----------------------------------------------------------------------------

\* A post that is Failed was never on the air, and one that is Broadcast was;
\* stopping leaves what was sent and not recorded Queued (radio_runtime.cpp
\* 73-81, 118-141).
SentMatchesState ==
  \A p \in Posts : /\ posts[p] = "Failed" => p \notin sent
                   /\ posts[p] = "Broadcast" => p \in sent

Running == pc \notin {"start", "stopped", "no_radio"} /\ session = "ready"
Stable == Running /\ open /\ link \in Nets

\* No queued post waits for ever.  A transport that gave up fails them all, and
\* the early return on a lost link does not swallow that (radio_runtime.cpp
\* 61-67); on a link that stays up every one is concluded, whatever losses came
\* before (87-141, posix_udp_broadcast_socket.cpp 164-181).
QueuedConcludes ==
  /\ closed /\ Running ~> Queued = {} \/ ~Running
  /\ <>[]Stable => <>[](Queued = {})

=============================================================================
