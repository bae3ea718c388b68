------------------------------ MODULE Scheduler ------------------------------
(***************************************************************************)
(* application/transmission_scheduler: the bounded FIFO of posts waiting   *)
(* for the air.  Each post is a train of fragments.  pump() makes at most  *)
(* one transport offer for the post at the front; a first (primary) pass   *)
(* over the fragments ends in the event Broadcast, a second (repeat) pass  *)
(* is best effort.  A fragment is offered at most twice in all.            *)
(*                                                                         *)
(* pump() is split into one action per way out of it; together the actions *)
(* cover every return of the function.  The radio policy and the transport *)
(* answer nondeterministically here, within their port contracts.          *)
(***************************************************************************)
EXTENDS Integers, Sequences, FiniteSets

CONSTANTS
  Msgs,               \* message identifiers
  Fragments,          \* Fragments[m]: number of frames fragment_post yields
  MaxFragments,       \* kMaximumFragments
  MaxOutbound,        \* kMaximumOutboundMessages
  MaxTick,            \* numeric_limits<RadioTick>::max()
  OutboundDeadline,   \* kOutboundDeadlineTicks
  JitterBytes,        \* the random bytes that occur, a subset of 0..255
  InitialJitterMax, GapJitterMax, RetryDelay, RetryJitterMax,
  RepeatDelay, RepeatJitterMax, DeferDelay

Ticks == 0 .. MaxTick

ASSUME SchedulerAssumption ==
  /\ MaxFragments \in Nat \ {0}
  /\ Fragments \in [Msgs -> 1 .. MaxFragments]
  /\ MaxOutbound \in Nat \ {0}
  /\ MaxTick \in Nat
  /\ JitterBytes \subseteq 0 .. 255 /\ JitterBytes # {}
  /\ OutboundDeadline \in Ticks \ {0}
  /\ {InitialJitterMax, GapJitterMax, RetryDelay + RetryJitterMax,
      RepeatDelay + RepeatJitterMax, DeferDelay} \subseteq Ticks
  /\ {RetryDelay, RetryJitterMax, RepeatDelay, RepeatJitterMax} \subseteq Nat

VARIABLES
  now,        \* the tick the next call is made at; never decreases
  closed,     \* transport.closed(); a closed adapter reports MTU 0
  pending,    \* pending_
  \* History of the current enqueue of each message, read by properties and
  \* by the composition with the session, never by the scheduler:
  outcome,    \* the OutboundEvent returned for it
  tries,      \* how often each fragment was handed to the transport
  accepted    \* the fragments the transport accepted

vars == <<now, closed, pending, outcome, tries, accepted>>

FragmentIds == 0 .. MaxFragments - 1
Indices(m) == 0 .. Fragments[m] - 1

\* A vector with one counter per fragment, padded to MaxFragments.
Zeros == [f \in FragmentIds |-> 0]

\* The vector `jitter` drawn by enqueue has this many bytes.
Mutant_JitterCount(m) == 2 * Fragments[m]
JitterCount(m) == 2 * Fragments[m] + 2

Mutant_SaturatingAdd(value, increment) == value + increment
SaturatingAdd(value, increment) ==
  IF value > MaxTick - increment THEN MaxTick ELSE value + increment

ScaledJitter(value, inclusiveMaximum) ==
  (value * (inclusiveMaximum + 1)) \div 256

PendingMessage ==
  [id : Msgs, offer_counts : [FragmentIds -> Nat],
   fragment_index : FragmentIds, jitter_index : Nat,
   due : Ticks, deadline : Ticks, repeat_pass : BOOLEAN]

TypeOK ==
  /\ now \in Ticks
  /\ closed \in BOOLEAN
  /\ pending \in Seq(PendingMessage)
  /\ outcome \in [Msgs -> {"None", "Broadcast", "Failed"}]
  /\ tries \in [Msgs -> [FragmentIds -> Nat]]
  /\ accepted \in [Msgs -> SUBSET FragmentIds]

Init ==
  /\ now \in Ticks
  /\ closed = FALSE
  /\ pending = << >>
  /\ outcome = [m \in Msgs |-> "None"]
  /\ tries = [m \in Msgs |-> Zeros]
  /\ accepted = [m \in Msgs |-> {}]

-----------------------------------------------------------------------------
(***************************************************************************)
(* enqueue.  A full queue, a message that is pending already, a closed     *)
(* transport (MTU 0) or an unavailable random source leave the scheduler   *)
(* unchanged.  The random bytes are drawn here by the code and indexed by  *)
(* jitter_index; each byte is read at most once, so the model chooses a    *)
(* byte when it is read and keeps the index.                               *)
(***************************************************************************)
Enqueue(m) ==
  /\ ~closed
  /\ Len(pending) < MaxOutbound
  /\ \A i \in 1 .. Len(pending) : pending[i].id # m
  /\ \E b \in JitterBytes :
       pending' = Append(pending,
         [id |-> m,
          offer_counts |-> Zeros,
          fragment_index |-> 0,
          jitter_index |-> 1,
          due |-> SaturatingAdd(now, ScaledJitter(b, InitialJitterMax)),
          deadline |-> SaturatingAdd(now, OutboundDeadline),
          repeat_pass |-> FALSE])
  /\ outcome' = [outcome EXCEPT ![m] = "None"]
  /\ tries' = [tries EXCEPT ![m] = Zeros]
  /\ accepted' = [accepted EXCEPT ![m] = {}]
  /\ UNCHANGED <<now, closed>>

Front == Head(pending)

DropFront ==
  /\ pending' = Tail(pending)
  /\ UNCHANGED outcome

\* fail_front: erase the front message and return the event Failed.
FailFront ==
  /\ pending' = Tail(pending)
  /\ outcome' = [outcome EXCEPT ![Front.id] = "Failed"]

\* Before Broadcast an obstacle is a failure; in the repeat pass it only
\* ends the pass.
Mutant_GiveUpFail == FailFront
GiveUp == IF Front.repeat_pass THEN DropFront ELSE FailFront

UpdateFront(p) ==
  /\ pending' = [pending EXCEPT ![1] = p]
  /\ UNCHANGED outcome

Mutant_Expired == pending # << >> /\ now > Front.deadline
Expired == pending # << >> /\ now >= Front.deadline

\* The deadline is tested first, then due, then the transport.
Due == pending # << >> /\ now < Front.deadline /\ now >= Front.due

Mutant_Spent(p) == FALSE
Spent(p) == p.repeat_pass /\ p.offer_counts[p.fragment_index] >= 2

\* The front message reaches the radio policy with its current fragment.
Offerable == Due /\ ~closed /\ ~Spent(Front)

\* Go past a fragment of the repeat pass without having sent it.
NextRepeatFragment(p) ==
  IF p.fragment_index + 1 = Fragments[p.id]
  THEN DropFront
  ELSE UpdateFront([p EXCEPT !.fragment_index = @ + 1, !.due = now])

PumpExpired ==
  /\ Expired
  /\ GiveUp
  /\ UNCHANGED <<now, closed, tries, accepted>>

PumpClosed ==
  /\ Due /\ closed
  /\ GiveUp
  /\ UNCHANGED <<now, closed, tries, accepted>>

PumpSkip ==
  /\ Due /\ ~closed /\ Spent(Front)
  /\ NextRepeatFragment(Front)
  /\ UNCHANGED <<now, closed, tries, accepted>>

\* The policy answers Deferred with a tick, which may be in the past.
PumpDeferred(notBefore) ==
  /\ Offerable
  /\ UpdateFront([Front EXCEPT !.due =
       IF notBefore > now THEN notBefore ELSE SaturatingAdd(now, DeferDelay)])
  /\ UNCHANGED <<now, closed, tries, accepted>>

\* The policy answers Locked or Invalid.
PumpRefused ==
  /\ Offerable
  /\ GiveUp
  /\ UNCHANGED <<now, closed, tries, accepted>>

\* The front message after one more offer of its current fragment.
Offered ==
  [Front EXCEPT !.offer_counts[Front.fragment_index] = @ + 1]

CountTry ==
  tries' = [tries EXCEPT ![Front.id][Front.fragment_index] = @ + 1]

\* try_send answers Closed or Invalid.
PumpSendError ==
  /\ Offerable
  /\ GiveUp
  /\ CountTry
  /\ UNCHANGED <<now, closed, accepted>>

\* try_send answers WouldBlock or Disconnected: retry once, then fail the
\* primary pass or leave the fragment out of the repeat pass.  A transport whose
\* hardware fails in the call closes itself and answers Disconnected too.
PumpBackpressure ==
  /\ Offerable
  /\ LET p == Offered IN
       IF p.offer_counts[p.fragment_index] >= 2
       THEN IF p.repeat_pass THEN NextRepeatFragment(p) ELSE FailFront
       ELSE \E b \in JitterBytes :
              UpdateFront([p EXCEPT !.jitter_index = @ + 1, !.due =
                SaturatingAdd(now, RetryDelay + ScaledJitter(b, RetryJitterMax))])
  /\ CountTry
  /\ closed' \in BOOLEAN
  /\ UNCHANGED <<now, accepted>>

\* Mutation: the repeat pass starts one fragment early.
Mutant_LastFragment(p) == p.fragment_index + 2 >= Fragments[p.id]
LastFragment(p) == p.fragment_index + 1 = Fragments[p.id]

\* Mutation: the train stays at the fragment that was just accepted.
Mutant_Advanced(p) == [p EXCEPT !.jitter_index = @ + 1]
Advanced(p) == [p EXCEPT !.fragment_index = @ + 1, !.jitter_index = @ + 1]

\* try_send answers Accepted.
PumpAccepted ==
  /\ Offerable
  /\ LET p == Advanced(Offered)
     IN \/ /\ ~LastFragment(Front)
           /\ \E b \in JitterBytes :
                UpdateFront([p EXCEPT !.due =
                  SaturatingAdd(now, ScaledJitter(b, GapJitterMax))])
        \/ /\ LastFragment(Front) /\ ~Front.repeat_pass
           /\ \E b \in JitterBytes :
                pending' = [pending EXCEPT ![1] =
                  [p EXCEPT !.repeat_pass = TRUE, !.fragment_index = 0,
                     !.due = SaturatingAdd(now,
                        RepeatDelay + ScaledJitter(b, RepeatJitterMax))]]
           /\ outcome' = [outcome EXCEPT ![Front.id] = "Broadcast"]
        \/ /\ LastFragment(Front) /\ Front.repeat_pass
           /\ DropFront
  /\ CountTry
  /\ accepted' = [accepted EXCEPT ![Front.id] = @ \cup {Front.fragment_index}]
  /\ UNCHANGED <<now, closed>>

Pump ==
  \/ PumpExpired
  \/ PumpClosed
  \/ PumpSkip
  \/ \E t \in Ticks : PumpDeferred(t)
  \/ PumpRefused
  \/ PumpSendError
  \/ PumpBackpressure
  \/ PumpAccepted

CancelAll ==
  /\ pending # << >>
  /\ pending' = << >>
  /\ UNCHANGED <<now, closed, outcome, tries, accepted>>

\* steady_clock: the main loop calls pump again at some later tick.
AdvanceClock ==
  /\ \E t \in Ticks : t > now /\ now' = t
  /\ UNCHANGED <<closed, pending, outcome, tries, accepted>>

\* The transport closes itself on a hardware failure.
CloseTransport ==
  /\ ~closed
  /\ closed' = TRUE
  /\ UNCHANGED <<now, pending, outcome, tries, accepted>>

Next ==
  \/ \E m \in Msgs : Enqueue(m)
  \/ Pump
  \/ CancelAll
  \/ AdvanceClock
  \/ CloseTransport

Spec == Init /\ [][Next]_vars

\* The main loop calls pump on every pass and the steady clock advances.
FairSpec == Spec /\ WF_vars(Pump) /\ WF_vars(AdvanceClock)

-----------------------------------------------------------------------------
Queued(m) == \E i \in 1 .. Len(pending) : pending[i].id = m

\* However primary attempts, back-pressure retries and repeats combine, no
\* frame of a post is handed to the transport more than twice.
OffersAtMostTwice ==
  \A m \in Msgs : \A f \in Indices(m) : tries[m][f] <= 2

\* The random bytes drawn once by enqueue last for every delay the post can
\* ask for: jitter[jitter_index++] never reads past the vector.
JitterInBounds ==
  \A i \in 1 .. Len(pending) :
    pending[i].jitter_index <= JitterCount(pending[i].id)

\* The event Broadcast means that every fragment was accepted by the
\* transport.
BroadcastSound ==
  \A m \in Msgs : outcome[m] = "Broadcast" => accepted[m] = Indices(m)

\* A frame the transport has accepted is handed to it again only after all
\* frames of the post were accepted: the repeat never delays the primary.
RepeatAfterBroadcast ==
  [][\A m \in Msgs : \A f \in Indices(m) :
       f \in accepted[m] /\ tries'[m][f] > tries[m][f]
         => outcome[m] = "Broadcast"]_vars

\* A post reported Broadcast is never reported Failed afterwards, whatever
\* happens to its repeat pass.
BroadcastNeverFails ==
  [][\A m \in Msgs : outcome[m] = "Broadcast" => outcome'[m] # "Failed"]_vars

\* Every queued post leaves the queue: deferrals, back pressure and posts
\* ahead of it delay it only until its deadline.
EveryPostLeaves == \A m \in Msgs : Queued(m) ~> ~Queued(m)
=============================================================================
