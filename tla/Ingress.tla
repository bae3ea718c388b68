------------------------------- MODULE Ingress -------------------------------
(***************************************************************************)
(* protocol/reassembler: the bounded inbound side of the radio runtime.    *)
(* InboundFrameQueue holds received datagrams (enqueue), takes one at a    *)
(* time (process_next), suppresses the frames of posts that are committed  *)
(* already (recent_) and puts the others together in the slots of          *)
(* Reassembler; a key on which two fragments disagree is quarantined.      *)
(* RadioRuntime::pump_inbound hands a completed post to the session and    *)
(* calls mark_committed when the session says Accepted or Duplicate.       *)
(*                                                                         *)
(* process_next is split into one action per status it returns.  A post is *)
(* an opaque value cut into Count[p] fragments under the key KeyOf[p], the *)
(* pair (message tag, sender sequence) its frames carry; the tag is the    *)
(* first half of the message ID, so two posts may share a key.  Fragments  *)
(* of different posts have different bytes.  Garbage stands for every      *)
(* datagram that decode_frame refuses: short, corrupt, wrong geometry.     *)
(***************************************************************************)
EXTENDS Integers, Sequences, SequencesExt, FiniteSets

CONSTANTS
  Posts, Tags, Count, KeyOf,
  Garbage,
  Undecodable,        \* posts whose whole bytes decode_post refuses, or whose
                      \* message ID is not of the key in their frames
  QueueCapacity,      \* kMaximumInboundFrames
  SlotCapacity,       \* kMaximumReassemblies
  RecentCapacity,     \* kMaximumRecentFrames
  QuarantineCapacity, \* kMaximumQuarantinedKeys
  Timeout,            \* kReassemblyTimeoutTicks
  MaxTick             \* numeric_limits<uint64_t>::max()

Keys == [tag : Tags, seq : Nat \ {0}]
Ticks == 0 .. MaxTick

ASSUME IngressAssumption ==
  /\ Count \in [Posts -> Nat \ {0}]
  /\ KeyOf \in [Posts -> Keys]
  /\ {QueueCapacity, SlotCapacity, RecentCapacity, QuarantineCapacity}
       \subseteq Nat \ {0}
  /\ MaxTick \in Nat
  /\ Timeout \in Ticks \ {0}

UsedKeys == {KeyOf[p] : p \in Posts}

\* The datagrams of a post, and those that are no frame.
Frames == UNION {[post : {p}, index : 0 .. Count[p] - 1] : p \in Posts}

VARIABLES
  now,        \* the tick the next call is made at; never decreases
  stopped,    \* stopped_
  queue,      \* queue_
  recent,     \* recent_, least recently used first
  slots,      \* the used slots_ of the reassembler
  quarantine, \* quarantine_, oldest first
  stored,     \* the post contents the session has committed
  \* History: until when a key on which fragments disagreed is barred.
  barred

vars == <<now, stopped, queue, recent, slots, quarantine, stored, barred>>

\* Mutation: the window ends one tick early.
Mutant_SaturatingDeadline(start, duration) ==
  IF start > MaxTick - duration THEN MaxTick ELSE start + duration - 1
SaturatingDeadline(start, duration) ==
  IF start > MaxTick - duration THEN MaxTick ELSE start + duration

DeadlineReached(deadline) == now >= deadline

\* Mutation: the sender sequence alone identifies a reassembly.
Mutant_SameKey(left, right) == left.seq = right.seq
SameKey(left, right) == left = right

(***************************************************************************)
(* A slot's parts map the fragment indices received to the posts they came *)
(* from.  heard is history: the reception ticks of those fragments.        *)
(***************************************************************************)
TypeOK ==
  /\ now \in Ticks
  /\ stopped \in BOOLEAN
  /\ queue \in Seq([datagram : Frames \cup Garbage, tick : Ticks])
  /\ recent \in Seq([frame : Frames, deadline : Ticks])
  /\ quarantine \in Seq([key : UsedKeys, deadline : Ticks])
  /\ \A s \in slots :
       /\ s.key \in UsedKeys
       /\ s.deadline \in Ticks
       /\ DOMAIN s.parts \subseteq 0 .. s.count - 1
       /\ \A i \in DOMAIN s.parts : s.parts[i] \in Posts
       /\ s.heard \subseteq Ticks
  /\ barred \in [UsedKeys -> Ticks]
  /\ Len(queue) <= QueueCapacity
  /\ Len(recent) <= RecentCapacity
  /\ Len(quarantine) <= QuarantineCapacity
  /\ Cardinality(slots) <= SlotCapacity

Init ==
  /\ now \in Ticks
  /\ stopped = FALSE
  /\ queue = << >>
  /\ recent = << >>
  /\ slots = {}
  /\ quarantine = << >>
  /\ stored = {}
  /\ barred = [k \in UsedKeys |-> 0]

-----------------------------------------------------------------------------
(***************************************************************************)
(* Helpers of the code: expiry, the recent frames, the quarantine.         *)
(***************************************************************************)
\* Mutation: expire forgets the slots.
Mutant_LiveSlots == slots
LiveSlots == {s \in slots : ~DeadlineReached(s.deadline)}

\* The entries of a deque that are not over, among the first n.
LiveAmong(entries) ==
  LET live[n \in 0 .. Len(entries)] ==
        IF n = 0 THEN << >>
        ELSE IF DeadlineReached(entries[n].deadline) THEN live[n - 1]
        ELSE Append(live[n - 1], entries[n])
  IN live

LiveQuarantine == LiveAmong(quarantine)[Len(quarantine)]

LiveRecent == LiveAmong(recent)[Len(recent)]

Quarantined(key) ==
  \E i \in 1 .. Len(LiveQuarantine) : SameKey(LiveQuarantine[i].key, key)

\* recently_committed: where a datagram is among the live entries.
RecentEntries(frame) ==
  {i \in 1 .. Len(LiveRecent) : LiveRecent[i].frame = frame}

\* Add an entry to a deque that drops its oldest element when it is full.
PushBounded(s, e, capacity) ==
  Append(IF Len(s) >= capacity THEN Tail(s) ELSE s, e)

\* quarantine(): the key is barred until the deadline its slot had.
\* Mutation: a conflict frees the slot and no more.
Mutant_Quarantine(key, deadline) ==
  /\ quarantine' = LiveQuarantine
  /\ barred' = [barred EXCEPT ![key] = deadline]
Quarantine(key, deadline) ==
  /\ quarantine' = PushBounded(LiveQuarantine,
       [key |-> key, deadline |-> deadline], QuarantineCapacity)
  /\ barred' =
       [k \in UsedKeys |->
          IF k = key THEN deadline
          ELSE IF Len(LiveQuarantine) >= QuarantineCapacity
                  /\ k = Head(LiveQuarantine).key
               THEN 0 ELSE barred[k]]

\* The frames of a complete content, in index order.
CanonicalFrames(content) ==
  [i \in 1 .. Cardinality(DOMAIN content) |->
     [post |-> content[i - 1], index |-> i - 1]]

\* One iteration of mark_committed: a frame that is there keeps its expiry.
Retain(entries, frame) ==
  IF \E r \in ToSet(entries) : r.frame = frame THEN entries
  ELSE PushBounded(entries,
         [frame |-> frame, deadline |-> SaturatingDeadline(now, Timeout)],
         RecentCapacity)

\* The first n frames retained.
RetainAll(entries, frames) ==
  LET retained[n \in 0 .. Len(frames)] ==
        IF n = 0 THEN entries ELSE Retain(retained[n - 1], frames[n])
  IN retained

MarkCommitted(content) ==
  recent' = RetainAll(LiveRecent, CanonicalFrames(content))
              [Cardinality(DOMAIN content)]

-----------------------------------------------------------------------------
(***************************************************************************)
(* The operations.                                                         *)
(***************************************************************************)

\* enqueue: a full or stopped queue drops the datagram.
Enqueue(d) ==
  /\ ~stopped
  /\ Len(queue) < QueueCapacity
  /\ queue' = Append(queue, [datagram |-> d, tick |-> now])
  /\ UNCHANGED <<now, stopped, recent, slots, quarantine, stored, barred>>

\* expire(now), at the start of process_next.
Expire ==
  /\ slots' = LiveSlots
  /\ quarantine' = LiveQuarantine

ProcessEmpty ==
  /\ ~stopped /\ queue = << >>
  /\ Expire
  /\ UNCHANGED <<now, stopped, queue, recent, stored, barred>>

\* The datagram process_next takes from the queue.
Taken == Head(queue).datagram
TakenTick == Head(queue).tick

Take ==
  /\ ~stopped /\ queue # << >>
  /\ queue' = Tail(queue)
  /\ UNCHANGED <<now, stopped>>

Stale == now - TakenTick >= Timeout

ProcessStale ==
  /\ Take /\ Stale
  /\ Expire
  /\ UNCHANGED <<recent, stored, barred>>

\* recently_committed: a hit goes to the back and keeps its expiry.
Retained(r) == r

ProcessRecentDuplicate ==
  /\ Take /\ ~Stale
  /\ \E i \in RecentEntries(Taken) :
       recent' = Append(RemoveAt(LiveRecent, i), Retained(LiveRecent[i]))
  /\ Expire
  /\ UNCHANGED <<stored, barred>>

\* The datagram goes on to decode_frame.  Mutation: without the lookup.
Mutant_Fresh == ~Stale
Fresh == ~Stale /\ RecentEntries(Taken) = {}

\* Nothing but the expiry of slots, keys and recent frames.
Discard ==
  /\ Expire
  /\ recent' = LiveRecent
  /\ UNCHANGED <<stored, barred>>

ProcessMalformed == Take /\ Fresh /\ Taken \in Garbage /\ Discard

\* The pair in the header of a frame.
Key == KeyOf[Taken.post]
Matching == {s \in LiveSlots : SameKey(s.key, Key)}
\* Mutation: one slot too many.
Mutant_Available == Cardinality(LiveSlots) <= SlotCapacity
Available == Cardinality(LiveSlots) < SlotCapacity

ToReassembler == Take /\ Fresh /\ Taken \in Frames

ProcessQuarantined == ToReassembler /\ Quarantined(Key) /\ Discard

ProcessCapacityExceeded ==
  /\ ToReassembler /\ ~Quarantined(Key)
  /\ Matching = {} /\ ~Available
  /\ Discard

\* The slots the frame may go to: the one with its key, or else a new one.
Opened ==
  [key |-> Key, count |-> Count[Taken.post],
   deadline |-> SaturatingDeadline(TakenTick, Timeout),
   parts |-> << >>, heard |-> {}]

Targets ==
  IF Quarantined(Key) THEN {}
  ELSE IF Matching # {} THEN Matching
  ELSE IF Available THEN {Opened} ELSE {}

Present(s) == Taken.index \in DOMAIN s.parts

\* Same geometry, fragment there already, same bytes.  Mutation: the repeat
\* of a fragment renews the deadline of its slot.
Mutant_Repeated(s) ==
  [s EXCEPT !.deadline = SaturatingDeadline(TakenTick, Timeout)]
Repeated(s) == s

ProcessDuplicateFragment ==
  /\ ToReassembler
  /\ \E s \in Targets :
       /\ s.count = Count[Taken.post] /\ Present(s)
       /\ s.parts[Taken.index] = Taken.post
       /\ slots' = (LiveSlots \ {s}) \cup {Repeated(s)}
  /\ quarantine' = LiveQuarantine
  /\ recent' = LiveRecent
  /\ UNCHANGED <<stored, barred>>

\* Different geometry, or different bytes for the same fragment.
ProcessConflict ==
  /\ ToReassembler
  /\ \E s \in Targets :
       /\ \/ s.count # Count[Taken.post]
          \/ Present(s) /\ s.parts[Taken.index] # Taken.post
       /\ slots' = LiveSlots \ {s}
       /\ Quarantine(Key, s.deadline)
  /\ recent' = LiveRecent
  /\ UNCHANGED stored

\* The slot after the fragment is copied into it.
Filled(s) ==
  [s EXCEPT
     !.parts = [i \in DOMAIN s.parts \cup {Taken.index} |->
                  IF i = Taken.index THEN Taken.post ELSE s.parts[i]],
     !.heard = @ \cup {TakenTick}]

\* The frame fits the slot and its fragment is new there.
Fits(s) == s.count = Count[Taken.post] /\ ~Present(s)

\* Mutation: one bit too few in complete_mask.
Mutant_Complete(s) == Cardinality(DOMAIN s.parts) >= s.count - 1
Complete(s) == DOMAIN s.parts = 0 .. s.count - 1

ProcessFragmentAccepted ==
  /\ ToReassembler
  /\ \E s \in Targets :
       /\ Fits(s) /\ ~Complete(Filled(s))
       /\ slots' = (LiveSlots \ {s}) \cup {Filled(s)}
  /\ quarantine' = LiveQuarantine
  /\ recent' = LiveRecent
  /\ UNCHANGED <<stored, barred>>

\* decode_post and the message ID it finds, against the key.  A whole post
\* fails both or neither; bytes of several posts may do either.
Mixed(content) == \E i, j \in DOMAIN content : content[i] # content[j]
MayFail(content) == Mixed(content) \/ content[0] \in Undecodable
MayDecode(content) == Mixed(content) \/ content[0] \notin Undecodable

ProcessInvalidPost ==
  /\ ToReassembler
  /\ \E s \in Targets :
       /\ Fits(s) /\ Complete(Filled(s))
       /\ MayFail(Filled(s).parts)
       /\ slots' = LiveSlots \ {s}
       /\ Quarantine(Key, s.deadline)
  /\ recent' = LiveRecent
  /\ UNCHANGED stored

\* The last fragment: the slot is freed and the content leaves it.
Completed(content) ==
  /\ ToReassembler
  /\ \E s \in Targets :
       /\ Fits(s) /\ Complete(Filled(s))
       /\ content = Filled(s).parts /\ MayDecode(content)
       /\ slots' = LiveSlots \ {s}
  /\ quarantine' = LiveQuarantine
  /\ UNCHANGED barred

Contents == {Filled(s).parts : s \in Targets}

\* The session answers Accepted or Duplicate: the post is durable.
ProcessCommitted ==
  /\ queue # << >> /\ Taken \in Frames
  /\ \E content \in Contents :
       /\ Completed(content)
       /\ stored' = stored \cup {content}
       /\ MarkCommitted(content)

\* The session answers Conflict, TimelineFull, StorageUnavailable, ...
\* Mutation: the frames are marked all the same.
Mutant_ProcessNotCommitted ==
  /\ queue # << >> /\ Taken \in Frames
  /\ \E content \in Contents :
       Completed(content) /\ MarkCommitted(content)
  /\ UNCHANGED stored
ProcessNotCommitted ==
  /\ queue # << >> /\ Taken \in Frames
  /\ \E content \in Contents : Completed(content)
  /\ recent' = LiveRecent
  /\ UNCHANGED stored

Process ==
  \/ ProcessEmpty
  \/ ProcessStale
  \/ ProcessRecentDuplicate
  \/ ProcessMalformed
  \/ ProcessQuarantined
  \/ ProcessCapacityExceeded
  \/ ProcessDuplicateFragment
  \/ ProcessConflict
  \/ ProcessFragmentAccepted
  \/ ProcessInvalidPost
  \/ ProcessCommitted
  \/ ProcessNotCommitted

Stop ==
  /\ ~stopped
  /\ stopped' = TRUE
  /\ queue' = << >>
  /\ recent' = << >>
  /\ slots' = {}
  /\ quarantine' = << >>
  /\ barred' = [k \in UsedKeys |-> 0]
  /\ UNCHANGED <<now, stored>>

AdvanceClock ==
  /\ now < MaxTick
  /\ now' = now + 1
  /\ UNCHANGED <<stopped, queue, recent, slots, quarantine, stored, barred>>

Next ==
  \/ \E d \in Frames \cup Garbage : Enqueue(d)
  \/ Process
  \/ Stop
  \/ AdvanceClock

Spec == Init /\ [][Next]_vars

\* The main loop pumps the runtime in every pass, at a later tick.
FairSpec == Spec /\ WF_vars(Process) /\ WF_vars(AdvanceClock)

-----------------------------------------------------------------------------
(***************************************************************************)
(* Properties.                                                             *)
(***************************************************************************)

(***************************************************************************)
(* A slot expires at most Timeout after each fragment it holds, the first  *)
(* one included, and after all of them: repeats of a fragment do not keep  *)
(* a reassembly alive.                                                     *)
(***************************************************************************)
FixedWindow ==
  \A s \in slots : \A t \in s.heard :
    /\ s.deadline <= SaturatingDeadline(t, Timeout)
    /\ t < s.deadline \/ s.deadline = MaxTick

(***************************************************************************)
(* What the session commits is whole: every fragment there, all under one  *)
(* key and of one geometry, whatever was interleaved, lost or repeated.    *)
(* When no two posts share a key it is exactly a post that was sent.       *)
(***************************************************************************)
CommittedWhole ==
  \A c \in stored :
    /\ DOMAIN c = 0 .. Count[c[0]] - 1
    /\ \A i \in DOMAIN c :
         KeyOf[c[i]] = KeyOf[c[0]] /\ Count[c[i]] = Count[c[0]]

(***************************************************************************)
(* mark_committed is reached only for durable posts: a frame that          *)
(* process_next drops as RecentDuplicate is a fragment of something the    *)
(* session has stored, so a post whose storing failed is heard again.      *)
(***************************************************************************)
SuppressedIsStored ==
  \A r \in ToSet(recent) :
    \E c \in stored :
      r.frame.index \in DOMAIN c /\ c[r.frame.index] = r.frame.post

(***************************************************************************)
(* No slot holds a fragment that is suppressed at the same time: repeats   *)
(* of a committed post take no slot from other posts.                      *)
(***************************************************************************)
SuppressedTakesNoSlot ==
  \A s \in slots : \A i \in DOMAIN s.parts :
    [post |-> s.parts[i], index |-> i] \notin {r.frame : r \in ToSet(recent)}

(***************************************************************************)
(* After a conflict or an undecodable content nothing is put together      *)
(* under that key before the slot would have expired, unless the bounded   *)
(* quarantine had to drop the key.                                         *)
(***************************************************************************)
QuarantineHolds == \A s \in slots : now >= barred[s.key]

(***************************************************************************)
(* Every reassembly is given up: no incomplete post, however often its     *)
(* fragments are repeated, keeps its slot for ever.  (At the last tick a   *)
(* slot expires when it is opened, and every fragment opens a new one.)    *)
(***************************************************************************)
SlotsFreed ==
  \A k \in UsedKeys, d \in 0 .. MaxTick - 1 :
    []<>(\A s \in slots : s.key # k \/ s.deadline # d)
=============================================================================
