-------------------------- MODULE LanRuntimeProofs ---------------------------
(***************************************************************************)
(* For every number of posts, every queue length and all timers: what the  *)
(* timeline says of a post agrees with what the socket took.               *)
(***************************************************************************)
EXTENDS LanRuntime, FiniteSetTheorems, SequenceTheorems, TLAPS

\* An entry of the scheduler's queue.
Entry == [post : Posts, offers : Int, wait : Int, left : Int, repeat : BOOLEAN]

TypeOK ==
  /\ posts \in [Posts -> {"none", "Queued", "Broadcast", "Failed"}]
  /\ pending \in Seq(Entry)
  /\ sent \subseteq Posts

\* A post is in the queue once (DuplicateMessage).
HeldOnce ==
  \A i, j \in DOMAIN pending : pending[i].post = pending[j].post => i = j

\* The first pass is still to come exactly for what was not sent, and nothing
\* in the queue of an open transport has failed.
QueueAgrees ==
  \A i \in DOMAIN pending :
    /\ pending[i].repeat <=> pending[i].post \in sent
    /\ ~closed => posts[pending[i].post] \in {"Queued", "Broadcast"}

\* What was sent is recorded, unless that could not be saved.
SentRecorded ==
  /\ session = "ready" => \A p \in sent : posts[p] = "Broadcast"
  /\ pc = "enqueue" => session = "ready"

IInv == TypeOK /\ HeldOnce /\ QueueAgrees /\ SentRecorded /\ SentMatchesState

LEMMA SetToSeqInjective ==
  ASSUME NEW S, IsFiniteSet(S)
  PROVE  /\ SetToSeq(S) \in [1 .. Cardinality(S) -> S]
         /\ \A i, j \in 1 .. Cardinality(S) :
              SetToSeq(S)[i] = SetToSeq(S)[j] => i = j
         /\ Cardinality(S) \in Nat
<1>1. ExistsBijection(1 .. Cardinality(S), S) /\ Cardinality(S) \in Nat
  BY FS_CardinalityType
<1>2. \E f \in [1 .. Cardinality(S) -> S] : IsInjective(f)
  BY <1>1 DEF ExistsBijection, Bijection, Injection, IsInjective
<1>3. SetToSeq(S) \in [1 .. Cardinality(S) -> S] /\ IsInjective(SetToSeq(S))
  BY <1>2 DEF SetToSeq
<1> QED
  BY <1>1, <1>3 DEF IsInjective

-----------------------------------------------------------------------------
(* The queue. *)

LEMMA HeldPosts ==
  ASSUME TypeOK
  PROVE  \A i \in DOMAIN pending : pending[i].post \in Posts
<1>1. \A i \in DOMAIN pending : pending[i] \in Entry
  BY DEF TypeOK
<1>2. \A e \in Entry : e.post \in Posts
  BY DEF Entry
<1> QED
  BY <1>1, <1>2

\* Both passes of a post, its wait and its offers are of one entry.
LEMMA FrontEntry ==
  ASSUME TypeOK, pending # <<>>
  PROVE  /\ 1 \in DOMAIN pending /\ Foremost = pending[1] /\ Foremost \in Entry
         /\ Foremost.post \in Posts
<1>1. /\ 1 \in DOMAIN pending /\ Foremost = pending[1]
      /\ pending[1] \in Entry
  BY DEF TypeOK, Foremost
<1>2. \A e \in Entry : e.post \in Posts
  BY DEF Entry
<1> QED
  BY <1>1, <1>2

\* An entry at the front that only waits longer, is offered again, or begins
\* its second pass.
LEMMA FrontChanged ==
  ASSUME TypeOK, pending # <<>>, NEW e \in Entry,
         pending' = [pending EXCEPT ![1] = e]
  PROVE  /\ pending' \in Seq(Entry) /\ DOMAIN pending' = DOMAIN pending
         /\ pending'[1] = e
         /\ \A i \in DOMAIN pending \ {1} : pending'[i] = pending[i]
BY DEF TypeOK

LEMMA EntryOffered ==
  ASSUME NEW e \in Entry
  PROVE  LET o == [e EXCEPT !.wait = 1, !.offers = @ + 1]
             r == [e EXCEPT !.repeat = TRUE, !.wait = RepeatTicks,
                            !.offers = @ + 1]
         IN /\ o \in Entry /\ o.post = e.post /\ o.repeat = e.repeat
            /\ r \in Entry /\ r.post = e.post /\ r.repeat = TRUE
<1>1. e.offers + 1 \in Int /\ RepeatTicks \in Int
  <2>1. e.offers \in Int
    BY DEF Entry
  <2>2. RepeatTicks \in Nat
    BY LanAssumption
  <2> QED
    BY <2>1, <2>2
<1>2. \A n, m \in Int : LET o == [e EXCEPT !.wait = m, !.offers = n] IN
        o \in Entry /\ o.post = e.post /\ o.repeat = e.repeat
  BY DEF Entry
<1>3. \A n, m \in Int :
        LET r == [e EXCEPT !.repeat = TRUE, !.wait = m, !.offers = n] IN
        r \in Entry /\ r.post = e.post /\ r.repeat = TRUE
  BY DEF Entry
<1> DEFINE O(n, m) == [e EXCEPT !.wait = m, !.offers = n]
           R(n, m) == [e EXCEPT !.repeat = TRUE, !.wait = m, !.offers = n]
<1>4. /\ \A n, m \in Int : /\ O(n, m) \in Entry /\ O(n, m).post = e.post
                           /\ O(n, m).repeat = e.repeat
      /\ \A n, m \in Int : /\ R(n, m) \in Entry /\ R(n, m).post = e.post
                           /\ R(n, m).repeat = TRUE
  BY <1>2, <1>3
<1> HIDE DEF O, R
<1>5. LET o == O(e.offers + 1, 1)
          r == R(e.offers + 1, RepeatTicks)
      IN /\ o \in Entry /\ o.post = e.post /\ o.repeat = e.repeat
         /\ r \in Entry /\ r.post = e.post /\ r.repeat = TRUE
  BY <1>1, <1>4
<1> QED
  BY <1>5, Zenon DEF O, R

LEMMA FrontDropped ==
  ASSUME TypeOK, pending # <<>>, pending' = Tail(pending)
  PROVE  /\ pending' \in Seq(Entry)
         /\ \A i \in DOMAIN pending' :
              /\ i + 1 \in DOMAIN pending /\ i + 1 # 1
              /\ pending'[i] = pending[i + 1]
BY DEF TypeOK

LEMMA FreshEntry ==
  ASSUME NEW p \in Posts
  PROVE  /\ Fresh(p) \in Entry /\ Fresh(p).post = p /\ Fresh(p).repeat = FALSE
BY LanAssumption DEF Fresh, Entry

LEMMA Joined ==
  ASSUME NEW s \in Seq(Entry), NEW t \in Seq(Entry)
  PROVE  /\ s \o t \in Seq(Entry) /\ DOMAIN (s \o t) = 1 .. Len(s) + Len(t)
         /\ \A i \in 1 .. Len(s) + Len(t) :
              (s \o t)[i] = IF i <= Len(s) THEN s[i] ELSE t[i - Len(s)]
BY ConcatProperties

\* Posts that are queued and not held, each once, behind the queue.
LEMMA Enqueued ==
  ASSUME IInv, NEW n \in Nat, NEW f, NEW q,
         \A i \in 1 .. n : f[i] \in Queued \ Held,
         \A i, j \in 1 .. n : f[i] = f[j] => i = j,
         DOMAIN q = 1 .. Len(pending) + n,
         \A i \in 1 .. Len(pending) + n :
           q[i] = IF i <= Len(pending) THEN pending[i]
                  ELSE Fresh(f[i - Len(pending)])
  PROVE  /\ \A i, j \in DOMAIN q : q[i].post = q[j].post => i = j
         /\ \A i \in DOMAIN q :
              \/ i \in DOMAIN pending /\ q[i] = pending[i]
              \/ /\ \E k \in 1 .. n : q[i].post = f[k]
                 /\ q[i].repeat = FALSE
<1>1. \A i \in 1 .. n :
        /\ Fresh(f[i]).post = f[i] /\ Fresh(f[i]).repeat = FALSE
        /\ f[i] \notin Held
  BY FreshEntry DEF Queued
<1>2. /\ Len(pending) \in Nat /\ DOMAIN pending = 1 .. Len(pending)
      /\ \A i \in DOMAIN q : i \in Int
  BY DEF IInv, TypeOK
<1>3. ASSUME NEW i \in DOMAIN q
      PROVE  \/ i \in DOMAIN pending /\ q[i] = pending[i]
             \/ /\ i - Len(pending) \in 1 .. n
                /\ q[i].post = f[i - Len(pending)]
                /\ q[i].post \notin Held
                /\ q[i].repeat = FALSE
  <2>1. CASE i <= Len(pending)
    BY <1>2, <2>1
  <2>2. CASE ~(i <= Len(pending))
    <3>1. /\ i - Len(pending) \in 1 .. n
          /\ q[i] = Fresh(f[i - Len(pending)])
      BY <1>2, <2>2
    <3> QED
      BY <1>1, <3>1
  <2> QED
    BY <2>1, <2>2
<1>4. ASSUME NEW i \in DOMAIN q, NEW j \in DOMAIN q,
             q[i].post = q[j].post
      PROVE  i = j
  <2>1. \A k \in DOMAIN pending : pending[k].post \in Held
    BY DEF Held
  <2>2. i \in Int /\ j \in Int /\ Len(pending) \in Int
    BY <1>2
  <2>3. CASE i \in DOMAIN pending /\ q[i] = pending[i]
    <3>1. q[j].post \in Held
      BY <1>4, <2>1, <2>3
    <3>2. j \in DOMAIN pending /\ q[j] = pending[j]
      BY <1>3, <3>1
    <3> QED
      BY <1>4, <2>3, <3>2 DEF IInv, HeldOnce
  <2>4. CASE q[i].post \notin Held
    <3>1. q[j].post \notin Held
      BY <1>4, <2>4
    <3>2. /\ i - Len(pending) \in 1 .. n /\ q[i].post = f[i - Len(pending)]
          /\ j - Len(pending) \in 1 .. n /\ q[j].post = f[j - Len(pending)]
      BY <1>3, <2>1, <2>4, <3>1
    <3>3. i - Len(pending) = j - Len(pending)
      BY <1>4, <3>2
    <3> QED
      BY <2>2, <3>3
  <2> QED
    BY <1>3, <2>3, <2>4
<1> QED
  BY <1>3, <1>4

LEMMA Appended ==
  ASSUME IInv, NEW n \in Nat, NEW f,
         \A i \in 1 .. n : f[i] \in Queued \ Held,
         \A i, j \in 1 .. n : f[i] = f[j] => i = j,
         pending' = pending \o [i \in 1 .. n |-> Fresh(f[i])]
  PROVE  /\ pending' \in Seq(Entry)
         /\ \A i, j \in DOMAIN pending' :
              pending'[i].post = pending'[j].post => i = j
         /\ \A i \in DOMAIN pending' :
              \/ i \in DOMAIN pending /\ pending'[i] = pending[i]
              \/ /\ \E k \in 1 .. n : pending'[i].post = f[k]
                 /\ pending'[i].repeat = FALSE
<1> DEFINE new == [i \in 1 .. n |-> Fresh(f[i])]
           q == pending \o new
<1>1. \A i \in 1 .. n : Fresh(f[i]) \in Entry
  BY FreshEntry DEF Queued
<1>2. /\ new \in Seq(Entry) /\ Len(new) = n
      /\ \A i \in 1 .. n : new[i] = Fresh(f[i])
  BY <1>1
<1>3. pending \in Seq(Entry) /\ Len(pending) \in Nat
  BY DEF IInv, TypeOK
<1> HIDE DEF new
<1>4. /\ q \in Seq(Entry) /\ DOMAIN q = 1 .. Len(pending) + n
      /\ \A i \in 1 .. Len(pending) + n :
           q[i] = IF i <= Len(pending) THEN pending[i] ELSE new[i - Len(pending)]
  BY <1>2, <1>3, Joined
<1>5. pending' = q
  BY DEF new
<1> HIDE DEF q
<1>6. \A i \in 1 .. Len(pending) + n :
        q[i] = IF i <= Len(pending) THEN pending[i]
               ELSE Fresh(f[i - Len(pending)])
  BY <1>2, <1>3, <1>4
<1>7. /\ \A i, j \in DOMAIN q : q[i].post = q[j].post => i = j
      /\ \A i \in DOMAIN q :
           \/ i \in DOMAIN pending /\ q[i] = pending[i]
           \/ /\ \E k \in 1 .. n : q[i].post = f[k]
              /\ q[i].repeat = FALSE
  BY <1>4, <1>6, Enqueued
<1>8. q \in Seq(Entry)
  BY <1>4
<1> QED
  BY <1>5, <1>7, <1>8

-----------------------------------------------------------------------------
(* Steps. *)

\* What becomes of the timeline when a post is marked.
LEMMA Marked ==
  ASSUME TypeOK, NEW p \in Posts, NEW state \in {"Failed", "Broadcast"},
         Mark(p, state)
  PROVE  /\ posts' \in [Posts -> {"none", "Queued", "Broadcast", "Failed"}]
         /\ \A q \in Posts \ {p} : posts'[q] = posts[q]
         /\ \/ posts'[p] = posts[p]
            \/ posts[p] = "Queued" /\ session = "ready" /\ posts'[p] = state
         /\ session' = "ready" => session = "ready"
         /\ session' = "ready" /\ posts[p] = "Queued" => posts'[p] = state
BY DEF TypeOK, Mark

\* A step that concerns neither the queue nor the timeline.
LEMMA Unconcerned ==
  ASSUME IInv, UNCHANGED <<posts, session, pending, sent>>, closed => closed',
         pc' = "enqueue" => session = "ready"
  PROVE  IInv'
BY DEF IInv, TypeOK, HeldOnce, QueueAgrees, SentRecorded, SentMatchesState

LEMMA ComposeKeeps ==
  ASSUME IInv, NEW p \in Posts, Compose(p)
  PROVE  IInv'
BY DEF IInv, TypeOK, HeldOnce, QueueAgrees, SentRecorded, SentMatchesState,
       Compose, socket, loop

LEMMA TickKeeps ==
  ASSUME IInv, Tick
  PROVE  IInv'
<1> DEFINE g(e) == [e EXCEPT !.wait = Less(@), !.left = Less(@)]
<1>1. \A e \in Entry :
        g(e) \in Entry /\ g(e).post = e.post /\ g(e).repeat = e.repeat
  <2>1. \A n \in Int : Less(n) \in Int
    BY DEF Less
  <2> QED
    BY <2>1 DEF Entry
<1>2. /\ pending' \in Seq(Entry) /\ DOMAIN pending' = DOMAIN pending
      /\ \A i \in DOMAIN pending : /\ pending'[i].post = pending[i].post
                                   /\ pending'[i].repeat = pending[i].repeat
  <2>1. pending \in Seq(Entry)
    BY DEF IInv, TypeOK
  <2>2. pending' = [i \in DOMAIN pending |-> g(pending[i])]
    BY DEF Tick
  <2> HIDE DEF g
  <2>3. \A i \in DOMAIN pending : pending[i] \in Entry
    BY <2>1
  <2> QED
    BY <1>1, <2>1, <2>2, <2>3
<1>3. UNCHANGED <<posts, session, sent, closed, pc>>
  BY DEF Tick, loop
<1> QED
  BY <1>2, <1>3
     DEF IInv, TypeOK, HeldOnce, QueueAgrees, SentRecorded, SentMatchesState

LEMMA EnqueueQueuedKeeps ==
  ASSUME IInv, EnqueueQueued
  PROVE  IInv'
<1> DEFINE S == Queued \ Held
           new == SetToSeq(S)
           room == MaxPending - Len(pending)
           taken == IF Len(new) > room THEN SubSeq(new, 1, room) ELSE new
<1>1. pending' = pending \o [i \in DOMAIN taken |-> Fresh(taken[i])]
  BY DEF EnqueueQueued
<1>2. IsFiniteSet(S)
  BY LanAssumption, FS_Subset DEF Queued
<1>3. /\ new \in [1 .. Cardinality(S) -> S] /\ Cardinality(S) \in Nat
      /\ \A i, j \in 1 .. Cardinality(S) : new[i] = new[j] => i = j
  BY <1>2, SetToSeqInjective
<1>4. Len(pending) \in Nat /\ room \in Int
  BY LanAssumption DEF IInv, TypeOK
<1> HIDE DEF new, room, S
<1>5. PICK n \in Nat : /\ DOMAIN taken = 1 .. n /\ n <= Cardinality(S)
                       /\ \A i \in 1 .. n : taken[i] = new[i]
  <2>1. new \in Seq(S) /\ Len(new) = Cardinality(S)
    BY <1>3
  <2>2. CASE Len(new) > room /\ room >= 1
    <3>1. \A i \in 1 .. room : new[i] \in S
      BY <1>3, <1>4, <2>1, <2>2
    <3>2. /\ SubSeq(new, 1, room) \in Seq(S)
          /\ Len(SubSeq(new, 1, room)) = room
          /\ \A i \in 1 .. room : SubSeq(new, 1, room)[i] = new[1 + i - 1]
      BY <1>4, <2>2, <3>1, SubSeqProperties
    <3>3. /\ DOMAIN taken = 1 .. room /\ room \in Nat
          /\ \A i \in 1 .. room : taken[i] = new[i]
      BY <1>4, <2>2, <3>2
    <3> QED
      BY <1>3, <1>4, <2>1, <2>2, <3>3
  <2>3. CASE Len(new) > room /\ room < 1
    <3>1. taken = <<>>
      BY <1>4, <2>1, <2>3, SubSeqEmpty
    <3> HIDE DEF taken
    <3>2. /\ DOMAIN taken = 1 .. 0 /\ 0 \in Nat /\ 0 <= Cardinality(S)
          /\ \A i \in 1 .. 0 : taken[i] = new[i]
      BY <1>3, <3>1
    <3> QED
      BY <3>2
  <2>4. CASE ~(Len(new) > room)
    BY <1>3, <2>4
  <2> QED
    BY <1>4, <2>1, <2>2, <2>3, <2>4
<1> HIDE DEF taken
<1>6. /\ UNCHANGED <<posts, session, sent, closed>> /\ pc = "enqueue"
      /\ pc' = "outbound"
  BY DEF EnqueueQueued, socket
<1>7. /\ \A i \in 1 .. n : taken[i] \in Queued \ Held
      /\ \A i, j \in 1 .. n : taken[i] = taken[j] => i = j
  <2>1. \A i \in 1 .. n : i \in 1 .. Cardinality(S) /\ taken[i] = new[i]
    BY <1>3, <1>5
  <2> QED
    BY <1>3, <2>1 DEF S
<1>a. /\ pending' \in Seq(Entry)
      /\ \A i, j \in DOMAIN pending' :
           pending'[i].post = pending'[j].post => i = j
      /\ \A i \in DOMAIN pending' :
           \/ i \in DOMAIN pending /\ pending'[i] = pending[i]
           \/ /\ \E k \in 1 .. n : pending'[i].post = taken[k]
              /\ pending'[i].repeat = FALSE
  <2>1. pending' = pending \o [i \in 1 .. n |-> Fresh(taken[i])]
    BY <1>1, <1>5
  <2> QED
    BY <1>7, <2>1, Appended
<1>8. \A k \in 1 .. n : posts[taken[k]] = "Queued" /\ taken[k] \in Posts \ sent
  BY <1>6, <1>7 DEF Queued, IInv, SentRecorded
<1> QED
  BY <1>6, <1>8, <1>a
     DEF IInv, TypeOK, HeldOnce, QueueAgrees, SentRecorded, SentMatchesState

LEMMA EnqueueFailsKeeps ==
  ASSUME IInv, EnqueueFails
  PROVE  IInv'
<1>1. PICK taken \in SUBSET (Queued \ Held), p \in Queued \ Held :
        /\ p \notin taken
        /\ pending' = pending \o [i \in 1 .. Cardinality(taken) |->
                                    Fresh(SetToSeq(taken)[i])]
        /\ Mark(p, "Failed")
  BY DEF EnqueueFails
<1>2. UNCHANGED <<sent, closed>> /\ pc = "enqueue" /\ pc' = "outbound"
  BY DEF EnqueueFails, socket
<1>3. IsFiniteSet(taken)
  BY LanAssumption, FS_Subset DEF Queued
<1> DEFINE f == SetToSeq(taken)
           n == Cardinality(taken)
<1>4. /\ f \in [1 .. n -> taken] /\ n \in Nat
      /\ \A i, j \in 1 .. n : f[i] = f[j] => i = j
  BY <1>3, SetToSeqInjective
<1>5. pending' = pending \o [i \in 1 .. n |-> Fresh(f[i])]
  BY <1>1
<1> HIDE DEF f, n
<1>6. \A i \in 1 .. n : f[i] \in taken /\ f[i] \in Queued \ Held
  BY <1>4
<1>7. /\ pending' \in Seq(Entry)
      /\ \A i, j \in DOMAIN pending' :
           pending'[i].post = pending'[j].post => i = j
      /\ \A i \in DOMAIN pending' :
           \/ i \in DOMAIN pending /\ pending'[i] = pending[i]
           \/ /\ \E k \in 1 .. n : pending'[i].post = f[k]
              /\ pending'[i].repeat = FALSE
  BY <1>4, <1>5, <1>6, Appended
<1>8. /\ p \in Posts /\ posts[p] = "Queued" /\ p \notin sent
      /\ \A i \in DOMAIN pending : pending[i].post # p
  BY <1>2 DEF Queued, Held, IInv, SentRecorded
<1>9. \A k \in 1 .. n : /\ posts[f[k]] = "Queued" /\ f[k] \in Posts \ sent
                        /\ f[k] # p
  BY <1>1, <1>2, <1>6 DEF Queued, IInv, SentRecorded
<1>10. /\ posts' \in [Posts -> {"none", "Queued", "Broadcast", "Failed"}]
       /\ \A q \in Posts \ {p} : posts'[q] = posts[q]
       /\ posts'[p] \in {"Queued", "Failed"}
       /\ session' = "ready" => session = "ready"
  BY <1>1, <1>8, Marked DEF IInv
<1>11. \A i \in DOMAIN pending : pending[i].post \in Posts
  BY HeldPosts DEF IInv
<1>12. TypeOK' /\ HeldOnce'
  BY <1>2, <1>7, <1>10 DEF IInv, TypeOK, HeldOnce
<1>13. QueueAgrees'
  <2> SUFFICES ASSUME NEW i \in DOMAIN pending'
               PROVE  /\ pending'[i].repeat <=> pending'[i].post \in sent'
                      /\ ~closed' => posts'[pending'[i].post] \in {"Queued", "Broadcast"}
    BY DEF QueueAgrees
  <2>1. CASE i \in DOMAIN pending /\ pending'[i] = pending[i]
    BY <1>2, <1>8, <1>10, <1>11, <2>1 DEF IInv, QueueAgrees
  <2>2. CASE /\ \E k \in 1 .. n : pending'[i].post = f[k]
             /\ pending'[i].repeat = FALSE
    BY <1>2, <1>9, <1>10, <2>2
  <2> QED BY <1>7, <2>1, <2>2
<1>14. SentRecorded'
  BY <1>2, <1>8, <1>10 DEF IInv, TypeOK, SentRecorded
<1>15. SentMatchesState'
  BY <1>2, <1>8, <1>10 DEF IInv, TypeOK, SentMatchesState
<1> QED
  BY <1>12, <1>13, <1>14, <1>15 DEF IInv

LEMMA EnqueueClosedKeeps ==
  ASSUME IInv, EnqueueClosed
  PROVE  IInv'
<1>1. /\ UNCHANGED <<pending, sent, closed>> /\ closed
      /\ pc = "enqueue" /\ pc' = "outbound"
  BY DEF EnqueueClosed, socket
<1>2. CASE Queued = {}
  <2>1. UNCHANGED <<posts, session>>
    BY <1>2 DEF EnqueueClosed
  <2> QED
    BY <1>1, <2>1, Unconcerned
<1>3. CASE Queued # {}
  <2>1. PICK p \in Queued : Mark(p, "Failed")
    BY <1>3 DEF EnqueueClosed
  <2>2. p \in Posts /\ posts[p] = "Queued" /\ p \notin sent
    BY <1>1 DEF Queued, IInv, SentRecorded
  <2>3. /\ posts' \in [Posts -> {"none", "Queued", "Broadcast", "Failed"}]
        /\ \A q \in Posts \ {p} : posts'[q] = posts[q]
        /\ posts'[p] \in {"Queued", "Failed"}
        /\ session' = "ready" => session = "ready"
    BY <2>1, <2>2, Marked DEF IInv
  <2> QED
    BY <1>1, <2>2, <2>3
       DEF IInv, TypeOK, HeldOnce, QueueAgrees, SentRecorded, SentMatchesState
<1> QED
  BY <1>2, <1>3

\* The front leaves the queue: only a first pass, which was never sent, fails.
LEMMA DropFrontKeeps ==
  ASSUME IInv, pending # <<>>, DropFront, sent' = sent, closed => closed',
         pc' # "enqueue"
  PROVE  IInv'
<1> DEFINE p == Foremost.post
<1>1. /\ 1 \in DOMAIN pending /\ Foremost = pending[1] /\ Foremost \in Entry
      /\ p \in Posts
  BY FrontEntry DEF IInv
<1>2. /\ pending' \in Seq(Entry)
      /\ \A i \in DOMAIN pending' :
           /\ i + 1 \in DOMAIN pending /\ i + 1 # 1
           /\ pending'[i] = pending[i + 1]
  BY FrontDropped DEF IInv, DropFront
<1>3. /\ posts' \in [Posts -> {"none", "Queued", "Broadcast", "Failed"}]
      /\ \A q \in Posts \ {p} : posts'[q] = posts[q]
      /\ \/ posts'[p] = posts[p]
         \/ posts'[p] = "Failed" /\ posts[p] = "Queued" /\ p \notin sent
      /\ session' = "ready" => session = "ready"
  <2>1. CASE Foremost.repeat
    BY <2>1 DEF DropFront, IInv, TypeOK
  <2>2. CASE ~Foremost.repeat
    <3>1. Mark(p, "Failed")
      BY <2>2 DEF DropFront
    <3>2. p \notin sent
      BY <1>1, <2>2 DEF IInv, QueueAgrees
    <3> HIDE DEF p
    <3> QED
      BY <1>1, <3>1, <3>2, Marked DEF IInv
  <2> QED
    BY <2>1, <2>2
<1>4. \A i \in DOMAIN pending' : /\ pending'[i].post \in Posts
                                 /\ pending'[i].post # p
  <2>1. \A i \in DOMAIN pending : pending[i].post \in Posts
    BY HeldPosts DEF IInv
  <2>2. \A i \in DOMAIN pending : i # 1 => pending[i].post # p
    BY <1>1 DEF IInv, HeldOnce
  <2> QED
    BY <1>2, <2>1, <2>2
<1> HIDE DEF p
<1>5. HeldOnce'
  <2> SUFFICES ASSUME NEW i \in DOMAIN pending', NEW j \in DOMAIN pending',
                      pending'[i].post = pending'[j].post
               PROVE  i = j
    BY DEF HeldOnce
  <2>1. i + 1 = j + 1
    BY <1>2 DEF IInv, HeldOnce
  <2>2. i \in Int /\ j \in Int
    BY <1>2
  <2> QED
    BY <2>1, <2>2
<1>6. QueueAgrees'
  BY <1>2, <1>3, <1>4 DEF IInv, QueueAgrees
<1> QED
  BY <1>2, <1>3, <1>5, <1>6
     DEF IInv, TypeOK, SentRecorded, SentMatchesState

\* The front stays, in the same pass.
LEMMA FrontStays ==
  ASSUME IInv, pending # <<>>, NEW e \in Entry,
         e.post = Foremost.post, e.repeat = Foremost.repeat,
         pending' = [pending EXCEPT ![1] = e],
         UNCHANGED <<posts, session, sent>>, closed => closed', pc' # "enqueue"
  PROVE  IInv'
<1>1. /\ 1 \in DOMAIN pending /\ Foremost = pending[1]
  BY FrontEntry DEF IInv
<1>2. /\ pending' \in Seq(Entry) /\ DOMAIN pending' = DOMAIN pending
      /\ \A i \in DOMAIN pending : /\ pending'[i].post = pending[i].post
                                   /\ pending'[i].repeat = pending[i].repeat
  BY <1>1, FrontChanged DEF IInv
<1> QED
  BY <1>2
     DEF IInv, TypeOK, HeldOnce, QueueAgrees, SentRecorded, SentMatchesState

LEMMA OfferRefusedKeeps ==
  ASSUME IInv, pending # <<>>, OfferRefused, sent' = sent, closed => closed',
         pc' # "enqueue"
  PROVE  IInv'
<1>1. CASE Foremost.offers + 1 >= 2
  BY <1>1, DropFrontKeeps DEF OfferRefused
<1>2. CASE ~(Foremost.offers + 1 >= 2)
  <2> DEFINE e == [Foremost EXCEPT !.wait = 1, !.offers = @ + 1]
  <2>1. /\ 1 \in DOMAIN pending /\ Foremost = pending[1] /\ Foremost \in Entry
    BY FrontEntry DEF IInv
  <2>2. e \in Entry /\ e.post = Foremost.post /\ e.repeat = Foremost.repeat
    BY <2>1, EntryOffered
  <2>3. pending' = [pending EXCEPT ![1] = e] /\ UNCHANGED <<posts, session>>
    BY <1>2, <2>1 DEF OfferRefused
  <2> HIDE DEF e
  <2> QED
    BY <2>2, <2>3, FrontStays
<1> QED
  BY <1>1, <1>2

LEMMA DeferredKeeps ==
  ASSUME IInv, Deferred
  PROVE  IInv'
<1> DEFINE e == [Foremost EXCEPT !.wait = 1]
<1>1. pending # <<>> /\ pc' # "enqueue" /\ closed' = closed
  BY DEF Deferred, Offering, socket
<1>2. /\ 1 \in DOMAIN pending /\ Foremost = pending[1] /\ Foremost \in Entry
  BY <1>1, FrontEntry DEF IInv
<1>3. e \in Entry /\ e.post = Foremost.post /\ e.repeat = Foremost.repeat
  BY <1>2 DEF Entry
<1>4. pending' = [pending EXCEPT ![1] = e] /\ UNCHANGED <<posts, session, sent>>
  BY <1>2 DEF Deferred
<1> HIDE DEF e
<1> QED
  BY <1>1, <1>3, <1>4, FrontStays

\* The first pass is on the air: the post is Broadcast unless that cannot be
\* saved, and a second pass is all that is left of it.
LEMMA SendAcceptedKeeps ==
  ASSUME IInv, SendAccepted
  PROVE  IInv'
<1> DEFINE p == Foremost.post
<1>1. /\ pending # <<>> /\ pc' # "enqueue" /\ UNCHANGED closed /\ ~closed
      /\ sent' = sent \cup {p}
  BY DEF SendAccepted, Offering, socket
<1>2. /\ 1 \in DOMAIN pending /\ Foremost = pending[1] /\ Foremost \in Entry
      /\ p \in Posts
  BY <1>1, FrontEntry DEF IInv
<1>3. CASE Foremost.repeat
  <2>1. sent' = sent
    BY <1>1, <1>2, <1>3 DEF IInv, QueueAgrees
  <2>2. DropFront
    BY <1>3 DEF SendAccepted, Accepted, DropFront
  <2> QED
    BY <1>1, <2>1, <2>2, DropFrontKeeps
<1>4. CASE ~Foremost.repeat
  <2> DEFINE e == [Foremost EXCEPT !.repeat = TRUE, !.wait = RepeatTicks,
                                   !.offers = @ + 1]
  <2>1. e \in Entry /\ e.post = p /\ e.repeat = TRUE
    BY <1>2, EntryOffered
  <2>2. pending' = [pending EXCEPT ![1] = e] /\ Mark(p, "Broadcast")
    BY <1>2, <1>4 DEF SendAccepted, Accepted
  <2> HIDE DEF e, p
  <2>3. /\ pending' \in Seq(Entry) /\ DOMAIN pending' = DOMAIN pending
        /\ pending'[1] = e
        /\ \A i \in DOMAIN pending \ {1} : pending'[i] = pending[i]
    BY <1>1, <2>1, <2>2, FrontChanged DEF IInv
  <2>4. p = pending[1].post /\ posts[p] \in {"Queued", "Broadcast"}
    BY <1>1, <1>2 DEF IInv, QueueAgrees, p
  <2>5. /\ posts' \in [Posts -> {"none", "Queued", "Broadcast", "Failed"}]
        /\ \A q \in Posts \ {p} : posts'[q] = posts[q]
        /\ posts'[p] \in {"Queued", "Broadcast"}
        /\ session' = "ready" => session = "ready" /\ posts'[p] = "Broadcast"
    BY <1>2, <2>2, <2>4, Marked DEF IInv
  <2>6. \A i \in DOMAIN pending : /\ pending[i].post \in Posts
                                  /\ i # 1 => pending[i].post # p
    <3>1. \A i \in DOMAIN pending : pending[i].post \in Posts
      BY HeldPosts DEF IInv
    <3> QED
      BY <1>2, <2>4, <3>1 DEF IInv, HeldOnce
  <2>7. \A i \in DOMAIN pending : pending'[i].post = pending[i].post
    BY <2>1, <2>3, <2>4
  <2>8. HeldOnce'
    BY <2>3, <2>7 DEF IInv, HeldOnce
  <2>9. QueueAgrees'
    BY <1>1, <2>1, <2>3, <2>5, <2>6 DEF IInv, QueueAgrees
  <2>10. TypeOK' /\ SentRecorded' /\ SentMatchesState'
    BY <1>1, <1>2, <2>3, <2>5
       DEF IInv, TypeOK, SentRecorded, SentMatchesState
  <2> QED
    BY <2>8, <2>9, <2>10 DEF IInv
<1> QED
  BY <1>3, <1>4

LEMMA StopKeeps ==
  ASSUME IInv, Stop
  PROVE  IInv'
BY DEF IInv, TypeOK, HeldOnce, QueueAgrees, SentRecorded, SentMatchesState,
       Stop, FailClosed

LEMMA LoopKeeps ==
  ASSUME IInv, Loop
  PROVE  IInv'
<1>1. CASE Start
  BY <1>1, Unconcerned DEF Start, book
<1>2. CASE PumpBegin
  BY <1>2, Unconcerned DEF PumpBegin, PumpRuns, book
<1>3. CASE OutboundWaits
  BY <1>3, Unconcerned DEF OutboundWaits, socket, book
<1>4. CASE OutboundEnds
  BY <1>4, DropFrontKeeps DEF OutboundEnds, socket
<1>5. CASE SendDisconnected
  BY <1>5, OfferRefusedKeeps DEF SendDisconnected, Offering
<1>6. CASE SendWouldBlock
  BY <1>6, OfferRefusedKeeps DEF SendWouldBlock, Offering, socket
<1>7. CASE SendFailed
  BY <1>7, OfferRefusedKeeps DEF SendFailed, Offering, FailClosed
<1>8. CASE Receive
  <2>1. UNCHANGED <<closed, book>> /\ pc' # "enqueue"
    BY <1>8 DEF Receive
  <2> QED
    BY <2>1, Unconcerned DEF book
<1>9. CASE ReceiveEnds
  BY <1>9, Unconcerned DEF ReceiveEnds, socket, book
<1>10. CASE ReceiveDisconnected
  BY <1>10, Unconcerned DEF ReceiveDisconnected, book
<1>11. CASE ReceiveFailed
  BY <1>11, Unconcerned DEF ReceiveFailed, FailClosed, book
<1>12. CASE ShowStatus
  BY <1>12, Unconcerned DEF ShowStatus, book
<1> QED
  BY <1>1, <1>2, <1>3, <1>4, <1>5, <1>6, <1>7, <1>8, <1>9, <1>10, <1>11, <1>12,
     EnqueueQueuedKeeps, EnqueueFailsKeeps, EnqueueClosedKeeps, DeferredKeeps,
     SendAcceptedKeeps DEF Loop

LEMMA InitHolds ==
  ASSUME Init
  PROVE  IInv
BY DEF Init, IInv, TypeOK, HeldOnce, QueueAgrees, SentRecorded,
       SentMatchesState

LEMMA NextKeeps ==
  ASSUME IInv, [Next]_vars
  PROVE  IInv'
<1>1. CASE LinkChange
  BY <1>1, Unconcerned DEF LinkChange, socket, book, loop, IInv, SentRecorded
<1>2. ASSUME NEW d \in Datagram, Arrive(d)
      PROVE  IInv'
  BY <1>2, Unconcerned DEF Arrive, socket, book, loop, IInv, SentRecorded
<1>3. CASE UNCHANGED vars
  BY <1>3, Unconcerned DEF vars, socket, book, loop, IInv, SentRecorded
<1> QED
  BY <1>1, <1>2, <1>3, ComposeKeeps, TickKeeps, LoopKeeps, StopKeeps
     DEF Next, Over

-----------------------------------------------------------------------------

\* The invariant behind the theorem below: a post is queued once, its entry
\* knows whether it was sent, nothing failed waits on an open transport, and
\* what was sent is recorded while the session can save (radio_runtime.cpp
\* 68-141, transmission_scheduler.cpp as far as one frame needs it).
THEOREM LanInvariant == Spec => []IInv
<1>1. Init => IInv
  BY InitHolds
<1>2. IInv /\ [Next]_vars => IInv'
  BY NextKeeps
<1> QED
  BY <1>1, <1>2, PTL DEF Spec

\* Whatever the link, the socket, the random source and the store do, and in
\* whatever order: a post shown as failed was never on the air and one shown as
\* broadcast was (radio_runtime.cpp 73-81, 118-141).
THEOREM LanSentMatches == Spec => []SentMatchesState
<1>1. IInv => SentMatchesState
  BY DEF IInv
<1> QED
  BY <1>1, LanInvariant, PTL
=============================================================================
