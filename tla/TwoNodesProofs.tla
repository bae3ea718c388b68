--------------------------- MODULE TwoNodesProofs ----------------------------
(***************************************************************************)
(* First the scheduler alone, for every number of posts and fragments and  *)
(* every choice of delays: the type of its state, the two-offer limit, the *)
(* meaning of Broadcast, and that the random bytes drawn by enqueue are    *)
(* enough.  Then both ends: whatever the channel does, the receiver's      *)
(* session has only what the sender was told is Broadcast, that is, the    *)
(* two nodes implement Delivery.  Last the two passes: what is heard of a  *)
(* post in either of them meets in one slot.                               *)
(***************************************************************************)
EXTENDS TwoNodes, FiniteSetTheorems, WellFoundedInduction, NaturalsInduction, TLAPS

\* The fragments offered at least n times.
OfferedTimes(p, n) == {f \in FragmentIds : p.offer_counts[f] >= n}

(***************************************************************************)
(* What holds of a post p in the queue, given the history of its current   *)
(* enqueue: offered (tries), event (outcome) and got (accepted).  In the   *)
(* primary pass the fragments before fragment_index are exactly the ones   *)
(* accepted and later ones are untouched; each random byte read so far was *)
(* paid for by an offer.                                                   *)
(***************************************************************************)
Consistent(p, offered, event, got) ==
  /\ p.fragment_index < Fragments[p.id]
  /\ offered = p.offer_counts
  /\ \A f \in FragmentIds :
       p.offer_counts[f] <= 2 /\ (p.offer_counts[f] > 0 => f \in Indices(p.id))
  /\ p.jitter_index <=
       1 + Cardinality(OfferedTimes(p, 1)) + Cardinality(OfferedTimes(p, 2))
  /\ p.repeat_pass => event = "Broadcast" /\ got = Indices(p.id)
  /\ ~p.repeat_pass =>
       /\ event = "None"
       /\ got = 0 .. p.fragment_index - 1
       /\ p.offer_counts[p.fragment_index] <= 1
       /\ \A f \in FragmentIds :
            f > p.fragment_index => p.offer_counts[f] = 0

ConsistentAt(i) ==
  Consistent(pending[i], tries[pending[i].id], outcome[pending[i].id],
             accepted[pending[i].id])

DistinctIds ==
  \A i, j \in 1 .. Len(pending) : i # j => pending[i].id # pending[j].id

\* The inductive invariant.
IInv ==
  /\ TypeOK
  /\ DistinctIds
  /\ \A i \in 1 .. Len(pending) : ConsistentAt(i)
  /\ OffersAtMostTwice
  /\ BroadcastSound

-----------------------------------------------------------------------------
(* The arithmetic of delays. *)

LEMMA ScaledJitterNat ==
  ASSUME NEW b \in JitterBytes, NEW max \in Nat
  PROVE  ScaledJitter(b, max) \in Nat
<1>1. b \in 0 .. 255
  BY SchedulerAssumption
<1>2. b * (max + 1) \in Nat
  BY <1>1
<1> QED BY <1>2 DEF ScaledJitter

LEMMA SaturatingAddTick ==
  ASSUME NEW t \in Ticks, NEW d \in Nat
  PROVE  SaturatingAdd(t, d) \in Ticks
BY SchedulerAssumption DEF SaturatingAdd, Ticks

-----------------------------------------------------------------------------
(* The two shapes of a change of the queue's front. *)

\* The messages other than the front keep their history.
OthersKept ==
  \A m \in Msgs : m # Front.id =>
    tries'[m] = tries[m] /\ outcome'[m] = outcome[m] /\ accepted'[m] = accepted[m]

\* What must be shown of the front's own history.
FrontSound ==
  /\ \A f \in Indices(Front.id) : tries'[Front.id][f] <= 2
  /\ outcome'[Front.id] = "Broadcast" => accepted'[Front.id] = Indices(Front.id)

LEMMA FrontFacts ==
  ASSUME IInv, pending # << >>
  PROVE  /\ Len(pending) \in Nat \ {0}
         /\ Front = pending[1]
         /\ Front \in PendingMessage
         /\ Front.id \in Msgs
         /\ Consistent(Front, tries[Front.id], outcome[Front.id],
                       accepted[Front.id])
<1>1. pending \in Seq(PendingMessage)
  BY DEF IInv, TypeOK
<1>2. Len(pending) \in Nat \ {0} /\ Front = pending[1] /\ Front \in PendingMessage
  BY <1>1 DEF Front
<1>3. Front.id \in Msgs
  BY <1>2 DEF PendingMessage
<1> QED BY <1>2, <1>3 DEF IInv, ConsistentAt

LEMMA SoundStep ==
  ASSUME IInv, pending # << >>, OthersKept, FrontSound
  PROVE  OffersAtMostTwice' /\ BroadcastSound'
<1>1. OffersAtMostTwice /\ BroadcastSound
  BY DEF IInv
<1>2. OffersAtMostTwice'
  BY <1>1 DEF OffersAtMostTwice, OthersKept, FrontSound
<1>3. BroadcastSound'
  BY <1>1 DEF BroadcastSound, OthersKept, FrontSound
<1> QED BY <1>2, <1>3

LEMMA TailStep ==
  ASSUME IInv, TypeOK', pending # << >>, pending' = Tail(pending),
         OthersKept, FrontSound
  PROVE  IInv'
<1>1. pending \in Seq(PendingMessage) /\ pending' \in Seq(PendingMessage)
  BY DEF IInv, TypeOK
<1>2. /\ Len(pending') = Len(pending) - 1
      /\ \A i \in 1 .. Len(pending') :
           pending'[i] = pending[i + 1] /\ i + 1 \in 1 .. Len(pending)
  BY <1>1
<1>3. 1 \in 1 .. Len(pending) /\ Front = pending[1]
  BY FrontFacts
<1>4. DistinctIds'
  <2> SUFFICES ASSUME NEW i \in 1 .. Len(pending'), NEW j \in 1 .. Len(pending'),
                      i # j
               PROVE  pending'[i].id # pending'[j].id
    BY DEF DistinctIds
  <2>1. i + 1 # j + 1 /\ i + 1 \in 1 .. Len(pending) /\ j + 1 \in 1 .. Len(pending)
    BY <1>1, <1>2
  <2> QED BY <2>1, <1>2 DEF IInv, DistinctIds
<1>5. ASSUME NEW i \in 1 .. Len(pending')
      PROVE  ConsistentAt(i)'
  <2>1. /\ i + 1 \in 1 .. Len(pending) /\ i + 1 # 1
        /\ pending'[i] = pending[i + 1]
    BY <1>1, <1>2
  <2>2. pending[i + 1].id # pending[1].id
    BY <1>3, <2>1 DEF IInv, DistinctIds
  <2>3. pending[i + 1] \in PendingMessage
    BY <1>1, <2>1
  <2>4. pending[i + 1].id # Front.id /\ pending[i + 1].id \in Msgs
    BY <1>3, <2>2, <2>3 DEF PendingMessage
  <2>5. ConsistentAt(i + 1)
    BY <2>1 DEF IInv
  <2> QED BY <2>1, <2>4, <2>5 DEF ConsistentAt, OthersKept
<1> QED BY <1>4, <1>5, SoundStep DEF IInv

LEMMA UpdateStep ==
  ASSUME IInv, TypeOK', pending # << >>,
         NEW p, pending' = [pending EXCEPT ![1] = p],
         p.id = Front.id,
         Consistent(p, tries'[Front.id], outcome'[Front.id], accepted'[Front.id]),
         OthersKept, FrontSound
  PROVE  IInv'
<1>1. pending \in Seq(PendingMessage)
  BY DEF IInv, TypeOK
<1>2. /\ Len(pending') = Len(pending)
      /\ 1 \in 1 .. Len(pending)
      /\ pending'[1] = p
      /\ \A i \in 1 .. Len(pending) : i # 1 => pending'[i] = pending[i]
  BY <1>1, FrontFacts
<1>3. \A i \in 1 .. Len(pending) : pending'[i].id = pending[i].id
  BY <1>2, FrontFacts
<1>4. DistinctIds'
  BY <1>2, <1>3 DEF IInv, DistinctIds
<1>5. ASSUME NEW i \in 1 .. Len(pending')
      PROVE  ConsistentAt(i)'
  <2>1. CASE i = 1
    BY <2>1, <1>2 DEF ConsistentAt
  <2>2. CASE i # 1
    <3>1. pending'[i] = pending[i] /\ i \in 1 .. Len(pending)
      BY <1>2, <2>2
    <3>2. pending[i].id # pending[1].id
      BY <1>2, <2>2, <3>1 DEF IInv, DistinctIds
    <3>3. pending[i] \in PendingMessage
      BY <1>1, <3>1
    <3>4. pending[i].id # Front.id /\ pending[i].id \in Msgs
      BY <3>2, <3>3, FrontFacts DEF PendingMessage
    <3>5. ConsistentAt(i)
      BY <3>1 DEF IInv
    <3> QED BY <3>1, <3>4, <3>5 DEF ConsistentAt, OthersKept
  <2> QED BY <2>1, <2>2
<1> QED BY <1>4, <1>5, SoundStep DEF IInv

-----------------------------------------------------------------------------
(* Counting offers. *)

LEMMA CountOffer ==
  ASSUME NEW c \in [FragmentIds -> Nat], NEW x \in FragmentIds, c[x] <= 1,
         NEW d, d = [c EXCEPT ![x] = @ + 1]
  PROVE  Cardinality({f \in FragmentIds : d[f] >= 1})
           + Cardinality({f \in FragmentIds : d[f] >= 2})
         = Cardinality({f \in FragmentIds : c[f] >= 1})
           + Cardinality({f \in FragmentIds : c[f] >= 2}) + 1
<1> DEFINE C(n) == {f \in FragmentIds : c[f] >= n}
           D(n) == {f \in FragmentIds : d[f] >= n}
<1>0. IsFiniteSet(FragmentIds)
  BY SchedulerAssumption, FS_Interval DEF FragmentIds
<1> SUFFICES Cardinality(D(1)) + Cardinality(D(2))
             = Cardinality(C(1)) + Cardinality(C(2)) + 1
  OBVIOUS
<1> HIDE DEF C, D
<1>1. /\ IsFiniteSet(C(1)) /\ Cardinality(C(1)) \in Nat
      /\ IsFiniteSet(C(2)) /\ Cardinality(C(2)) \in Nat
  <2>1. C(1) \subseteq FragmentIds /\ C(2) \subseteq FragmentIds
    BY DEF C
  <2> QED BY <1>0, <2>1, FS_Subset, FS_CardinalityType
<1>2. CASE c[x] = 0
  <2>1. D(1) = C(1) \cup {x} /\ x \notin C(1) /\ D(2) = C(2)
    BY <1>2 DEF C, D
  <2>2. Cardinality(D(1)) = Cardinality(C(1)) + 1
    BY <2>1, <1>1, FS_AddElement
  <2> QED BY <2>1, <2>2, <1>1
<1>3. CASE c[x] = 1
  <2>1. D(2) = C(2) \cup {x} /\ x \notin C(2) /\ D(1) = C(1)
    BY <1>3 DEF C, D
  <2>2. Cardinality(D(2)) = Cardinality(C(2)) + 1
    BY <2>1, <1>1, FS_AddElement
  <2> QED BY <2>1, <2>2, <1>1
<1> QED BY <1>2, <1>3

\* Fragment counts and fragment indices, as plain integer facts.
LEMMA FragmentFacts ==
  ASSUME NEW m \in Msgs
  PROVE  /\ MaxFragments \in Nat /\ Fragments[m] \in Nat
         /\ Fragments[m] >= 1 /\ Fragments[m] <= MaxFragments
<1>1. MaxFragments \in Nat /\ Fragments[m] \in 1 .. MaxFragments
  BY SchedulerAssumption
<1> QED BY <1>1

LEMMA CountBound ==
  ASSUME NEW m \in Msgs, NEW S, S \subseteq Indices(m)
  PROVE  Cardinality(S) \in Nat /\ Cardinality(S) <= Fragments[m]
<1>1. Fragments[m] \in Nat /\ Fragments[m] >= 1
  BY FragmentFacts
<1>2. IsFiniteSet(Indices(m)) /\ Cardinality(Indices(m)) = Fragments[m]
  <2> DEFINE k == Fragments[m] - 1
  <2>1. k \in Int /\ 0 \in Int /\ ~(0 > k) /\ k - 0 + 1 = Fragments[m]
    BY <1>1
  <2>2. Indices(m) = 0 .. k
    BY DEF Indices
  <2> HIDE DEF k
  <2>3. IsFiniteSet(0 .. k) /\ Cardinality(0 .. k) = k - 0 + 1
    BY <2>1, FS_Interval
  <2> QED BY <2>1, <2>2, <2>3
<1>3. IsFiniteSet(S) /\ Cardinality(S) <= Fragments[m]
  BY <1>2, FS_Subset
<1> QED BY <1>3, FS_CardinalityType

LEMMA IndicesFacts ==
  ASSUME NEW m \in Msgs
  PROVE  Indices(m) \subseteq FragmentIds
BY SchedulerAssumption DEF Indices, FragmentIds

\* The front post after an offer: what Consistent asks of its counters.
LEMMA OfferFacts ==
  ASSUME IInv, Offerable, CountTry
  PROVE  /\ Front.fragment_index \in Indices(Front.id)
         /\ Offered \in PendingMessage
         /\ Offered.id = Front.id
         /\ Offered.fragment_index = Front.fragment_index
         /\ Offered.jitter_index = Front.jitter_index
         /\ Offered.repeat_pass = Front.repeat_pass
         /\ \A f \in FragmentIds :
              /\ Offered.offer_counts[f] <= 2
              /\ Offered.offer_counts[f] > 0 => f \in Indices(Front.id)
              /\ f # Front.fragment_index =>
                   Offered.offer_counts[f] = Front.offer_counts[f]
         /\ Offered.jitter_index + 1 <=
              1 + Cardinality(OfferedTimes(Offered, 1))
                + Cardinality(OfferedTimes(Offered, 2))
         /\ tries'[Front.id] = Offered.offer_counts
         /\ tries' \in [Msgs -> [FragmentIds -> Nat]]
         /\ \A m \in Msgs : m # Front.id => tries'[m] = tries[m]
<1>1. /\ Front \in PendingMessage /\ Front.id \in Msgs
      /\ Consistent(Front, tries[Front.id], outcome[Front.id], accepted[Front.id])
  BY FrontFacts DEF Offerable, Due
<1> DEFINE x == Front.fragment_index
           c == Front.offer_counts
           d == Offered.offer_counts
<1>2. x \in FragmentIds /\ c \in [FragmentIds -> Nat] /\ x \in Indices(Front.id)
  <2>1. x \in FragmentIds /\ c \in [FragmentIds -> Nat]
    BY <1>1 DEF PendingMessage
  <2>2. x < Fragments[Front.id]
    BY <1>1 DEF Consistent
  <2>3. x \in Nat
    BY <1>1, <2>1, FragmentFacts DEF FragmentIds
  <2>4. x \in 0 .. Fragments[Front.id] - 1
    BY <1>1, <2>2, <2>3, FragmentFacts
  <2> QED BY <2>1, <2>4 DEF Indices
<1>3. c[x] \in Nat /\ c[x] <= 1
  BY <1>1, <1>2 DEF Offerable, Spent, Consistent, PendingMessage
<1>4. d = [c EXCEPT ![x] = @ + 1] /\ d \in [FragmentIds -> Nat]
  BY <1>1, <1>2 DEF Offered, PendingMessage
<1>5. /\ Offered \in PendingMessage
      /\ Offered.id = Front.id
      /\ Offered.fragment_index = Front.fragment_index
      /\ Offered.jitter_index = Front.jitter_index
      /\ Offered.repeat_pass = Front.repeat_pass
  BY <1>1, <1>2 DEF Offered, PendingMessage
<1>6. \A f \in FragmentIds :
        /\ d[f] <= 2
        /\ d[f] > 0 => f \in Indices(Front.id)
        /\ f # x => d[f] = c[f]
  BY <1>1, <1>2, <1>3, <1>4 DEF Consistent
<1>7. Offered.jitter_index + 1 <=
        1 + Cardinality(OfferedTimes(Offered, 1))
          + Cardinality(OfferedTimes(Offered, 2))
  <2>1. Cardinality(OfferedTimes(Offered, 1)) + Cardinality(OfferedTimes(Offered, 2))
        = Cardinality(OfferedTimes(Front, 1)) + Cardinality(OfferedTimes(Front, 2)) + 1
    BY <1>2, <1>3, <1>4, CountOffer DEF OfferedTimes
  <2>2. \A n \in {1, 2} : OfferedTimes(Front, n) \subseteq Indices(Front.id)
    BY <1>1, <1>2 DEF OfferedTimes, Consistent
  <2>3. \A n \in {1, 2} : OfferedTimes(Offered, n) \subseteq Indices(Front.id)
    BY <1>6, <1>4 DEF OfferedTimes
  <2>4. /\ Cardinality(OfferedTimes(Front, 1)) \in Nat
        /\ Cardinality(OfferedTimes(Front, 2)) \in Nat
        /\ Cardinality(OfferedTimes(Offered, 1)) \in Nat
        /\ Cardinality(OfferedTimes(Offered, 2)) \in Nat
    BY <1>1, <2>2, <2>3, CountBound
  <2>5. Front.jitter_index \in Nat
    BY <1>1 DEF PendingMessage
  <2> QED BY <1>1, <1>5, <2>1, <2>4, <2>5 DEF Consistent
<1>8. /\ tries'[Front.id] = d
      /\ tries' \in [Msgs -> [FragmentIds -> Nat]]
      /\ \A m \in Msgs : m # Front.id => tries'[m] = tries[m]
  <2>1. tries \in [Msgs -> [FragmentIds -> Nat]] /\ tries[Front.id] = c
    BY <1>1 DEF IInv, TypeOK, Consistent
  <2> QED BY <1>1, <1>2, <1>4, <2>1 DEF CountTry
<1> QED BY <1>2, <1>5, <1>6, <1>7, <1>8

-----------------------------------------------------------------------------
(* One lemma per operation: each step preserves the invariant. *)

LEMMA InitIInv == Init => IInv
<1> SUFFICES ASSUME Init PROVE IInv
  OBVIOUS
<1>1. TypeOK
  <2>1. Zeros \in [FragmentIds -> Nat]
    BY DEF Zeros
  <2>2. tries \in [Msgs -> [FragmentIds -> Nat]]
    BY <2>1 DEF Init
  <2>3. pending \in Seq(PendingMessage)
    BY DEF Init
  <2> QED BY <2>2, <2>3 DEF Init, TypeOK
<1>2. OffersAtMostTwice
  BY IndicesFacts DEF Init, OffersAtMostTwice, Zeros
<1> QED BY <1>1, <1>2 DEF Init, IInv, DistinctIds, BroadcastSound

LEMMA EnqueueStep ==
  ASSUME IInv, NEW m \in Msgs, Enqueue(m)
  PROVE  IInv'
<1> USE DEF Enqueue
<1>0. pending \in Seq(PendingMessage) /\ now \in Ticks
  BY DEF IInv, TypeOK
<1>1. PICK b \in JitterBytes :
        pending' = Append(pending,
          [id |-> m, offer_counts |-> Zeros, fragment_index |-> 0,
           jitter_index |-> 1,
           due |-> SaturatingAdd(now, ScaledJitter(b, InitialJitterMax)),
           deadline |-> SaturatingAdd(now, OutboundDeadline),
           repeat_pass |-> FALSE])
  OBVIOUS
<1> DEFINE p == [id |-> m, offer_counts |-> Zeros, fragment_index |-> 0,
                 jitter_index |-> 1,
                 due |-> SaturatingAdd(now, ScaledJitter(b, InitialJitterMax)),
                 deadline |-> SaturatingAdd(now, OutboundDeadline),
                 repeat_pass |-> FALSE]
<1>2. p \in PendingMessage
  <2>0. InitialJitterMax \in Nat /\ OutboundDeadline \in Nat
    BY SchedulerAssumption DEF Ticks
  <2>1. SaturatingAdd(now, ScaledJitter(b, InitialJitterMax)) \in Ticks
    BY <1>0, <2>0, ScaledJitterNat, SaturatingAddTick
  <2>2. SaturatingAdd(now, OutboundDeadline) \in Ticks
    BY <1>0, <2>0, SaturatingAddTick
  <2> QED BY <2>1, <2>2, SchedulerAssumption DEF PendingMessage, Zeros, FragmentIds
<1>3. /\ Len(pending') = Len(pending) + 1
      /\ pending' \in Seq(PendingMessage)
      /\ pending'[Len(pending) + 1] = p
      /\ \A i \in 1 .. Len(pending) : pending'[i] = pending[i]
  BY <1>0, <1>1, <1>2
<1> HIDE DEF p
<1>4. TypeOK'
  BY <1>3 DEF IInv, TypeOK, Zeros
<1>5. p.id = m
  BY DEF p
<1>6. DistinctIds'
  BY <1>0, <1>3, <1>5 DEF IInv, DistinctIds
<1>7. /\ tries'[m] = Zeros /\ outcome'[m] = "None" /\ accepted'[m] = {}
      /\ \A n \in Msgs : n # m =>
           tries'[n] = tries[n] /\ outcome'[n] = outcome[n] /\ accepted'[n] = accepted[n]
  BY DEF IInv, TypeOK
<1>8. Consistent(p, Zeros, "None", {})
  <2>1. OfferedTimes(p, 1) = {} /\ OfferedTimes(p, 2) = {}
    BY DEF p, OfferedTimes, Zeros
  <2>2. Cardinality({}) = 0
    BY FS_EmptySet
  <2>3. 0 < Fragments[m] /\ 0 .. 0 - 1 = {} /\ 0 \in FragmentIds
    BY SchedulerAssumption DEF FragmentIds
  <2>4. /\ p.id = m /\ p.fragment_index = 0 /\ p.jitter_index = 1
        /\ p.offer_counts = Zeros /\ p.repeat_pass = FALSE
    BY DEF p
  <2>5. \A f \in FragmentIds : Zeros[f] = 0
    BY DEF Zeros
  <2>6. p.jitter_index <=
          1 + Cardinality(OfferedTimes(p, 1)) + Cardinality(OfferedTimes(p, 2))
    <3>1. 1 <= 1 + 0 + 0
      OBVIOUS
    <3> QED BY <3>1, <2>1, <2>2, <2>4
  <2> QED BY <2>3, <2>4, <2>5, <2>6 DEF Consistent
<1>9. ASSUME NEW i \in 1 .. Len(pending')
      PROVE  ConsistentAt(i)'
  <2>1. CASE i = Len(pending) + 1
    BY <2>1, <1>3, <1>5, <1>7, <1>8 DEF ConsistentAt
  <2>2. CASE i # Len(pending) + 1
    <3>1. i \in 1 .. Len(pending) /\ pending'[i] = pending[i]
      BY <1>0, <1>3, <2>2
    <3>2. pending[i].id # m
      BY <3>1
    <3>3. pending[i] \in PendingMessage
      BY <1>0, <3>1
    <3>4. pending[i].id \in Msgs
      BY <3>3 DEF PendingMessage
    <3>5. ConsistentAt(i)
      BY <3>1 DEF IInv
    <3> QED BY <1>7, <3>1, <3>2, <3>4, <3>5 DEF ConsistentAt
  <2> QED BY <2>1, <2>2
<1>10. OffersAtMostTwice' /\ BroadcastSound'
  <2>1. \A f \in Indices(m) : Zeros[f] <= 2
    BY IndicesFacts DEF Zeros
  <2> QED BY <1>7, <2>1 DEF IInv, OffersAtMostTwice, BroadcastSound
<1> QED BY <1>4, <1>6, <1>9, <1>10 DEF IInv

\* Dropping or failing the front when its fragment counters did not change.
LEMMA GiveUpStep ==
  ASSUME IInv, pending # << >>, DropFront \/ FailFront,
         UNCHANGED <<now, closed, tries, accepted>>
  PROVE  IInv'
<1>1. TypeOK'
  <2>1. pending \in Seq(PendingMessage) /\ Tail(pending) \in Seq(PendingMessage)
    BY DEF IInv, TypeOK
  <2> QED BY <2>1, FrontFacts DEF DropFront, FailFront, IInv, TypeOK
<1>2. OthersKept
  BY FrontFacts DEF DropFront, FailFront, OthersKept, IInv, TypeOK
<1>3. FrontSound
  BY FrontFacts DEF DropFront, FailFront, FrontSound, IInv, TypeOK,
    OffersAtMostTwice, BroadcastSound
<1> QED BY <1>1, <1>2, <1>3, TailStep DEF DropFront, FailFront

\* The same after an offer that was not accepted.
LEMMA GiveUpAfterOffer ==
  ASSUME IInv, Offerable, CountTry, DropFront \/ FailFront,
         closed' \in BOOLEAN, UNCHANGED <<now, accepted>>
  PROVE  IInv'
<1>0. pending # << >>
  BY DEF Offerable, Due
<1>1. TypeOK'
  <2>1. pending \in Seq(PendingMessage) /\ Tail(pending) \in Seq(PendingMessage)
    BY <1>0 DEF IInv, TypeOK
  <2>2. tries' \in [Msgs -> [FragmentIds -> Nat]] /\ Front.id \in Msgs
    BY <1>0, FrontFacts, OfferFacts
  <2> QED BY <2>1, <2>2 DEF DropFront, FailFront, IInv, TypeOK
<1>2. OthersKept
  BY <1>0, FrontFacts, OfferFacts DEF DropFront, FailFront, OthersKept, IInv, TypeOK
<1>3. FrontSound
  <2>1. \A f \in Indices(Front.id) : tries'[Front.id][f] <= 2
    BY <1>0, FrontFacts, OfferFacts, IndicesFacts
  <2>2. outcome'[Front.id] = "Broadcast" => accepted'[Front.id] = Indices(Front.id)
    BY <1>0, FrontFacts DEF DropFront, FailFront, IInv, TypeOK, BroadcastSound
  <2> QED BY <2>1, <2>2 DEF FrontSound
<1> QED BY <1>0, <1>1, <1>2, <1>3, TailStep DEF DropFront, FailFront

\* Replacing the front by p, its history of offers following p's counters.
LEMMA ReplaceFront ==
  ASSUME IInv, pending # << >>, NEW p \in PendingMessage,
         pending' = [pending EXCEPT ![1] = p], p.id = Front.id,
         Consistent(p, tries'[Front.id], outcome'[Front.id], accepted'[Front.id]),
         now' = now, closed' \in BOOLEAN,
         tries' \in [Msgs -> [FragmentIds -> Nat]],
         outcome' \in [Msgs -> {"None", "Broadcast", "Failed"}],
         accepted' \in [Msgs -> SUBSET FragmentIds],
         OthersKept,
         outcome'[Front.id] = "Broadcast" => accepted'[Front.id] = Indices(Front.id)
  PROVE  IInv'
<1>1. pending' \in Seq(PendingMessage)
  BY DEF IInv, TypeOK
<1>2. TypeOK'
  BY <1>1 DEF IInv, TypeOK
<1>3. FrontSound
  BY FrontFacts, IndicesFacts DEF FrontSound, Consistent
<1> QED BY <1>2, <1>3, UpdateStep

\* Moving due alone, or due and jitter_index or fragment_index, of a post.
LEMMA DeferStep ==
  ASSUME IInv, Offerable, NEW t \in Ticks, PumpDeferred(t)
  PROVE  IInv'
<1>0. pending # << >> /\ now \in Ticks
  BY DEF Offerable, Due, IInv, TypeOK
<1>1. Front \in PendingMessage /\ Front.id \in Msgs
  BY <1>0, FrontFacts
<1>2. PICK d \in Ticks : pending' = [pending EXCEPT ![1] = [Front EXCEPT !.due = d]]
  <2>1. SaturatingAdd(now, DeferDelay) \in Ticks
    <3>1. DeferDelay \in Nat
      BY SchedulerAssumption DEF Ticks
    <3> QED BY <1>0, <3>1, SaturatingAddTick
  <2> QED BY <2>1 DEF PumpDeferred, UpdateFront
<1> DEFINE p == [Front EXCEPT !.due = d]
<1>3. /\ p \in PendingMessage /\ p.id = Front.id
      /\ p.offer_counts = Front.offer_counts
      /\ p.fragment_index = Front.fragment_index
      /\ p.jitter_index = Front.jitter_index
      /\ p.repeat_pass = Front.repeat_pass
  BY <1>1 DEF PendingMessage
<1> HIDE DEF p
<1>4. Consistent(p, tries[Front.id], outcome[Front.id], accepted[Front.id])
  BY <1>0, <1>3, FrontFacts DEF Consistent, OfferedTimes
<1>5. UNCHANGED <<now, closed, tries, outcome, accepted>>
  BY DEF PumpDeferred, UpdateFront
<1>6. outcome[Front.id] = "Broadcast" => accepted[Front.id] = Indices(Front.id)
  BY <1>1 DEF IInv, BroadcastSound
<1>7. pending' = [pending EXCEPT ![1] = p]
  BY <1>2 DEF p
<1> QED BY <1>0, <1>3, <1>4, <1>5, <1>6, <1>7, ReplaceFront
      DEF IInv, TypeOK, OthersKept

\* NextRepeatFragment, with or without an offer just made for post q.
LEMMA NextRepeatStep ==
  ASSUME IInv, Due, NEW q \in PendingMessage,
         q.id = Front.id, q.repeat_pass = TRUE, Front.repeat_pass = TRUE,
         q.fragment_index = Front.fragment_index,
         q.offer_counts = tries'[Front.id],
         \A f \in FragmentIds : q.offer_counts[f] <= 2 /\
           (q.offer_counts[f] > 0 => f \in Indices(Front.id)),
         q.jitter_index <=
           1 + Cardinality(OfferedTimes(q, 1)) + Cardinality(OfferedTimes(q, 2)),
         NextRepeatFragment(q),
         tries' \in [Msgs -> [FragmentIds -> Nat]],
         \A m \in Msgs : m # Front.id => tries'[m] = tries[m],
         closed' \in BOOLEAN, UNCHANGED <<now, accepted>>
  PROVE  IInv'
<1>0. /\ pending # << >> /\ now \in Ticks
      /\ outcome' = outcome
  BY DEF Due, IInv, TypeOK, NextRepeatFragment, DropFront, UpdateFront
<1>1. /\ Front \in PendingMessage /\ Front.id \in Msgs
      /\ Consistent(Front, tries[Front.id], outcome[Front.id], accepted[Front.id])
  BY <1>0, FrontFacts
<1>2. outcome[Front.id] = "Broadcast" /\ accepted[Front.id] = Indices(Front.id)
  BY <1>1 DEF Consistent
<1>3. OthersKept
  BY <1>0 DEF OthersKept
<1>4. CASE q.fragment_index + 1 = Fragments[q.id]
  <2>1. pending' = Tail(pending)
    BY <1>4 DEF NextRepeatFragment, DropFront
  <2>2. FrontSound
    BY <1>0, <1>1, <1>2, IndicesFacts DEF FrontSound
  <2>3. pending' \in Seq(PendingMessage)
    BY <1>0, <2>1 DEF IInv, TypeOK
  <2>4. TypeOK'
    BY <1>0, <2>3 DEF IInv, TypeOK
  <2> QED BY <1>0, <1>3, <2>1, <2>2, <2>4, TailStep
<1>5. CASE q.fragment_index + 1 # Fragments[q.id]
  <2> DEFINE p == [q EXCEPT !.fragment_index = @ + 1, !.due = now]
  <2>1. pending' = [pending EXCEPT ![1] = p]
    BY <1>5 DEF NextRepeatFragment, UpdateFront
  <2>2. q.fragment_index + 1 < Fragments[q.id] /\ q.fragment_index + 1 \in FragmentIds
    <3>1. q.fragment_index \in 0 .. MaxFragments - 1
      BY DEF PendingMessage, FragmentIds
    <3>2. /\ MaxFragments \in Nat /\ Fragments[q.id] \in Nat
          /\ Fragments[q.id] <= MaxFragments
      BY <1>1, FragmentFacts
    <3>3. q.fragment_index < Fragments[q.id]
      BY <1>1 DEF Consistent
    <3>4. /\ q.fragment_index + 1 < Fragments[q.id]
          /\ q.fragment_index + 1 \in 0 .. MaxFragments - 1
      <4> DEFINE i == q.fragment_index
                 n == Fragments[q.id]
      <4>1. i \in Nat /\ n \in Nat /\ i < n /\ i + 1 # n /\ n <= MaxFragments
        BY <1>5, <3>1, <3>2, <3>3
      <4> HIDE DEF i, n
      <4>2. i + 1 < n /\ i + 1 \in 0 .. MaxFragments - 1
        BY <4>1, <3>2
      <4> QED BY <4>2 DEF i, n
    <3> QED BY <3>4 DEF FragmentIds
  <2>3. /\ p \in PendingMessage /\ p.id = Front.id
        /\ p.offer_counts = q.offer_counts
        /\ p.fragment_index = q.fragment_index + 1
        /\ p.jitter_index = q.jitter_index
        /\ p.repeat_pass = TRUE
    BY <1>0, <2>2 DEF PendingMessage
  <2> HIDE DEF p
  <2>4. Consistent(p, tries'[Front.id], outcome'[Front.id], accepted'[Front.id])
    BY <1>0, <1>2, <2>2, <2>3 DEF Consistent, OfferedTimes
  <2>5. outcome' \in [Msgs -> {"None", "Broadcast", "Failed"}]
        /\ accepted' \in [Msgs -> SUBSET FragmentIds]
    BY <1>0 DEF IInv, TypeOK
  <2> QED BY <1>0, <1>2, <1>3, <2>1, <2>3, <2>4, <2>5, ReplaceFront
<1> QED BY <1>4, <1>5

LEMMA SkipStep ==
  ASSUME IInv, PumpSkip
  PROVE  IInv'
<1>1. pending # << >> /\ UNCHANGED <<now, closed, tries, accepted>>
  BY DEF PumpSkip, Due
<1>2. /\ Front \in PendingMessage /\ Front.id \in Msgs
      /\ Consistent(Front, tries[Front.id], outcome[Front.id], accepted[Front.id])
  BY <1>1, FrontFacts
<1>3. Front.repeat_pass = TRUE
  BY <1>2 DEF PumpSkip, Spent, PendingMessage
<1> QED BY <1>1, <1>2, <1>3, NextRepeatStep DEF PumpSkip, Consistent, IInv, TypeOK

LEMMA BackpressureStep ==
  ASSUME IInv, PumpBackpressure
  PROVE  IInv'
<1>0. /\ Offerable /\ CountTry /\ Due /\ pending # << >> /\ now \in Ticks
      /\ closed' \in BOOLEAN /\ UNCHANGED <<now, accepted>>
  BY DEF PumpBackpressure, Offerable, Due, IInv, TypeOK
<1>1. /\ Front \in PendingMessage /\ Front.id \in Msgs
      /\ Consistent(Front, tries[Front.id], outcome[Front.id], accepted[Front.id])
  BY <1>0, FrontFacts
<1>2. /\ Offered \in PendingMessage
      /\ Offered.id = Front.id
      /\ Offered.fragment_index = Front.fragment_index
      /\ Offered.repeat_pass = Front.repeat_pass
      /\ \A f \in FragmentIds :
           /\ Offered.offer_counts[f] <= 2
           /\ Offered.offer_counts[f] > 0 => f \in Indices(Front.id)
           /\ f # Front.fragment_index =>
                Offered.offer_counts[f] = Front.offer_counts[f]
      /\ tries'[Front.id] = Offered.offer_counts
      /\ tries' \in [Msgs -> [FragmentIds -> Nat]]
      /\ \A m \in Msgs : m # Front.id => tries'[m] = tries[m]
  BY <1>0, OfferFacts
<1> DEFINE Paid(j) == j <= 1 + Cardinality(OfferedTimes(Offered, 1))
                             + Cardinality(OfferedTimes(Offered, 2))
<1>3. Offered.jitter_index \in Nat /\ Paid(Offered.jitter_index + 1)
  BY <1>0, <1>2, OfferFacts DEF PendingMessage
<1>4. CASE Offered.offer_counts[Offered.fragment_index] >= 2 /\ Front.repeat_pass
  <2>1. NextRepeatFragment(Offered)
    BY <1>2, <1>4 DEF PumpBackpressure
  <2>2. Paid(Offered.jitter_index)
    <3>1. /\ Cardinality(OfferedTimes(Offered, 1)) \in Nat
          /\ Cardinality(OfferedTimes(Offered, 2)) \in Nat
      <4>1. OfferedTimes(Offered, 1) \subseteq Indices(Front.id)
            /\ OfferedTimes(Offered, 2) \subseteq Indices(Front.id)
        <5>1. \A f \in FragmentIds : Offered.offer_counts[f] \in Nat
          BY <1>2 DEF PendingMessage
        <5> QED BY <1>2, <5>1 DEF OfferedTimes
      <4> QED BY <1>1, <4>1, CountBound
    <3> QED BY <1>3, <3>1
  <2>3. Offered.repeat_pass = TRUE /\ Front.repeat_pass = TRUE
    BY <1>1, <1>2, <1>4 DEF PendingMessage
  <2> QED BY <1>0, <1>2, <2>1, <2>2, <2>3, NextRepeatStep
<1>5. CASE Offered.offer_counts[Offered.fragment_index] >= 2 /\ ~Front.repeat_pass
  <2>1. FailFront
    BY <1>2, <1>5 DEF PumpBackpressure
  <2> QED BY <1>0, <2>1, GiveUpAfterOffer
<1>6. CASE ~(Offered.offer_counts[Offered.fragment_index] >= 2)
  <2>1. PICK b \in JitterBytes :
          UpdateFront([Offered EXCEPT !.jitter_index = @ + 1, !.due =
            SaturatingAdd(now, RetryDelay + ScaledJitter(b, RetryJitterMax))])
    BY <1>6 DEF PumpBackpressure
  <2> DEFINE d == SaturatingAdd(now, RetryDelay + ScaledJitter(b, RetryJitterMax))
             p == [Offered EXCEPT !.jitter_index = @ + 1, !.due = d]
  <2>2. d \in Ticks
    <3>1. RetryDelay \in Nat /\ RetryJitterMax \in Nat
      BY SchedulerAssumption
    <3>2. RetryDelay + ScaledJitter(b, RetryJitterMax) \in Nat
      BY <3>1, ScaledJitterNat
    <3> QED BY <1>0, <3>2, SaturatingAddTick
  <2>3. pending' = [pending EXCEPT ![1] = p] /\ outcome' = outcome
    BY <2>1 DEF UpdateFront
  <2> HIDE DEF d
  <2>4. /\ p \in PendingMessage /\ p.id = Front.id
        /\ p.offer_counts = Offered.offer_counts
        /\ p.fragment_index = Front.fragment_index
        /\ p.jitter_index = Offered.jitter_index + 1
        /\ p.repeat_pass = Front.repeat_pass
    <3>1. Offered \in PendingMessage /\ Offered.jitter_index + 1 \in Nat
      BY <1>2, <1>3
    <3>2. p \in PendingMessage
      BY <2>2, <3>1 DEF PendingMessage
    <3>3. /\ p.id = Offered.id /\ p.offer_counts = Offered.offer_counts
          /\ p.fragment_index = Offered.fragment_index
          /\ p.repeat_pass = Offered.repeat_pass
          /\ p.jitter_index = Offered.jitter_index + 1
      BY <3>1 DEF PendingMessage
    <3> QED BY <1>2, <3>2, <3>3
  <2> HIDE DEF p
  <2>5. /\ p.offer_counts[p.fragment_index] <= 1
        /\ Front.fragment_index \in FragmentIds
    <3>1. Offered.offer_counts[Offered.fragment_index] \in Nat
          /\ Front.fragment_index \in FragmentIds
      BY <1>1, <1>2 DEF PendingMessage
    <3> QED BY <1>2, <1>6, <2>4, <3>1
  <2>6. Paid(p.jitter_index) /\ \A n : OfferedTimes(p, n) = OfferedTimes(Offered, n)
    BY <1>3, <2>4 DEF OfferedTimes
  <2>7. Front.fragment_index \in Int /\ FragmentIds \subseteq Int
    BY <2>5, SchedulerAssumption DEF FragmentIds
  <2>8. ~p.repeat_pass =>
          \A f \in FragmentIds : f > p.fragment_index => p.offer_counts[f] = 0
    BY <1>1, <1>2, <2>4, <2>7 DEF Consistent
  <2>9. Consistent(p, tries'[Front.id], outcome'[Front.id], accepted'[Front.id])
    BY <1>0, <1>1, <1>2, <2>3, <2>4, <2>5, <2>6, <2>8 DEF Consistent
  <2>10. outcome[Front.id] = "Broadcast" => accepted[Front.id] = Indices(Front.id)
    BY <1>1 DEF IInv, BroadcastSound
  <2>11. OthersKept
    BY <1>0, <1>2, <2>3 DEF OthersKept
  <2>12. /\ outcome' \in [Msgs -> {"None", "Broadcast", "Failed"}]
         /\ accepted' \in [Msgs -> SUBSET FragmentIds]
    BY <1>0, <2>3 DEF IInv, TypeOK
  <2> QED BY <1>0, <1>2, <2>3, <2>4, <2>9, <2>10, <2>11, <2>12, ReplaceFront
<1> QED BY <1>4, <1>5, <1>6

LEMMA AcceptedStep ==
  ASSUME IInv, PumpAccepted
  PROVE  IInv'
<1>0. /\ Offerable /\ CountTry /\ pending # << >> /\ now \in Ticks
      /\ UNCHANGED <<now, closed>>
      /\ accepted' = [accepted EXCEPT ![Front.id] = @ \cup {Front.fragment_index}]
  BY DEF PumpAccepted, Offerable, Due, IInv, TypeOK
<1>1. /\ Front \in PendingMessage /\ Front.id \in Msgs
      /\ Consistent(Front, tries[Front.id], outcome[Front.id], accepted[Front.id])
  BY <1>0, FrontFacts
<1>2. /\ Front.fragment_index \in Indices(Front.id)
      /\ Offered \in PendingMessage
      /\ Offered.id = Front.id
      /\ Offered.fragment_index = Front.fragment_index
      /\ Offered.repeat_pass = Front.repeat_pass
      /\ \A f \in FragmentIds :
           /\ Offered.offer_counts[f] <= 2
           /\ Offered.offer_counts[f] > 0 => f \in Indices(Front.id)
           /\ f # Front.fragment_index =>
                Offered.offer_counts[f] = Front.offer_counts[f]
      /\ Offered.jitter_index + 1 <=
           1 + Cardinality(OfferedTimes(Offered, 1))
             + Cardinality(OfferedTimes(Offered, 2))
      /\ tries'[Front.id] = Offered.offer_counts
      /\ tries' \in [Msgs -> [FragmentIds -> Nat]]
      /\ \A m \in Msgs : m # Front.id => tries'[m] = tries[m]
  BY <1>0, OfferFacts
<1> DEFINE x == Front.fragment_index
           n == Fragments[Front.id]
<1>3. /\ n \in Nat /\ n <= MaxFragments /\ x \in Nat /\ x < n
      /\ MaxFragments \in Nat
      /\ Indices(Front.id) = 0 .. n - 1 /\ FragmentIds = 0 .. MaxFragments - 1
  <2>1. Indices(Front.id) = 0 .. n - 1 /\ FragmentIds = 0 .. MaxFragments - 1
    BY DEF Indices, FragmentIds
  <2>2. n \in Nat /\ n <= MaxFragments /\ MaxFragments \in Nat
    BY <1>1, FragmentFacts
  <2>3. x \in 0 .. n - 1
    BY <1>2, <2>1
  <2>4. x \in Nat /\ x < n
    <3> HIDE DEF x, n
    <3> QED BY <2>2, <2>3
  <2> QED BY <2>1, <2>2, <2>4
<1>4. /\ accepted' \in [Msgs -> SUBSET FragmentIds]
      /\ accepted'[Front.id] = accepted[Front.id] \cup {x}
      /\ \A m \in Msgs : m # Front.id => accepted'[m] = accepted[m]
  BY <1>0, <1>1, <1>2, IndicesFacts DEF IInv, TypeOK
<1>5. /\ Front.repeat_pass => accepted'[Front.id] = Indices(Front.id)
      /\ ~Front.repeat_pass => accepted'[Front.id] = 0 .. x
  <2>1. CASE Front.repeat_pass
    BY <1>1, <1>2, <1>4, <2>1 DEF Consistent
  <2>2. CASE ~Front.repeat_pass
    <3>1. accepted[Front.id] = 0 .. x - 1
      BY <1>1, <2>2 DEF Consistent
    <3>2. (0 .. x - 1) \cup {x} = 0 .. x
      BY <1>3
    <3> QED BY <1>4, <2>2, <3>1, <3>2
  <2> QED BY <2>1, <2>2
<1>6. ASSUME NEW p \in PendingMessage,
             pending' = [pending EXCEPT ![1] = p],
             p.id = Front.id, p.offer_counts = Offered.offer_counts,
             p.jitter_index = Offered.jitter_index + 1,
             p.fragment_index < n,
             outcome' \in [Msgs -> {"None", "Broadcast", "Failed"}],
             \A m \in Msgs : m # Front.id => outcome'[m] = outcome[m],
             \/ /\ p.repeat_pass /\ outcome'[Front.id] = "Broadcast"
                /\ accepted'[Front.id] = Indices(Front.id)
             \/ /\ ~p.repeat_pass /\ outcome'[Front.id] = "None"
                /\ p.fragment_index = x + 1 /\ accepted'[Front.id] = 0 .. x
                /\ \A f \in FragmentIds : f > x => p.offer_counts[f] = 0
      PROVE  IInv'
  <2>1. \A k : OfferedTimes(p, k) = OfferedTimes(Offered, k)
    BY <1>6 DEF OfferedTimes
  <2>2. /\ \A f \in FragmentIds :
             p.offer_counts[f] <= 2 /\ (p.offer_counts[f] > 0 => f \in Indices(p.id))
        /\ p.jitter_index <=
             1 + Cardinality(OfferedTimes(p, 1)) + Cardinality(OfferedTimes(p, 2))
    BY <1>2, <1>6, <2>1
  <2>3. ~p.repeat_pass =>
          /\ outcome'[Front.id] = "None"
          /\ accepted'[Front.id] = 0 .. p.fragment_index - 1
          /\ p.offer_counts[p.fragment_index] <= 1
          /\ \A f \in FragmentIds : f > p.fragment_index => p.offer_counts[f] = 0
    <3>1. SUFFICES ASSUME ~p.repeat_pass
                   PROVE  /\ outcome'[Front.id] = "None"
                          /\ accepted'[Front.id] = 0 .. p.fragment_index - 1
                          /\ p.offer_counts[p.fragment_index] <= 1
                          /\ \A f \in FragmentIds :
                               f > p.fragment_index => p.offer_counts[f] = 0
      OBVIOUS
    <3>2. x + 1 \in FragmentIds /\ x + 1 > x /\ (x + 1) - 1 = x
          /\ \A f \in FragmentIds : f > x + 1 => f > x
      BY <1>3, <1>6, <3>1
    <3> QED BY <1>6, <3>1, <3>2
  <2>4. Consistent(p, tries'[Front.id], outcome'[Front.id], accepted'[Front.id])
    BY <1>2, <1>6, <2>2, <2>3 DEF Consistent
  <2>5. OthersKept
    BY <1>2, <1>4, <1>6 DEF OthersKept
  <2>6. closed' \in BOOLEAN
    BY <1>0 DEF IInv, TypeOK
  <2> QED BY <1>0, <1>2, <1>4, <1>6, <2>4, <2>5, <2>6, ReplaceFront
<1>7. CASE ~LastFragment(Front)
  <2>1. PICK b \in JitterBytes :
          UpdateFront([Advanced(Offered) EXCEPT !.due =
            SaturatingAdd(now, ScaledJitter(b, GapJitterMax))])
    BY <1>7 DEF PumpAccepted
  <2> DEFINE d == SaturatingAdd(now, ScaledJitter(b, GapJitterMax))
             p == [Advanced(Offered) EXCEPT !.due = d]
  <2>2. d \in Ticks
    <3>1. GapJitterMax \in Nat
      BY SchedulerAssumption DEF Ticks
    <3> QED BY <1>0, <3>1, ScaledJitterNat, SaturatingAddTick
  <2>3. pending' = [pending EXCEPT ![1] = p] /\ outcome' = outcome
    BY <2>1 DEF UpdateFront
  <2> HIDE DEF d
  <2>4. x + 1 < n /\ x + 1 \in FragmentIds
    BY <1>3, <1>7 DEF LastFragment
  <2>5. p = [Offered EXCEPT !.fragment_index = x + 1, !.jitter_index = @ + 1,
                            !.due = d, !.repeat_pass = Front.repeat_pass]
    BY <1>2 DEF Advanced, PendingMessage
  <2>6. Front.repeat_pass \in BOOLEAN
    BY <1>1 DEF PendingMessage
  <2> HIDE DEF p
  <2>7. /\ p \in PendingMessage /\ p.id = Front.id
        /\ p.offer_counts = Offered.offer_counts
        /\ p.fragment_index = x + 1
        /\ p.jitter_index = Offered.jitter_index + 1
        /\ p.repeat_pass = Front.repeat_pass
    <3>1. Offered \in PendingMessage /\ Offered.id = Front.id
      BY <1>2
    <3>2. Offered.jitter_index + 1 \in Nat
      BY <3>1 DEF PendingMessage
    <3>3. p \in PendingMessage
      BY <2>2, <2>4, <2>5, <2>6, <3>1, <3>2 DEF PendingMessage
    <3>4. /\ p.id = Offered.id /\ p.offer_counts = Offered.offer_counts
          /\ p.fragment_index = x + 1
          /\ p.jitter_index = Offered.jitter_index + 1
          /\ p.repeat_pass = Front.repeat_pass
      BY <2>5, <3>1 DEF PendingMessage
    <3> QED BY <3>1, <3>3, <3>4
  <2>8. ~Front.repeat_pass => \A f \in FragmentIds : f > x => p.offer_counts[f] = 0
    <3>1. ~Front.repeat_pass =>
            \A f \in FragmentIds : f > x => Front.offer_counts[f] = 0
      BY <1>1 DEF Consistent
    <3>2. \A f \in FragmentIds : f > x => f # x
      BY <1>3
    <3> QED BY <1>2, <2>7, <3>1, <3>2
  <2>9. outcome' \in [Msgs -> {"None", "Broadcast", "Failed"}]
    BY <2>3 DEF IInv, TypeOK
  <2>10. /\ Front.repeat_pass => outcome'[Front.id] = "Broadcast"
         /\ ~Front.repeat_pass => outcome'[Front.id] = "None"
    BY <1>1, <2>3 DEF Consistent
  <2> QED BY <1>5, <1>6, <2>3, <2>4, <2>7, <2>8, <2>9, <2>10
<1>8. CASE LastFragment(Front) /\ ~Front.repeat_pass
  <2>1. PICK b \in JitterBytes :
          pending' = [pending EXCEPT ![1] =
            [Advanced(Offered) EXCEPT !.repeat_pass = TRUE, !.fragment_index = 0,
               !.due = SaturatingAdd(now,
                  RepeatDelay + ScaledJitter(b, RepeatJitterMax))]]
    BY <1>8 DEF PumpAccepted
  <2> DEFINE d == SaturatingAdd(now, RepeatDelay + ScaledJitter(b, RepeatJitterMax))
             p == [Advanced(Offered) EXCEPT !.repeat_pass = TRUE,
                     !.fragment_index = 0, !.due = d]
  <2>2. d \in Ticks
    <3>1. RepeatDelay \in Nat /\ RepeatJitterMax \in Nat
      BY SchedulerAssumption
    <3>2. RepeatDelay + ScaledJitter(b, RepeatJitterMax) \in Nat
      BY <3>1, ScaledJitterNat
    <3> QED BY <1>0, <3>2, SaturatingAddTick
  <2>3. pending' = [pending EXCEPT ![1] = p]
    BY <2>1
  <2>4. outcome' = [outcome EXCEPT ![Front.id] = "Broadcast"]
    BY <1>8 DEF PumpAccepted
  <2> HIDE DEF d
  <2>5. p = [Offered EXCEPT !.fragment_index = 0, !.jitter_index = @ + 1,
                            !.due = d, !.repeat_pass = TRUE]
    BY <1>2 DEF Advanced, PendingMessage
  <2>6. 0 \in FragmentIds /\ 0 < n
    BY <1>3
  <2> HIDE DEF p
  <2>7. /\ p \in PendingMessage /\ p.id = Front.id
        /\ p.offer_counts = Offered.offer_counts
        /\ p.fragment_index = 0
        /\ p.jitter_index = Offered.jitter_index + 1
        /\ p.repeat_pass = TRUE
    <3>1. Offered \in PendingMessage /\ Offered.id = Front.id
      BY <1>2
    <3>2. Offered.jitter_index + 1 \in Nat
      BY <3>1 DEF PendingMessage
    <3>3. p \in PendingMessage
      BY <2>2, <2>5, <2>6, <3>1, <3>2 DEF PendingMessage
    <3>4. /\ p.id = Offered.id /\ p.offer_counts = Offered.offer_counts
          /\ p.fragment_index = 0
          /\ p.jitter_index = Offered.jitter_index + 1
          /\ p.repeat_pass = TRUE
      BY <2>5, <3>1 DEF PendingMessage
    <3> QED BY <3>1, <3>3, <3>4
  <2>8. accepted'[Front.id] = Indices(Front.id)
    <3>1. x = n - 1
      BY <1>3, <1>8 DEF LastFragment
    <3> QED BY <1>3, <1>5, <1>8, <3>1
  <2>9. /\ outcome' \in [Msgs -> {"None", "Broadcast", "Failed"}]
        /\ outcome'[Front.id] = "Broadcast"
        /\ \A m \in Msgs : m # Front.id => outcome'[m] = outcome[m]
    BY <1>1, <2>4 DEF IInv, TypeOK
  <2> QED BY <1>6, <2>3, <2>6, <2>7, <2>8, <2>9
<1>9. CASE LastFragment(Front) /\ Front.repeat_pass
  <2>1. pending' = Tail(pending) /\ outcome' = outcome
    BY <1>9 DEF PumpAccepted, DropFront
  <2>2. pending' \in Seq(PendingMessage)
    BY <1>0, <2>1 DEF IInv, TypeOK
  <2>3. TypeOK'
    BY <1>0, <1>2, <1>4, <2>1, <2>2 DEF IInv, TypeOK
  <2>4. OthersKept
    BY <1>2, <1>4, <2>1 DEF OthersKept
  <2>5. FrontSound
    BY <1>1, <1>2, <1>5, <1>9, IndicesFacts DEF FrontSound
  <2> QED BY <1>0, <2>1, <2>3, <2>4, <2>5, TailStep
<1> QED BY <1>7, <1>8, <1>9

LEMMA StutterStep ==
  ASSUME IInv, UNCHANGED <<pending, outcome, tries, accepted>>,
         now' \in Ticks, closed' \in BOOLEAN
  PROVE  IInv'
BY DEF IInv, TypeOK, DistinctIds, ConsistentAt, OffersAtMostTwice, BroadcastSound

LEMMA CancelStep ==
  ASSUME IInv, CancelAll
  PROVE  IInv'
<1>1. /\ pending' = << >> /\ Len(pending') = 0
      /\ UNCHANGED <<now, closed, outcome, tries, accepted>>
  BY DEF CancelAll
<1>2. TypeOK'
  BY <1>1 DEF IInv, TypeOK
<1>3. DistinctIds' /\ \A i \in 1 .. Len(pending') : ConsistentAt(i)'
  BY <1>1 DEF DistinctIds
<1> QED BY <1>1, <1>2, <1>3 DEF IInv, OffersAtMostTwice, BroadcastSound

LEMMA PumpStep ==
  ASSUME IInv, Pump
  PROVE  IInv'
<1>1. CASE PumpExpired
  BY <1>1, GiveUpStep DEF PumpExpired, Expired, GiveUp
<1>2. CASE PumpClosed
  BY <1>2, GiveUpStep DEF PumpClosed, Due, GiveUp
<1>3. CASE PumpSkip
  BY <1>3, SkipStep
<1>4. CASE \E t \in Ticks : PumpDeferred(t)
  BY <1>4, DeferStep DEF PumpDeferred
<1>5. CASE PumpRefused
  BY <1>5, GiveUpStep DEF PumpRefused, Offerable, Due, GiveUp
<1>6. CASE PumpSendError
  BY <1>6, GiveUpAfterOffer DEF PumpSendError, GiveUp, IInv, TypeOK
<1>7. CASE PumpBackpressure
  BY <1>7, BackpressureStep
<1>8. CASE PumpAccepted
  BY <1>8, AcceptedStep
<1> QED BY <1>1, <1>2, <1>3, <1>4, <1>5, <1>6, <1>7, <1>8 DEF Pump

LEMMA NextIInv == IInv /\ [Next]_vars => IInv'
<1> SUFFICES ASSUME IInv, [Next]_vars PROVE IInv'
  OBVIOUS
<1>0. now \in Ticks /\ closed \in BOOLEAN
  BY DEF IInv, TypeOK
<1>1. CASE \E m \in Msgs : Enqueue(m)
  BY <1>1, EnqueueStep
<1>2. CASE Pump
  BY <1>2, PumpStep
<1>3. CASE CancelAll
  BY <1>3, CancelStep
<1>4. CASE AdvanceClock
  BY <1>0, <1>4, StutterStep DEF AdvanceClock
<1>5. CASE CloseTransport
  BY <1>0, <1>5, StutterStep DEF CloseTransport
<1>6. CASE UNCHANGED vars
  BY <1>0, <1>6, StutterStep DEF vars
<1> QED BY <1>1, <1>2, <1>3, <1>4, <1>5, <1>6 DEF Next

\* The inductive invariant holds in every reachable state.
LEMMA Invariance == Spec => []IInv
BY InitIInv, NextIInv, PTL DEF Spec

-----------------------------------------------------------------------------
\* Every variable of TransmissionScheduler keeps its type; in particular due
\* and deadline never leave the tick range although now + delay may exceed it.
THEOREM TypeCorrect == Spec => []TypeOK
<1>1. IInv => TypeOK
  BY DEF IInv
<1> QED BY <1>1, Invariance, PTL

\* pump() hands no frame to the transport more than twice per enqueue,
\* however many frames a post has and whatever policy and transport answer.
THEOREM OfferLimit == Spec => []OffersAtMostTwice
<1>1. IInv => OffersAtMostTwice
  BY DEF IInv
<1> QED BY <1>1, Invariance, PTL

\* The event Broadcast is returned only for a post all of whose frames the
\* transport accepted.
THEOREM BroadcastMeaning == Spec => []BroadcastSound
<1>1. IInv => BroadcastSound
  BY DEF IInv
<1> QED BY <1>1, Invariance, PTL

\* The 2n + 2 random bytes drawn by enqueue for n frames are enough for all
\* the delays pump() ever reads from them.
THEOREM JitterSafe == Spec => []JitterInBounds
<1>1. IInv => JitterInBounds
  <2> SUFFICES ASSUME IInv, NEW i \in 1 .. Len(pending)
               PROVE  pending[i].jitter_index <= JitterCount(pending[i].id)
    BY DEF JitterInBounds
  <2> DEFINE p == pending[i]
  <2>1. p \in PendingMessage
    BY DEF IInv, TypeOK
  <2>2. Consistent(p, tries[p.id], outcome[p.id], accepted[p.id])
    BY DEF IInv, ConsistentAt
  <2>3. p.id \in Msgs /\ p.jitter_index \in Nat
        /\ \A f \in FragmentIds : p.offer_counts[f] \in Nat
    BY <2>1 DEF PendingMessage
  <2>4. /\ OfferedTimes(p, 1) \subseteq Indices(p.id)
        /\ OfferedTimes(p, 2) \subseteq Indices(p.id)
    BY <2>2, <2>3 DEF OfferedTimes, Consistent
  <2>5. /\ Cardinality(OfferedTimes(p, 1)) \in Nat
        /\ Cardinality(OfferedTimes(p, 1)) <= Fragments[p.id]
        /\ Cardinality(OfferedTimes(p, 2)) \in Nat
        /\ Cardinality(OfferedTimes(p, 2)) <= Fragments[p.id]
    BY <2>3, <2>4, CountBound
  <2>6. Fragments[p.id] \in Nat
    BY <2>3, SchedulerAssumption
  <2>7. p.jitter_index <=
          1 + Cardinality(OfferedTimes(p, 1)) + Cardinality(OfferedTimes(p, 2))
    BY <2>2 DEF Consistent
  <2> QED BY <2>3, <2>5, <2>6, <2>7 DEF JitterCount
<1> QED BY <1>1, Invariance, PTL

\* A post reported Broadcast by pump() is never reported Failed.
THEOREM BroadcastFinal == Spec => BroadcastNeverFails
<1>1. IInv /\ [Next]_vars =>
        [\A m \in Msgs : outcome[m] = "Broadcast" => outcome'[m] # "Failed"]_vars
  <2> SUFFICES ASSUME IInv, Next, NEW m \in Msgs, outcome[m] = "Broadcast"
               PROVE  outcome'[m] # "Failed"
    BY DEF vars
  <2>0. outcome \in [Msgs -> {"None", "Broadcast", "Failed"}]
    BY DEF IInv, TypeOK
  <2>1. ASSUME pending # << >>, ~Front.repeat_pass, FailFront
        PROVE  outcome'[m] # "Failed"
    <3>1. outcome[Front.id] = "None"
      BY <2>1, FrontFacts DEF Consistent
    <3> QED BY <2>0, <2>1, <3>1 DEF FailFront
  <2>2. ASSUME pending # << >>, GiveUp
        PROVE  outcome'[m] # "Failed"
    BY <2>1, <2>2 DEF GiveUp, DropFront
  <2>3. ASSUME NEW q, NextRepeatFragment(q)
        PROVE  outcome' = outcome
    BY <2>3 DEF NextRepeatFragment, DropFront, UpdateFront
  <2>4. CASE \E n \in Msgs : Enqueue(n)
    BY <2>0, <2>4 DEF Enqueue
  <2>5. CASE PumpExpired \/ PumpClosed \/ PumpRefused \/ PumpSendError
    BY <2>2, <2>5 DEF PumpExpired, PumpClosed, PumpRefused, PumpSendError,
      Expired, Offerable, Due
  <2>6. CASE PumpSkip
    BY <2>3, <2>6 DEF PumpSkip
  <2>7. CASE \E t \in Ticks : PumpDeferred(t)
    BY <2>7 DEF PumpDeferred, UpdateFront
  <2>8. CASE PumpBackpressure
    <3>1. pending # << >> /\ Offerable /\ CountTry
      BY <2>8 DEF PumpBackpressure, Offerable, Due
    <3>2. Offered.repeat_pass = Front.repeat_pass
      BY <3>1, OfferFacts
    <3>3. \/ NextRepeatFragment(Offered)
          \/ FailFront /\ ~Front.repeat_pass
          \/ outcome' = outcome
      BY <2>8, <3>2 DEF PumpBackpressure, UpdateFront
    <3> QED BY <2>1, <2>3, <3>1, <3>3
  <2>9. CASE PumpAccepted
    BY <2>0, <2>9 DEF PumpAccepted, UpdateFront, DropFront
  <2>10. CASE CancelAll \/ AdvanceClock \/ CloseTransport
    BY <2>10 DEF CancelAll, AdvanceClock, CloseTransport
  <2> QED BY <2>4, <2>5, <2>6, <2>7, <2>8, <2>9, <2>10 DEF Next, Pump
<1> QED BY <1>1, Invariance, PTL DEF Spec, BroadcastNeverFails

\* pump() offers an already accepted frame again only after Broadcast.
THEOREM RepeatOnlyAfterBroadcast == Spec => RepeatAfterBroadcast
<1>1. IInv /\ [Next]_vars =>
        [\A m \in Msgs : \A f \in Indices(m) :
           f \in accepted[m] /\ tries'[m][f] > tries[m][f]
             => outcome[m] = "Broadcast"]_vars
  <2> SUFFICES ASSUME IInv, Next, NEW m \in Msgs, NEW f \in Indices(m),
                      f \in accepted[m], tries'[m][f] > tries[m][f]
               PROVE  outcome[m] = "Broadcast"
    BY DEF vars
  <2>0. /\ tries \in [Msgs -> [FragmentIds -> Nat]] /\ f \in FragmentIds
        /\ tries[m][f] \in Nat
    BY IndicesFacts DEF IInv, TypeOK
  <2>1. tries' # tries
    BY <2>0
  <2>2. CASE Offerable /\ CountTry
    <3>1. pending # << >>
      BY <2>2 DEF Offerable, Due
    <3>2. m = Front.id /\ f = Front.fragment_index
      BY <2>0, <2>2, <3>1, FrontFacts DEF CountTry, PendingMessage
    <3>3. Front.fragment_index \in Int /\ Front.fragment_index \notin 0 .. Front.fragment_index - 1
      BY <3>1, FrontFacts, SchedulerAssumption DEF PendingMessage, FragmentIds
    <3> QED BY <3>1, <3>2, <3>3, FrontFacts DEF Consistent
  <2>3. CASE \E n \in Msgs : Enqueue(n)
    <3>1. PICK n \in Msgs : tries' = [tries EXCEPT ![n] = Zeros]
      BY <2>3 DEF Enqueue
    <3>2. tries'[m][f] = tries[m][f] \/ tries'[m][f] = 0
      BY <2>0, <3>1 DEF Zeros
    <3> QED BY <2>0, <3>2
  <2>4. CASE PumpSendError \/ PumpBackpressure \/ PumpAccepted
    BY <2>2, <2>4 DEF PumpSendError, PumpBackpressure, PumpAccepted
  <2> QED BY <2>1, <2>3, <2>4 DEF Next, Pump, PumpExpired, PumpClosed, PumpSkip,
        PumpDeferred, PumpRefused, CancelAll, AdvanceClock, CloseTransport
<1> QED BY <1>1, Invariance, PTL DEF Spec, RepeatAfterBroadcast

-----------------------------------------------------------------------------
(***************************************************************************)
(* Both ends.  PairInv says what the receiver's state owes to the sender's *)
(* history; with it every step of TwoNodes is a step of Delivery or leaves *)
(* Status and Reached alone.                                               *)
(***************************************************************************)

\* The frame is of a fragment that may have left the sender.
Sent(f) ==
  /\ f.post \in Msgs
  /\ f.index \in Left(f.post)

DoubtType == doubtful \in [Msgs -> SUBSET FragmentIds]

\* Only a post that was handed over is in the scheduler or has been.
HandedFirst ==
  \A m \in Msgs : m \notin handed =>
    outcome[m] = "None" /\ Left(m) = {} /\ ~Queued(m)

\* All of a post was accepted only when its outcome was reported; a transport
\* that failed with a frame in its hands is closed and accepts no more.
AllMeansConcluded ==
  \A m \in Msgs :
    /\ Indices(m) \subseteq accepted[m] => outcome[m] # "None"
    /\ doubtful[m] # {} => closed

\* The frames on the air, and the one the receiver is about to process.
AirborneSent == \A f \in airborne : Sent(f)

QueueSent ==
  queue # << >> =>
    /\ Tail(queue) = << >>
    /\ In!Taken \in Garbage \/ Sent(In!Taken)

\* A slot holds fragments of one post that may have left the sender.
SlotFields == {"key", "count", "deadline", "parts", "heard"}
OfOnePost(s) ==
  /\ DOMAIN s = SlotFields
  /\ \E m \in Msgs :
       /\ s.key = KeyOf[m] /\ s.count = Fragments[m]
       /\ DOMAIN s.parts \subseteq Left(m)
       /\ \A i \in DOMAIN s.parts : s.parts[i] = m

SlotsSent == \A s \in slots : OfOnePost(s)

PairInv ==
  /\ IInv /\ DoubtType
  /\ HandedFirst /\ AllMeansConcluded
  /\ AirborneSent /\ QueueSent /\ SlotsSent

-----------------------------------------------------------------------------
LEMMA SenderStep ==
  TwoNext => [Next]_vars
BY DEF TwoNext, Hand, Transmit, TransmitFails, SenderPump, SenderStops, SenderCloses, Tick,
   Hear, ReceiverPump, ReceiverTurnsAway, ReceiverIdles, ReceiverStops, ReceiverStarts, Next, Pump

\* Posts other than m keep their history and their place.
OnlyConcerns(m) ==
  \A n \in Msgs \ {m} :
    /\ outcome'[n] = outcome[n] /\ accepted'[n] = accepted[n]
    /\ Queued(n)' <=> Queued(n)

\* What a call of pump does to the post at the front.
FrontWaits(m) == outcome'[m] = outcome[m] /\ Queued(m)'
FrontEnds(m) == outcome[m] = "Broadcast" /\ outcome'[m] = "Broadcast"
FrontFails(m) == outcome[m] = "None" /\ outcome'[m] = "Failed"
FrontBroadcast(m) == outcome[m] = "None" /\ outcome'[m] = "Broadcast"

FrontMoves(m) ==
  /\ FrontWaits(m) \/ FrontEnds(m) \/ FrontFails(m) \/ FrontBroadcast(m)
  /\ accepted[m] \subseteq accepted'[m]
  /\ Indices(m) \subseteq accepted'[m] =>
       Indices(m) \subseteq accepted[m] \/ outcome'[m] = "Broadcast"

LEMMA TailQueued ==
  ASSUME IInv, pending # << >>, pending' = Tail(pending)
  PROVE  \A n \in Msgs : n # Front.id => (Queued(n)' <=> Queued(n))
<1>1. pending \in Seq(PendingMessage)
  BY DEF IInv, TypeOK
<1>2. /\ Len(pending) \in Nat \ {0} /\ Len(pending') = Len(pending) - 1
      /\ \A i \in 1 .. Len(pending') : pending'[i] = pending[i + 1]
  BY <1>1
<1>3. Front = pending[1]
  BY FrontFacts
<1> SUFFICES ASSUME NEW n \in Msgs, n # Front.id
             PROVE  Queued(n)' <=> Queued(n)
  OBVIOUS
<1>4. ASSUME Queued(n)' PROVE Queued(n)
  <2>1. PICK i \in 1 .. Len(pending') : pending'[i].id = n
    BY <1>4 DEF Queued
  <2>2. i + 1 \in 1 .. Len(pending) /\ pending[i + 1].id = n
    BY <1>2, <2>1
  <2> QED BY <2>2 DEF Queued
<1>5. ASSUME Queued(n) PROVE Queued(n)'
  <2>1. PICK i \in 1 .. Len(pending) : pending[i].id = n
    BY <1>5 DEF Queued
  <2>2. i # 1
    BY <1>3, <2>1
  <2>3. i - 1 \in 1 .. Len(pending') /\ (i - 1) + 1 = i
    BY <1>2, <2>2
  <2>4. pending'[i - 1].id = n
    BY <1>2, <2>1, <2>3
  <2> QED BY <2>3, <2>4 DEF Queued
<1> QED BY <1>4, <1>5

LEMMA UpdateQueued ==
  ASSUME IInv, pending # << >>, NEW m, m = Front.id, NEW p, p.id = m,
         pending' = [pending EXCEPT ![1] = p]
  PROVE  /\ \A n \in Msgs : Queued(n)' <=> Queued(n)
         /\ Queued(m)'
<1>1. pending \in Seq(PendingMessage)
  BY DEF IInv, TypeOK
<1>2. Len(pending) \in Nat \ {0} /\ 1 \in DOMAIN pending /\ DOMAIN pending = 1 .. Len(pending)
  BY <1>1
<1>3. /\ Len(pending') = Len(pending)
      /\ \A i \in 1 .. Len(pending) : pending'[i] = IF i = 1 THEN p ELSE pending[i]
  BY <1>1, <1>2
<1>4. \A i \in 1 .. Len(pending) : pending'[i].id = pending[i].id
  BY <1>3, FrontFacts
<1>5. \A n \in Msgs : Queued(n)' <=> Queued(n)
  BY <1>3, <1>4 DEF Queued
<1>6. pending'[1].id = m /\ 1 \in 1 .. Len(pending')
  BY <1>2, <1>3
<1>7. Queued(m)'
  BY <1>6 DEF Queued
<1> QED BY <1>5, <1>7
\* FailFront and DropFront, when the code reaches them.
LEMMA GiveUpEffect ==
  ASSUME IInv, pending # << >>, NEW m, m = Front.id,
         GiveUp \/ (FailFront /\ ~Front.repeat_pass) \/ (DropFront /\ Front.repeat_pass),
         accepted' = accepted
  PROVE  OnlyConcerns(m) /\ FrontMoves(m)
<1>1. /\ Consistent(Front, tries[m], outcome[m], accepted[m])
      /\ m \in Msgs
  BY FrontFacts
<1>2. outcome \in [Msgs -> {"None", "Broadcast", "Failed"}]
  BY DEF IInv, TypeOK
<1>3. pending' = Tail(pending)
  BY DEF GiveUp, FailFront, DropFront
<1>4. \A n \in Msgs : n # m => (Queued(n)' <=> Queued(n))
  BY <1>3, TailQueued
<1>5. CASE ~Front.repeat_pass
  <2>1. outcome' = [outcome EXCEPT ![m] = "Failed"] /\ outcome[m] = "None"
    BY <1>1, <1>5 DEF GiveUp, FailFront, Consistent
  <2>2. FrontMoves(m)
    BY <1>1, <1>2, <2>1 DEF FrontMoves, FrontFails
  <2> QED BY <1>2, <1>4, <2>1, <2>2 DEF OnlyConcerns
<1>6. CASE Front.repeat_pass
  <2>1. outcome' = outcome /\ outcome[m] = "Broadcast"
    BY <1>1, <1>6 DEF GiveUp, DropFront, Consistent
  <2>2. FrontMoves(m)
    BY <2>1 DEF FrontMoves, FrontEnds
  <2> QED BY <1>4, <2>1, <2>2 DEF OnlyConcerns
<1> QED BY <1>5, <1>6

\* The front changes and stays, and no fragment is accepted.
LEMMA StayEffect ==
  ASSUME IInv, pending # << >>, NEW m, m = Front.id, NEW p, p.id = m,
         UpdateFront(p), accepted' = accepted
  PROVE  OnlyConcerns(m) /\ FrontMoves(m)
<1>1. \A n \in Msgs : Queued(n)' <=> Queued(n)
  BY UpdateQueued DEF UpdateFront
<1>2. Queued(m)'
  BY UpdateQueued DEF UpdateFront
<1>3. outcome' = outcome
  BY DEF UpdateFront
<1> QED BY <1>1, <1>2, <1>3 DEF OnlyConcerns, FrontMoves, FrontWaits

LEMMA NextRepeatEffect ==
  ASSUME IInv, pending # << >>, NEW m, m = Front.id, Front.repeat_pass,
         NEW q \in PendingMessage, q.id = m, NextRepeatFragment(q),
         accepted' = accepted
  PROVE  OnlyConcerns(m) /\ FrontMoves(m)
<1>1. CASE DropFront
  BY <1>1, GiveUpEffect
<1>2. CASE UpdateFront([q EXCEPT !.fragment_index = @ + 1, !.due = now])
  <2>1. PICK p : p = [q EXCEPT !.fragment_index = @ + 1, !.due = now]
    OBVIOUS
  <2>2. p.id = m
    BY <2>1 DEF PendingMessage
  <2>3. UpdateFront(p)
    BY <1>2, <2>1
  <2> QED BY <2>2, <2>3, StayEffect
<1> QED BY <1>1, <1>2 DEF NextRepeatFragment

LEMMA BackpressureEffect ==
  ASSUME IInv, PumpBackpressure, NEW m, m = Front.id
  PROVE  OnlyConcerns(m) /\ FrontMoves(m)
<1>1. Offerable /\ CountTry /\ accepted' = accepted /\ pending # << >>
  BY DEF PumpBackpressure, Offerable, Due
<1>2. PICK q \in PendingMessage :
        /\ q = Offered /\ q.id = m /\ q.repeat_pass = Front.repeat_pass
  BY <1>1, OfferFacts
<1>3. \/ NextRepeatFragment(q) /\ Front.repeat_pass
      \/ FailFront /\ ~Front.repeat_pass
      \/ \E b \in JitterBytes : UpdateFront([q EXCEPT !.jitter_index = @ + 1, !.due =
           SaturatingAdd(now, RetryDelay + ScaledJitter(b, RetryJitterMax))])
  BY <1>2 DEF PumpBackpressure
<1>4. CASE \E b \in JitterBytes : UpdateFront([q EXCEPT !.jitter_index = @ + 1, !.due =
           SaturatingAdd(now, RetryDelay + ScaledJitter(b, RetryJitterMax))])
  <2>1. PICK p, d : UpdateFront(p) /\ p = [q EXCEPT !.jitter_index = @ + 1, !.due = d]
    BY <1>4
  <2>2. p.id = m
    BY <1>2, <2>1 DEF PendingMessage
  <2> QED BY <1>1, <2>1, <2>2, StayEffect
<1> QED BY <1>1, <1>2, <1>3, <1>4, NextRepeatEffect, GiveUpEffect

LEMMA DeferEffect ==
  ASSUME IInv, NEW t \in Ticks, PumpDeferred(t), NEW m, m = Front.id
  PROVE  OnlyConcerns(m) /\ FrontMoves(m)
<1>1. accepted' = accepted /\ pending # << >>
  BY DEF PumpDeferred, Offerable, Due
<1>2. PICK p, d : UpdateFront(p) /\ p = [Front EXCEPT !.due = d]
  BY DEF PumpDeferred
<1>3. p.id = m
  BY <1>1, <1>2, FrontFacts DEF PendingMessage
<1> QED BY <1>1, <1>2, <1>3, StayEffect

\* The fragment is accepted: the train moves on, is reported Broadcast, or ends.
LEMMA AcceptedEffect ==
  ASSUME IInv, PumpAccepted, NEW m, m = Front.id
  PROVE  OnlyConcerns(m) /\ FrontMoves(m)
<1>1. Offerable /\ CountTry /\ pending # << >>
      /\ accepted' = [accepted EXCEPT ![m] = @ \cup {Front.fragment_index}]
  BY DEF PumpAccepted, Offerable, Due
<1>2. PICK q : q = Advanced(Offered) /\ q.id = m
  <2>1. Offered \in PendingMessage /\ Offered.id = m
    BY <1>1, OfferFacts
  <2>2. Advanced(Offered).id = Offered.id
    BY <2>1 DEF Advanced, PendingMessage
  <2> QED BY <2>1, <2>2
<1>3. /\ outcome \in [Msgs -> {"None", "Broadcast", "Failed"}]
      /\ accepted \in [Msgs -> SUBSET FragmentIds]
  BY DEF IInv, TypeOK
<1>4. /\ m \in Msgs /\ Front.fragment_index \in Nat
      /\ Consistent(Front, tries[m], outcome[m], accepted[m])
  BY <1>1, FrontFacts, FragmentFacts DEF PendingMessage, FragmentIds
<1>5. /\ accepted[m] \subseteq accepted'[m]
      /\ \A n \in Msgs : n # m => accepted'[n] = accepted[n]
      /\ accepted'[m] = accepted[m] \cup {Front.fragment_index}
  BY <1>1, <1>3, <1>4
<1>6. CASE ~LastFragment(Front)
  <2>1. PICK p, d : UpdateFront(p) /\ p = [q EXCEPT !.due = d]
    BY <1>2, <1>6 DEF PumpAccepted
  <2>2. p.id = m
    BY <1>2, <2>1 DEF Advanced, Offered
  <2>3. /\ \A n \in Msgs : Queued(n)' <=> Queued(n)
        /\ Queued(m)' /\ outcome' = outcome
    BY <1>1, <2>1, <2>2, UpdateQueued DEF UpdateFront
  <2>4. CASE Front.repeat_pass
    <3>1. outcome[m] = "Broadcast"
      BY <1>4, <2>4 DEF Consistent
    <3> QED BY <1>5, <2>3, <3>1 DEF OnlyConcerns, FrontMoves, FrontWaits
  <2>5. CASE ~Front.repeat_pass
    <3>1. accepted[m] = 0 .. Front.fragment_index - 1
          /\ Front.fragment_index < Fragments[m] /\ Front.fragment_index + 1 # Fragments[m]
      BY <1>4, <1>6, <2>5 DEF Consistent, LastFragment
    <3>2. Fragments[m] - 1 \in Indices(m) /\ Fragments[m] - 1 \notin accepted'[m]
      BY <1>4, <1>5, <3>1, FragmentFacts DEF Indices
    <3> QED BY <1>5, <2>3, <3>2 DEF OnlyConcerns, FrontMoves, FrontWaits
  <2> QED BY <2>4, <2>5
<1>7. CASE LastFragment(Front) /\ ~Front.repeat_pass
  <2>1. PICK p, d : /\ pending' = [pending EXCEPT ![1] = p]
                    /\ p = [q EXCEPT !.repeat_pass = TRUE, !.fragment_index = 0, !.due = d]
    BY <1>2, <1>7 DEF PumpAccepted
  <2>2. p.id = m
    BY <1>2, <2>1 DEF Advanced, Offered
  <2>3. \A n \in Msgs : Queued(n)' <=> Queued(n)
    BY <1>1, <2>1, <2>2, UpdateQueued
  <2>4. outcome' = [outcome EXCEPT ![m] = "Broadcast"] /\ outcome[m] = "None"
    BY <1>4, <1>7 DEF PumpAccepted, Consistent
  <2> QED BY <1>3, <1>4, <1>5, <2>3, <2>4 DEF OnlyConcerns, FrontMoves, FrontBroadcast
<1>8. CASE LastFragment(Front) /\ Front.repeat_pass
  <2>1. pending' = Tail(pending) /\ outcome' = outcome
    BY <1>8 DEF PumpAccepted, DropFront
  <2>2. \A n \in Msgs : n # m => (Queued(n)' <=> Queued(n))
    BY <1>1, <2>1, TailQueued
  <2>3. outcome[m] = "Broadcast"
    BY <1>4, <1>8 DEF Consistent
  <2> QED BY <1>5, <2>1, <2>2, <2>3 DEF OnlyConcerns, FrontMoves, FrontEnds
<1> QED BY <1>6, <1>7, <1>8

LEMMA PumpEffect ==
  ASSUME IInv, Pump, NEW m, m = Front.id
  PROVE  /\ m \in Msgs /\ Queued(m)
         /\ OnlyConcerns(m) /\ FrontMoves(m)
<1>1. pending # << >>
  BY DEF Pump, PumpExpired, PumpClosed, PumpSkip, PumpDeferred, PumpRefused,
     PumpSendError, PumpBackpressure, PumpAccepted, Expired, Offerable, Due
<1>2. m \in Msgs /\ Front \in PendingMessage /\ Queued(m)
  BY <1>1, FrontFacts DEF Queued
<1>3. CASE PumpExpired \/ PumpClosed \/ PumpRefused \/ PumpSendError
  <2>1. GiveUp /\ accepted' = accepted
    BY <1>3 DEF PumpExpired, PumpClosed, PumpRefused, PumpSendError
  <2> QED BY <1>1, <1>2, <2>1, GiveUpEffect
<1>4. CASE PumpSkip
  <2>1. Front.repeat_pass /\ accepted' = accepted
    BY <1>4 DEF PumpSkip, Spent
  <2>2. PICK q \in PendingMessage : q = Front /\ NextRepeatFragment(q)
    BY <1>2, <1>4 DEF PumpSkip
  <2> QED BY <1>1, <1>2, <2>1, <2>2, NextRepeatEffect
<1>5. CASE \E t \in Ticks : PumpDeferred(t)
  BY <1>2, <1>5, DeferEffect
<1>6. CASE PumpBackpressure \/ PumpAccepted
  BY <1>2, <1>6, BackpressureEffect, AcceptedEffect
<1> QED BY <1>3, <1>4, <1>5, <1>6 DEF Pump

-----------------------------------------------------------------------------
(* The sender's half: what the history says of a post is never taken back. *)

\* What a step may do to what both ends know of a post.
GoesOn ==
  \A m \in Msgs :
    /\ Left(m) \subseteq Left(m)'
    /\ outcome[m] # "None" => outcome'[m] = outcome[m]

LEMMA HandEffect ==
  ASSUME PairInv, NEW m \in Msgs, Hand(m)
  PROVE  /\ outcome[m] = "None" /\ ~Queued(m) /\ m \notin handed
         /\ outcome' = outcome /\ accepted' = accepted
         /\ handed' = handed \cup {m}
         /\ \A n \in Msgs : Queued(n)' <=> Queued(n) \/ n = m
<1>1. m \notin handed /\ handed' = handed \cup {m} /\ Enqueue(m)
  BY DEF Hand
<1>2. outcome[m] = "None" /\ accepted[m] = {} /\ ~Queued(m)
  BY <1>1 DEF PairInv, HandedFirst, Left
<1>3. outcome' = outcome /\ accepted' = accepted
  BY <1>1, <1>2 DEF Enqueue, PairInv, IInv, TypeOK
<1>4. pending \in Seq(PendingMessage)
  BY DEF PairInv, IInv, TypeOK
<1>5. PICK p : p.id = m /\ pending' = Append(pending, p)
  BY <1>1 DEF Enqueue
<1>6. /\ Len(pending') = Len(pending) + 1 /\ Len(pending) \in Nat
      /\ \A i \in 1 .. Len(pending) : pending'[i] = pending[i]
      /\ pending'[Len(pending) + 1] = p
  BY <1>4, <1>5
<1>7. ASSUME NEW n \in Msgs
      PROVE  Queued(n)' <=> Queued(n) \/ n = m
  <2>1. \A i \in 1 .. Len(pending') : i \in 1 .. Len(pending) \/ i = Len(pending) + 1
    BY <1>6
  <2>2. /\ \A i \in 1 .. Len(pending) : i \in 1 .. Len(pending')
        /\ Len(pending) + 1 \in 1 .. Len(pending')
    BY <1>6
  <2> QED BY <1>5, <1>6, <2>1, <2>2 DEF Queued
<1> QED BY <1>1, <1>2, <1>3, <1>7

\* The post at the front waits or is in its repeat pass.
LEMMA FrontUndecided ==
  ASSUME IInv, pending # << >>, NEW m, m = Front.id
  PROVE  outcome[m] \in {"None", "Broadcast"}
<1>1. Consistent(Front, tries[m], outcome[m], accepted[m]) /\ Front \in PendingMessage
  BY FrontFacts
<1> QED BY <1>1 DEF Consistent, PendingMessage

\* A closed transport stays closed.
LEMMA PumpStaysClosed ==
  ASSUME Pump, closed
  PROVE  closed'
BY DEF Pump, PumpExpired, PumpClosed, PumpSkip, PumpDeferred, PumpRefused,
   PumpSendError, PumpBackpressure, PumpAccepted, Offerable

\* Only what the transport accepts is broadcast.
LEMMA BroadcastWhileOpen ==
  ASSUME IInv, Pump, NEW m \in Msgs, outcome[m] = "None", outcome'[m] = "Broadcast"
  PROVE  ~closed
<1>1. outcome \in [Msgs -> {"None", "Broadcast", "Failed"}]
  BY DEF IInv, TypeOK
<1>2. ~(PumpExpired \/ PumpClosed)
  BY <1>1 DEF PumpExpired, PumpClosed, GiveUp, DropFront, FailFront
<1> QED BY <1>2 DEF Pump, PumpSkip, PumpDeferred, PumpRefused, PumpSendError,
     PumpBackpressure, PumpAccepted, Offerable

\* The posts of a step of pump, and what becomes of all of them.
LEMMA PumpGoesOn ==
  ASSUME PairInv, Pump, handed' = handed,
         \/ doubtful' = doubtful
         \/ /\ closed'
            /\ doubtful' = [doubtful EXCEPT ![Front.id] = @ \cup {Front.fragment_index}]
  PROVE  DoubtType' /\ GoesOn /\ HandedFirst' /\ AllMeansConcluded'
<1>1. PICK m : m = Front.id
  OBVIOUS
<1>2. m \in Msgs /\ Queued(m) /\ OnlyConcerns(m) /\ FrontMoves(m)
  BY <1>1, PumpEffect DEF PairInv
<1>3. m \in handed
  BY <1>2 DEF PairInv, HandedFirst
<1>4. pending # << >> /\ Front.fragment_index \in FragmentIds
  <2>1. pending # << >>
    BY DEF Pump, PumpExpired, PumpClosed, PumpSkip, PumpDeferred, PumpRefused,
       PumpSendError, PumpBackpressure, PumpAccepted, Expired, Offerable, Due
  <2> QED BY <2>1, FrontFacts DEF PairInv, PendingMessage
<1>5. doubtful \in [Msgs -> SUBSET FragmentIds]
  BY DEF PairInv, DoubtType
<1>6. /\ \A n \in Msgs : doubtful[n] \subseteq doubtful'[n]
      /\ \A n \in Msgs \ {m} : doubtful'[n] = doubtful[n]
      /\ doubtful' \in [Msgs -> SUBSET FragmentIds]
      /\ doubtful'[m] # doubtful[m] => closed'
  <2>1. PICK x \in FragmentIds : x = Front.fragment_index
    BY <1>4
  <2>2. CASE doubtful' = doubtful
    BY <1>5, <2>2
  <2>3. CASE closed' /\ doubtful' = [doubtful EXCEPT ![m] = @ \cup {x}]
    BY <1>2, <1>5, <2>1, <2>3
  <2> QED BY <1>1, <2>1, <2>2, <2>3
<1>7. outcome[m] # "None" => outcome'[m] = outcome[m]
  BY <1>2 DEF FrontMoves, FrontWaits, FrontEnds, FrontFails, FrontBroadcast
<1>8. DoubtType'
  BY <1>6 DEF DoubtType, FragmentIds
<1>9. GoesOn
  BY <1>2, <1>6, <1>7 DEF GoesOn, Left, OnlyConcerns, FrontMoves
<1>10. HandedFirst'
  BY <1>2, <1>3, <1>6 DEF PairInv, HandedFirst, Left, OnlyConcerns
<1>11. \A n \in Msgs : doubtful'[n] # {} => closed'
  BY <1>6, PumpStaysClosed DEF PairInv, AllMeansConcluded
<1>12. Indices(m) \subseteq accepted'[m] => outcome'[m] # "None"
  BY <1>2, <1>7 DEF PairInv, AllMeansConcluded, FrontMoves
<1>13. ASSUME NEW n \in Msgs, n # m
       PROVE  Indices(n) \subseteq accepted'[n] => outcome'[n] # "None"
  BY <1>2, <1>13 DEF OnlyConcerns, PairInv, AllMeansConcluded
<1>14. AllMeansConcluded'
  BY <1>11, <1>12, <1>13 DEF AllMeansConcluded, Indices
<1> QED BY <1>8, <1>9, <1>10, <1>14

LEMMA SenderKeeps ==
  ASSUME PairInv, TwoNext
  PROVE  IInv' /\ DoubtType' /\ GoesOn /\ HandedFirst' /\ AllMeansConcluded'
<1>1. IInv'
  BY SenderStep, NextIInv DEF PairInv
<1>2. CASE \E m \in Msgs : Hand(m)
  <2>1. PICK m \in Msgs : Hand(m)
    BY <1>2
  <2>2. /\ outcome' = outcome /\ accepted' = accepted /\ doubtful' = doubtful
        /\ handed' = handed \cup {m} /\ closed' = closed
        /\ \A n \in Msgs : Queued(n)' <=> Queued(n) \/ n = m
    BY <2>1, HandEffect DEF Hand, Enqueue
  <2>3. DoubtType' /\ GoesOn /\ AllMeansConcluded'
    BY <2>2 DEF PairInv, DoubtType, GoesOn, AllMeansConcluded, Left, Indices, FragmentIds
  <2> QED BY <1>1, <2>2, <2>3 DEF PairInv, HandedFirst, Left
<1>3. CASE Transmit \/ TransmitFails \/ SenderPump
  <2>1. /\ Pump /\ handed' = handed
        /\ \/ doubtful' = doubtful
           \/ /\ closed'
              /\ doubtful' = [doubtful EXCEPT ![Front.id] = @ \cup {Front.fragment_index}]
    BY <1>3 DEF Transmit, TransmitFails, SenderPump, Pump
  <2> QED BY <1>1, <2>1, PumpGoesOn
<1>4. CASE SenderStops
  <2>1. /\ outcome' = outcome /\ accepted' = accepted /\ handed' = handed
        /\ pending' = << >> /\ doubtful' = doubtful /\ closed' = closed
    BY <1>4 DEF SenderStops, CancelAll
  <2>2. \A m \in Msgs : ~Queued(m)'
    BY <2>1 DEF Queued
  <2>3. DoubtType' /\ GoesOn /\ AllMeansConcluded'
    BY <2>1 DEF PairInv, DoubtType, GoesOn, AllMeansConcluded, Left, Indices, FragmentIds
  <2> QED BY <1>1, <2>1, <2>2, <2>3 DEF PairInv, HandedFirst, Left
<1>5. CASE /\ UNCHANGED <<outcome, accepted, handed, pending, doubtful>>
           /\ closed => closed'
  <2>1. DoubtType' /\ GoesOn /\ AllMeansConcluded'
    BY <1>5 DEF PairInv, DoubtType, GoesOn, AllMeansConcluded, Left, Indices, FragmentIds
  <2> QED BY <1>1, <1>5, <2>1 DEF PairInv, HandedFirst, Left, Queued
<1>6. CASE \/ SenderCloses
           \/ Tick
           \/ \E f \in airborne \cup Garbage : Hear(f)
           \/ ReceiverPump \/ ReceiverTurnsAway \/ ReceiverIdles
           \/ ReceiverStops \/ ReceiverStarts
  <2>1. /\ UNCHANGED <<outcome, accepted, handed, pending, doubtful>>
        /\ closed => closed'
    BY <1>6 DEF SenderCloses, CloseTransport, Tick, AdvanceClock, Hear, ReceiverPump,
       ReceiverTurnsAway, ReceiverIdles, ReceiverStops, ReceiverStarts, vars
  <2> QED BY <1>5, <2>1
<1> QED BY <1>2, <1>3, <1>4, <1>6 DEF TwoNext

-----------------------------------------------------------------------------
(* The receiver's half. *)

LEMMA StillOfOnePost ==
  ASSUME GoesOn, NEW s, OfOnePost(s)
  PROVE  OfOnePost(s)'
<1>1. PICK m \in Msgs :
        /\ s.key = KeyOf[m] /\ s.count = Fragments[m]
        /\ DOMAIN s.parts \subseteq Left(m)
        /\ \A i \in DOMAIN s.parts : s.parts[i] = m
  BY DEF OfOnePost
<1>2. DOMAIN s.parts \subseteq Left(m)'
  BY <1>1 DEF GoesOn
<1> QED BY <1>1, <1>2 DEF OfOnePost, SlotFields

LEMMA SlotsKept ==
  ASSUME PairInv, GoesOn, \A s \in slots' : s \in slots \/ OfOnePost(s)
  PROVE  SlotsSent'
<1>1. \A s \in slots' : OfOnePost(s)
  BY DEF PairInv, SlotsSent
<1>2. \A s \in slots' : OfOnePost(s)'
  BY <1>1, StillOfOnePost
<1> QED BY <1>2 DEF SlotsSent

LEMMA FrameTaken ==
  ASSUME PairInv, queue # << >>, In!Taken \in In!Frames
  PROVE  Sent(In!Taken)
BY TwoNodesAssumption DEF PairInv, QueueSent

\* The slot a frame goes to is of the frame's post.
LEMMA TargetOfPost ==
  ASSUME PairInv, queue # << >>, In!Taken \in In!Frames, NEW s \in In!Targets
  PROVE  LET m == In!Taken.post IN
         /\ m \in Msgs /\ s.key = KeyOf[m] /\ s.count = Fragments[m]
         /\ DOMAIN s = SlotFields /\ DOMAIN s.parts \subseteq Left(m)
         /\ \A i \in DOMAIN s.parts : s.parts[i] = m
<1> DEFINE m == In!Taken.post
<1>1. m \in Msgs
  BY FrameTaken DEF Sent
<1>2. CASE s \in In!Matching
  <2>1. s \in slots /\ s.key = KeyOf[m]
    BY <1>2 DEF In!Matching, In!LiveSlots, In!SameKey, In!Key
  <2>2. PICK n \in Msgs :
          /\ s.key = KeyOf[n] /\ s.count = Fragments[n]
          /\ DOMAIN s = SlotFields /\ DOMAIN s.parts \subseteq Left(n)
          /\ \A i \in DOMAIN s.parts : s.parts[i] = n
    BY <2>1 DEF PairInv, SlotsSent, OfOnePost
  <2>3. n = m
    BY <1>1, <2>1, <2>2, TwoNodesAssumption
  <2> QED BY <1>1, <2>2, <2>3
<1>3. CASE s = In!Opened
  BY <1>1, <1>3 DEF In!Opened, In!Key, SlotFields
<1> QED BY <1>2, <1>3 DEF In!Targets

\* The fragment is copied into the slot, which is otherwise as it was.
LEMMA FilledFacts ==
  ASSUME NEW s, DOMAIN s = SlotFields
  PROVE  LET t == In!Filled(s) IN
         /\ DOMAIN t = SlotFields
         /\ t.key = s.key /\ t.count = s.count /\ t.deadline = s.deadline
         /\ t.parts = [i \in DOMAIN s.parts \cup {In!Taken.index} |->
                        IF i = In!Taken.index THEN In!Taken.post ELSE s.parts[i]]
         /\ DOMAIN t.parts = DOMAIN s.parts \cup {In!Taken.index}
BY DEF In!Filled, SlotFields

LEMMA FilledOfPost ==
  ASSUME PairInv, queue # << >>, In!Taken \in In!Frames, NEW s \in In!Targets
  PROVE  LET m == In!Taken.post IN
         /\ m \in Msgs /\ In!Filled(s).key = KeyOf[m] /\ In!Filled(s).count = Fragments[m]
         /\ DOMAIN In!Filled(s) = SlotFields
         /\ DOMAIN In!Filled(s).parts \subseteq Left(m)
         /\ In!Filled(s).parts = [i \in DOMAIN In!Filled(s).parts |-> m]
<1> DEFINE m == In!Taken.post
<1>1. /\ m \in Msgs /\ s.key = KeyOf[m] /\ s.count = Fragments[m]
      /\ DOMAIN s = SlotFields /\ DOMAIN s.parts \subseteq Left(m)
      /\ \A i \in DOMAIN s.parts : s.parts[i] = m
  BY TargetOfPost
<1>2. In!Taken.index \in Left(m)
  BY FrameTaken DEF Sent
<1> DEFINE filled == [i \in DOMAIN s.parts \cup {In!Taken.index} |->
                        IF i = In!Taken.index THEN In!Taken.post ELSE s.parts[i]]
<1>3. /\ In!Filled(s).key = s.key /\ In!Filled(s).count = s.count
      /\ In!Filled(s).parts = filled /\ DOMAIN In!Filled(s) = SlotFields
  BY <1>1, FilledFacts
<1>4. DOMAIN filled \subseteq Left(m) /\ filled = [i \in DOMAIN filled |-> m]
  BY <1>1, <1>2
<1> QED BY <1>1, <1>3, <1>4

\* A completed slot is the whole of a post, all of which may have left.
LEMMA CompletedIsWhole ==
  ASSUME PairInv, NEW content, In!Completed(content)
  PROVE  /\ In!Taken.post \in Msgs /\ content = Whole(In!Taken.post)
         /\ Indices(In!Taken.post) \subseteq Left(In!Taken.post)
<1>1. queue # << >> /\ In!Taken \in In!Frames
  BY DEF In!Completed, In!ToReassembler, In!Take
<1>2. PICK s \in In!Targets : In!Complete(In!Filled(s)) /\ content = In!Filled(s).parts
  BY DEF In!Completed
<1> DEFINE m == In!Taken.post
<1>3. /\ m \in Msgs /\ In!Filled(s).count = Fragments[m]
      /\ DOMAIN In!Filled(s).parts \subseteq Left(m)
      /\ In!Filled(s).parts = [i \in DOMAIN In!Filled(s).parts |-> m]
  BY <1>1, FilledOfPost
<1>4. DOMAIN content = Indices(m)
  BY <1>2, <1>3 DEF In!Complete, Indices
<1>5. content = Whole(m)
  BY <1>2, <1>3, <1>4 DEF Whole
<1>6. Indices(m) \subseteq Left(m)
  BY <1>2, <1>3, <1>4
<1> QED BY <1>3, <1>5, <1>6

\* What process_next may do to the slots.
LEMMA ProcessSlots ==
  ASSUME PairInv, In!Process
  PROVE  \A s \in slots' : s \in slots \/ OfOnePost(s)
<1>1. CASE In!Expire \/ In!Discard
  BY <1>1 DEF In!Expire, In!Discard, In!LiveSlots
<1>2. CASE In!ProcessDuplicateFragment
  <2>1. queue # << >> /\ In!Taken \in In!Frames
    BY <1>2 DEF In!ProcessDuplicateFragment, In!ToReassembler, In!Take
  <2>2. PICK s \in In!Targets : slots' = (In!LiveSlots \ {s}) \cup {s}
    BY <1>2 DEF In!ProcessDuplicateFragment, In!Repeated
  <2>3. OfOnePost(s)
    BY <2>1, TargetOfPost DEF OfOnePost
  <2> QED BY <2>2, <2>3 DEF In!LiveSlots
<1>3. CASE In!ProcessFragmentAccepted
  <2>1. queue # << >> /\ In!Taken \in In!Frames
    BY <1>3 DEF In!ProcessFragmentAccepted, In!ToReassembler, In!Take
  <2>2. PICK s \in In!Targets : slots' = (In!LiveSlots \ {s}) \cup {In!Filled(s)}
    BY <1>3 DEF In!ProcessFragmentAccepted
  <2>3. OfOnePost(In!Filled(s))
    <3>1. PICK f : f = In!Filled(s)
      OBVIOUS
    <3>2. PICK m \in Msgs :
            /\ f.key = KeyOf[m] /\ f.count = Fragments[m]
            /\ DOMAIN f = SlotFields /\ DOMAIN f.parts \subseteq Left(m)
            /\ f.parts = [i \in DOMAIN f.parts |-> m]
      BY <2>1, <3>1, FilledOfPost
    <3>3. \A i \in DOMAIN f.parts : f.parts[i] = m
      BY <3>2
    <3> QED BY <3>1, <3>2, <3>3 DEF OfOnePost
  <2> QED BY <2>2, <2>3 DEF In!LiveSlots
<1>4. CASE In!ProcessConflict \/ In!ProcessInvalidPost
           \/ In!ProcessCommitted \/ In!ProcessNotCommitted
  <2>1. slots' \subseteq In!LiveSlots
    BY <1>4 DEF In!ProcessConflict, In!ProcessInvalidPost, In!ProcessCommitted,
       In!ProcessNotCommitted, In!Completed
  <2> QED BY <2>1 DEF In!LiveSlots
<1> QED BY <1>1, <1>2, <1>3, <1>4 DEF In!Process, In!ProcessEmpty, In!ProcessStale,
  In!ProcessRecentDuplicate, In!ProcessMalformed, In!ProcessQuarantined,
  In!ProcessCapacityExceeded

LEMMA ProcessQueue ==
  ASSUME PairInv, In!Process
  PROVE  queue' = << >>
<1>1. CASE In!Take
  BY <1>1 DEF In!Take, PairInv, QueueSent
<1>2. CASE In!ProcessEmpty
  BY <1>2 DEF In!ProcessEmpty
<1> QED BY <1>1, <1>2 DEF In!Process, In!ProcessStale, In!ProcessRecentDuplicate,
  In!ProcessMalformed, In!ProcessQuarantined, In!ProcessCapacityExceeded,
  In!ProcessDuplicateFragment, In!ProcessConflict, In!ProcessFragmentAccepted,
  In!ProcessInvalidPost, In!ProcessCommitted, In!ProcessNotCommitted,
  In!Completed, In!ToReassembler

\* Only a completed slot adds to what is stored.
LEMMA ProcessStored ==
  ASSUME PairInv, In!Process
  PROVE  \/ stored' = stored
         \/ \E m \in Msgs : Indices(m) \subseteq Left(m) /\ stored' = stored \cup {Whole(m)}
<1>1. CASE In!ProcessCommitted
  <2>1. PICK content : In!Completed(content) /\ stored' = stored \cup {content}
    BY <1>1 DEF In!ProcessCommitted
  <2> QED BY <2>1, CompletedIsWhole
<1> QED BY <1>1 DEF In!Process, In!ProcessEmpty, In!ProcessStale, In!ProcessRecentDuplicate,
  In!ProcessMalformed, In!ProcessQuarantined, In!ProcessCapacityExceeded, In!Discard,
  In!ProcessDuplicateFragment, In!ProcessConflict, In!ProcessFragmentAccepted,
  In!ProcessInvalidPost, In!ProcessNotCommitted

LEMMA ReceiverProcesses ==
  ReceiverPump \/ ReceiverTurnsAway \/ ReceiverIdles =>
    In!Process /\ UNCHANGED <<vars, handed, airborne, doubtful>>
BY DEF ReceiverPump, ReceiverTurnsAway, ReceiverIdles, In!Process

LEMMA ReceiverKeeps ==
  ASSUME PairInv, TwoNext, GoesOn
  PROVE  AirborneSent' /\ QueueSent' /\ SlotsSent'
<1>0. AirborneSent /\ QueueSent
  BY DEF PairInv
<1>1. ASSUME airborne' = airborne PROVE AirborneSent'
  BY <1>0, <1>1 DEF AirborneSent, Sent, GoesOn
<1>2. ASSUME queue' = queue PROVE QueueSent'
  BY <1>0, <1>2 DEF QueueSent, Sent, GoesOn, In!Taken
<1>3. ASSUME queue' = << >> PROVE QueueSent'
  BY <1>3 DEF QueueSent
<1>4. CASE receiver' = receiver /\ airborne' = airborne
  BY <1>1, <1>2, <1>4, SlotsKept DEF receiver
<1>5. CASE Transmit \/ TransmitFails
  <2>1. PICK m, x : m = Front.id /\ x = Front.fragment_index
    OBVIOUS
  <2>2. pending # << >>
    BY <1>5 DEF Transmit, TransmitFails, PumpAccepted, PumpBackpressure, Offerable, Due
  <2>3. m \in Msgs /\ x \in FragmentIds
    BY <2>1, <2>2, FrontFacts DEF PairInv, PendingMessage
  <2>4. /\ \/ accepted' = [accepted EXCEPT ![m] = @ \cup {x}]
           \/ doubtful' = [doubtful EXCEPT ![m] = @ \cup {x}]
        /\ airborne' \in {airborne, airborne \cup {[post |-> m, index |-> x]}}
    BY <1>5, <2>1 DEF Transmit, TransmitFails, PumpAccepted, FrontFrame
  <2>5. /\ accepted \in [Msgs -> SUBSET FragmentIds]
        /\ doubtful \in [Msgs -> SUBSET FragmentIds]
    BY DEF PairInv, IInv, TypeOK, DoubtType
  <2>6. x \in Left(m)'
    BY <2>3, <2>4, <2>5 DEF Left
  <2>7. AirborneSent'
    BY <1>0, <2>3, <2>4, <2>6 DEF AirborneSent, Sent, GoesOn
  <2> QED BY <1>2, <1>5, <2>7, SlotsKept DEF Transmit, TransmitFails, receiver
<1>6. CASE Tick
  <2>1. AirborneSent'
    BY <1>6 DEF Tick, AirborneSent
  <2> QED BY <1>2, <1>6, <2>1, SlotsKept DEF Tick, receiver
<1>7. CASE \E f \in airborne \cup Garbage : Hear(f)
  <2>1. PICK f \in airborne \cup Garbage : Hear(f)
    BY <1>7
  <2>2. queue' = Append(<< >>, [datagram |-> f, tick |-> now])
    BY <2>1 DEF Hear, In!Enqueue
  <2>3. Head(queue').datagram = f /\ Tail(queue') = << >>
    BY <2>2
  <2>4. Sent(f)' \/ f \in Garbage
    BY <1>0, <2>1 DEF AirborneSent, Sent, GoesOn
  <2>5. QueueSent'
    BY <2>3, <2>4 DEF QueueSent, In!Taken
  <2> QED BY <1>1, <2>1, <2>5, SlotsKept DEF Hear, In!Enqueue
<1>8. CASE ReceiverPump \/ ReceiverTurnsAway \/ ReceiverIdles
  <2>1. In!Process /\ airborne' = airborne
    BY <1>8, ReceiverProcesses
  <2> QED BY <1>1, <1>3, <2>1, ProcessQueue, ProcessSlots, SlotsKept
<1>9. CASE ReceiverStops
  <2>1. queue' = << >> /\ slots' = {} /\ airborne' = airborne
    BY <1>9 DEF ReceiverStops, In!Stop
  <2> QED BY <1>1, <1>3, <2>1, SlotsKept
<1>10. CASE ReceiverStarts
  BY <1>1, <1>2, <1>10, SlotsKept DEF ReceiverStarts
<1> QED BY <1>4, <1>5, <1>6, <1>7, <1>8, <1>9, <1>10
     DEF TwoNext, Hand, SenderPump, SenderStops, SenderCloses

LEMMA InitPairInv == TwoInit => PairInv
<1> SUFFICES ASSUME TwoInit PROVE PairInv
  OBVIOUS
<1>1. IInv
  BY InitIInv DEF TwoInit
<1>2. \A m \in Msgs : Left(m) = {} /\ doubtful[m] = {} /\ outcome[m] = "None"
  BY DEF TwoInit, Init, Left
<1>3. HandedFirst /\ DoubtType
  BY <1>2 DEF TwoInit, Init, HandedFirst, DoubtType, Queued
<1>4. AllMeansConcluded
  <2>1. \A m \in Msgs : 0 \in Indices(m)
    BY FragmentFacts DEF Indices
  <2> QED BY <1>2, <2>1 DEF AllMeansConcluded, Left
<1>5. AirborneSent /\ QueueSent /\ SlotsSent
  BY DEF TwoInit, In!Init, AirborneSent, QueueSent, SlotsSent
<1> QED BY <1>1, <1>3, <1>4, <1>5 DEF PairInv

LEMMA NextPairInv == PairInv /\ [TwoNext]_nodes => PairInv'
<1>1. ASSUME PairInv, TwoNext PROVE PairInv'
  BY <1>1, SenderKeeps, ReceiverKeeps DEF PairInv
<1>2. ASSUME PairInv, UNCHANGED nodes PROVE PairInv'
  <2>1. UNCHANGED <<now, closed, pending, outcome, tries, accepted>>
        /\ UNCHANGED <<stopped, queue, recent, slots, quarantine, stored, barred>>
        /\ UNCHANGED <<handed, airborne, doubtful, heard>>
    BY <1>2 DEF nodes, vars, receiver
  <2>2. IInv'
    BY <1>2, <2>1, NextIInv DEF PairInv, vars
  <2>3. GoesOn /\ DoubtType' /\ AllMeansConcluded'
    BY <1>2, <2>1 DEF PairInv, GoesOn, DoubtType, AllMeansConcluded, Left, Indices, FragmentIds
  <2>4. SlotsSent'
    BY <1>2, <2>1, <2>3, SlotsKept
  <2> QED BY <1>2, <2>1, <2>2, <2>3, <2>4 DEF PairInv, HandedFirst, Queued,
       AirborneSent, QueueSent, Sent, Left, In!Taken
<1> QED BY <1>1, <1>2

LEMMA PairInvariance == TwoSpec => []PairInv
BY InitPairInv, NextPairInv, PTL DEF TwoSpec

-----------------------------------------------------------------------------
(* The steps of both ends are steps of Delivery. *)

LEMMA StatusOf ==
  ASSUME NEW m \in Msgs
  PROVE  Status[m] = IF InDoubt(m) THEN "Doubtful"
                     ELSE IF outcome[m] # "None" THEN outcome[m]
                     ELSE IF m \notin handed THEN "New"
                     ELSE IF Queued(m) THEN "Queued" ELSE "Cancelled"
BY DEF Status, InDoubt

LEMMA StatusNext ==
  ASSUME NEW m \in Msgs
  PROVE  Status'[m] = IF InDoubt(m)' THEN "Doubtful"
                      ELSE IF outcome'[m] # "None" THEN outcome'[m]
                      ELSE IF m \notin handed' THEN "New"
                      ELSE IF Queued(m)' THEN "Queued" ELSE "Cancelled"
BY DEF Status, InDoubt

LEMMA StatusDomain == Status = [m \in Msgs |-> Status[m]]
BY DEF Status

\* The sender's posts but m keep their status.
LEMMA OthersStatus ==
  ASSUME NEW m \in Msgs, OnlyConcerns(m),
         \A n \in Msgs : n # m => (n \in handed' <=> n \in handed),
         \A n \in Msgs : n # m => doubtful'[n] = doubtful[n]
  PROVE  Status' = [Status EXCEPT ![m] = Status'[m]]
<1>1. ASSUME NEW n \in Msgs, n # m PROVE Status'[n] = Status[n]
  <2>1. outcome'[n] = outcome[n] /\ accepted'[n] = accepted[n] /\ (Queued(n)' <=> Queued(n))
    BY <1>1 DEF OnlyConcerns
  <2>2. InDoubt(n)' <=> InDoubt(n)
    BY <1>1, <2>1 DEF InDoubt, Left, Indices
  <2> QED BY <1>1, <2>1, <2>2, StatusOf, StatusNext
<1>2. Status = [n \in Msgs |-> Status[n]] /\ Status' = [n \in Msgs |-> Status'[n]]
  BY DEF Status
<1> QED BY <1>1, <1>2

LEMMA ReachedSame ==
  ASSUME stored' = stored
  PROVE  Reached' = Reached
BY DEF Reached, Whole, Indices

LEMMA SameStatus ==
  ASSUME UNCHANGED <<outcome, accepted, doubtful, handed, pending>>
  PROVE  Status' = Status
BY DEF Status, InDoubt, Left, Indices, Queued

\* pump tells the sender nothing, or the outcome of the post at the front.
LEMMA PumpConcludes ==
  ASSUME PairInv, Pump, handed' = handed, stored' = stored,
         NEW m, m = Front.id, GoesOn,
         \A n \in Msgs : n # m => doubtful'[n] = doubtful[n]
  PROVE  [Promise!Next]_(Promise!vars)
<1>1. m \in Msgs /\ Queued(m) /\ OnlyConcerns(m) /\ FrontMoves(m)
  BY PumpEffect DEF PairInv
<1>2. m \in handed
  BY <1>1 DEF PairInv, HandedFirst
<1>3. Status' = [Status EXCEPT ![m] = Status'[m]] /\ Reached' = Reached
  BY <1>1, OthersStatus, ReachedSame
<1>4. outcome[m] \in {"None", "Broadcast"}
  <2>1. pending # << >>
    BY DEF Pump, PumpExpired, PumpClosed, PumpSkip, PumpDeferred, PumpRefused,
       PumpSendError, PumpBackpressure, PumpAccepted, Expired, Offerable, Due
  <2> QED BY <2>1, FrontUndecided DEF PairInv
<1>5. Status[m] = IF InDoubt(m) THEN "Doubtful"
                  ELSE IF outcome[m] # "None" THEN outcome[m] ELSE "Queued"
  BY <1>1, <1>2, StatusOf
<1>6. ASSUME Status'[m] = Status[m]
      PROVE  UNCHANGED Promise!vars
  <2>1. Status' = Status
    BY <1>1, <1>3, <1>6, StatusDomain
  <2> QED BY <1>3, <2>1 DEF Promise!vars
<1>7. ASSUME Status[m] = "Queued", Status'[m] \in {"Broadcast", "Failed", "Doubtful"}
      PROVE  Promise!Next
  <2>1. PICK result \in {"Broadcast", "Failed", "Doubtful"} : result = Status'[m]
    BY <1>7
  <2>2. Promise!Conclude(m, result)
    BY <1>3, <1>7, <2>1 DEF Promise!Conclude
  <2> QED BY <1>1, <2>1, <2>2 DEF Promise!Next
<1>8. CASE outcome'[m] = "Broadcast"
  <2>1. Status'[m] = "Broadcast"
    BY <1>1, <1>8, StatusNext DEF InDoubt
  <2>2. CASE outcome[m] = "Broadcast"
    <3>1. Status[m] = "Broadcast"
      BY <1>5, <2>2 DEF InDoubt
    <3> QED BY <1>6, <2>1, <3>1
  <2>3. CASE outcome[m] = "None"
    <3>1. ~closed
      BY <1>1, <1>8, <2>3, BroadcastWhileOpen DEF PairInv
    <3>2. Left(m) = accepted[m] /\ ~(Indices(m) \subseteq accepted[m])
      BY <1>1, <2>3, <3>1 DEF PairInv, AllMeansConcluded, Left
    <3>3. Status[m] = "Queued"
      BY <1>5, <2>3, <3>2 DEF InDoubt
    <3> QED BY <1>7, <2>1, <3>3
  <2> QED BY <1>4, <2>2, <2>3
<1>9. CASE outcome'[m] # "Broadcast"
  <2>1. outcome[m] = "None" /\ (outcome'[m] = "Failed" \/ (outcome'[m] = "None" /\ Queued(m)'))
    BY <1>1, <1>4, <1>9 DEF FrontMoves, FrontWaits, FrontEnds, FrontFails, FrontBroadcast
  <2>2. Status'[m] = IF InDoubt(m)' THEN "Doubtful"
                     ELSE IF outcome'[m] = "Failed" THEN "Failed" ELSE "Queued"
    BY <1>1, <1>2, <2>1, StatusNext
  <2>3. InDoubt(m) => InDoubt(m)'
    <3>1. Left(m) \subseteq Left(m)' /\ Indices(m)' = Indices(m)
      BY <1>1 DEF GoesOn, Indices
    <3> QED BY <1>9, <3>1 DEF InDoubt
  <2>4. CASE InDoubt(m)
    BY <1>5, <1>6, <2>2, <2>3, <2>4
  <2>5. CASE ~InDoubt(m)
    BY <1>5, <1>6, <1>7, <2>1, <2>2, <2>5
  <2> QED BY <2>4, <2>5
<1> QED BY <1>6, <1>7, <1>8, <1>9

LEMMA PromiseStep ==
  ASSUME PairInv, TwoNext
  PROVE  [Promise!Next]_(Promise!vars)
<1>1. CASE \E m \in Msgs : Hand(m)
  <2>1. PICK m \in Msgs : Hand(m)
    BY <1>1
  <2>2. /\ outcome[m] = "None" /\ ~Queued(m) /\ m \notin handed
        /\ outcome' = outcome /\ accepted' = accepted /\ doubtful' = doubtful
        /\ handed' = handed \cup {m}
        /\ \A n \in Msgs : Queued(n)' <=> Queued(n) \/ n = m
    BY <2>1, HandEffect DEF Hand
  <2>3. OnlyConcerns(m) /\ \A n \in Msgs : n # m => (n \in handed' <=> n \in handed)
    BY <2>2 DEF OnlyConcerns
  <2>4. ~InDoubt(m) /\ ~InDoubt(m)'
    <3>1. Left(m) = {} /\ 0 \in Indices(m)
      BY <2>2, FragmentFacts DEF PairInv, HandedFirst, Indices
    <3>2. Left(m)' = Left(m) /\ Indices(m)' = Indices(m)
      BY <2>2 DEF Left, Indices
    <3> QED BY <3>1, <3>2 DEF InDoubt
  <2>5. Status[m] = "New" /\ Status'[m] = "Queued"
    BY <2>2, <2>4, StatusOf, StatusNext
  <2>6. Status' = [Status EXCEPT ![m] = "Queued"]
    BY <2>2, <2>3, <2>5, OthersStatus
  <2>7. Reached' = Reached
    BY <2>1, ReachedSame DEF Hand, receiver
  <2> QED BY <2>5, <2>6, <2>7 DEF Promise!Next, Promise!Hand
<1>2. CASE Transmit \/ TransmitFails \/ SenderPump
  <2>1. PICK m : m = Front.id
    OBVIOUS
  <2>2. /\ Pump /\ handed' = handed /\ stored' = stored
        /\ \/ doubtful' = doubtful
           \/ doubtful' = [doubtful EXCEPT ![m] = @ \cup {Front.fragment_index}]
    BY <1>2, <2>1 DEF Transmit, TransmitFails, SenderPump, Pump, receiver
  <2>3. \A n \in Msgs : n # m => doubtful'[n] = doubtful[n]
    BY <2>2 DEF PairInv, DoubtType
  <2> QED BY <2>1, <2>2, <2>3, SenderKeeps, PumpConcludes
<1>3. CASE SenderStops
  <2>1. /\ outcome' = outcome /\ accepted' = accepted /\ doubtful' = doubtful
        /\ handed' = handed /\ stored' = stored /\ pending' = << >>
    BY <1>3 DEF SenderStops, CancelAll, receiver
  <2>2. \A m \in Msgs : ~Queued(m)'
    BY <2>1 DEF Queued
  <2>3. ASSUME NEW m \in Msgs
        PROVE  Status'[m] = IF Status[m] = "Queued" THEN "Cancelled" ELSE Status[m]
    <3>1. InDoubt(m)' <=> InDoubt(m)
      BY <2>1 DEF InDoubt, Left, Indices
    <3>2. outcome[m] \in {"None", "Broadcast", "Failed"}
      BY DEF PairInv, IInv, TypeOK
    <3> QED BY <2>1, <2>2, <3>1, <3>2, StatusOf, StatusNext
  <2>4. Status' = [m \in Msgs |-> IF Status[m] = "Queued" THEN "Cancelled" ELSE Status[m]]
    <3>1. Status' = [m \in Msgs |-> Status'[m]]
      BY DEF Status
    <3> QED BY <2>3, <3>1
  <2>5. Reached' = Reached
    BY <2>1, ReachedSame
  <2> QED BY <2>4, <2>5 DEF Promise!Next, Promise!CancelAll
<1>4. CASE ReceiverPump \/ ReceiverTurnsAway \/ ReceiverIdles
  <2>1. In!Process /\ UNCHANGED <<outcome, accepted, doubtful, handed, pending>>
    BY <1>4, ReceiverProcesses DEF vars
  <2>2. Status' = Status
    BY <2>1, SameStatus
  <2>3. CASE stored' = stored
    BY <2>2, <2>3, ReachedSame DEF Promise!vars
  <2>4. CASE \E m \in Msgs : Indices(m) \subseteq Left(m) /\ stored' = stored \cup {Whole(m)}
    <3>1. PICK m \in Msgs : Indices(m) \subseteq Left(m) /\ stored' = stored \cup {Whole(m)}
      BY <2>4
    <3>2. Status[m] \in {"Broadcast", "Doubtful"}
      BY <3>1, StatusOf DEF InDoubt
    <3>3. Reached' = Reached \cup {m}
      <4>1. Whole(m)[0] = m
        BY FragmentFacts DEF Whole, Indices
      <4>2. \A c \in {Whole(m)} : (IF c[0] \in Msgs /\ c = Whole(c[0]) THEN c[0] ELSE c) = m
        BY <4>1
      <4>3. Reached' = {IF c[0] \in Msgs /\ c = Whole(c[0]) THEN c[0] ELSE c : c \in stored'}
        BY DEF Reached, Whole, Indices
      <4> QED BY <3>1, <4>2, <4>3 DEF Reached
    <3> QED BY <2>2, <3>2, <3>3 DEF Promise!Next, Promise!Reach
  <2> QED BY <2>1, <2>3, <2>4, ProcessStored
<1>5. CASE \/ SenderCloses
           \/ Tick
           \/ \E f \in airborne \cup Garbage : Hear(f)
           \/ ReceiverStops \/ ReceiverStarts
  <2>1. UNCHANGED <<outcome, accepted, doubtful, handed, pending>> /\ stored' = stored
    BY <1>5 DEF SenderCloses, CloseTransport, Tick, AdvanceClock, Hear, ReceiverStops,
       ReceiverStarts, vars, receiver, In!Stop, In!Enqueue
  <2> QED BY <2>1, SameStatus, ReachedSame DEF Promise!vars
<1> QED BY <1>1, <1>2, <1>3, <1>4, <1>5 DEF TwoNext

\* Whatever is lost, repeated, deferred, cancelled or restarted, the receiver's
\* session stores only whole posts that the sender's pump reported Broadcast, or
\* posts on whose last unaccepted fragment the transport failed; every other post
\* reported Failed, and every other one cancelled by stop, is stored nowhere: for
\* any number of posts, fragments and slots, and any delays.
THEOREM PromiseIsKept == TwoSpec => KeepsPromise
<1>1. TwoInit => Promise!Init
  <2> SUFFICES ASSUME TwoInit PROVE Promise!Init
    OBVIOUS
  <2>1. Status = [m \in Msgs |-> "New"]
    <3>1. \A m \in Msgs : Left(m) = {} /\ 0 \in Indices(m)
      BY FragmentFacts DEF TwoInit, Init, Left, Indices
    <3>2. \A m \in Msgs : Status[m] = "New"
      BY <3>1, StatusOf DEF InDoubt, TwoInit, Init
    <3> QED BY <3>2, StatusDomain
  <2>2. Reached = {}
    BY DEF Reached, TwoInit, In!Init
  <2> QED BY <2>1, <2>2 DEF Promise!Init
<1>2. PairInv /\ [TwoNext]_nodes => [Promise!Next]_(Promise!vars)
  <2>1. ASSUME UNCHANGED nodes PROVE UNCHANGED Promise!vars
    <3>1. UNCHANGED <<outcome, accepted, doubtful, handed, pending>> /\ stored' = stored
      BY <2>1 DEF nodes, vars, receiver
    <3> QED BY <3>1, SameStatus, ReachedSame DEF Promise!vars
  <2> QED BY <2>1, PromiseStep
<1> QED BY <1>1, <1>2, PairInvariance, PTL DEF TwoSpec, KeepsPromise, Promise!Spec

-----------------------------------------------------------------------------
(***************************************************************************)
(* The deques of the receiver: expiry, a hit of recently_committed and     *)
(* mark_committed keep them sequences over the set of what they may hold.  *)
(***************************************************************************)
LEMMA SetInduction ==
  ASSUME NEW T, 0 \in T, \A n \in Nat : n \in T => n + 1 \in T
  PROVE  Nat \subseteq T
<1> DEFINE R == OpToRel(<, Nat)
<1>1. IsWellFoundedOn(R, Nat)
  BY NatLessThanWellFounded
<1>2. \A m, n \in Nat : m < n => <<m, n>> \in R
  BY DEF OpToRel
<1> HIDE DEF R
<1> SUFFICES ASSUME Nat \ T # {} PROVE FALSE
  OBVIOUS
<1>3. PICK x \in Nat \ T : \A y \in Nat \ T : ~(<<y, x>> \in R)
  BY <1>1, WFMin
<1>4. x # 0 /\ x - 1 \in Nat /\ x - 1 < x
  BY <1>3
<1>5. <<x - 1, x>> \in R
  BY <1>2, <1>3, <1>4
<1>6. x - 1 \in T
  BY <1>3, <1>4, <1>5
<1> QED
  BY <1>3, <1>4, <1>6

\* N steps on S, and what they make of a base.
Steps(S, N) == [1 .. N -> [S -> S]]
Iteration(f, S, N, base, step) ==
  /\ f \in [0 .. N -> S] /\ f[0] = base
  /\ \A n \in 1 .. N : f[n] = step[n][f[n - 1]]

LEMMA Iterated ==
  ASSUME NEW S, NEW N \in Nat, NEW base \in S, NEW step \in Steps(S, N)
  PROVE  \E f : Iteration(f, S, N, base, step)
<1> USE DEF Steps
<1> DEFINE Upto(f, m) ==
             f[0] = base /\ \A n \in 1 .. m : f[n] = step[n][f[n - 1]]
           T == {m \in Nat : m <= N => \E f \in [0 .. m -> S] : Upto(f, m)}
<1>1. 0 \in T
  <2>1. [i \in 0 .. 0 |-> base] \in [0 .. 0 -> S]
        /\ Upto([i \in 0 .. 0 |-> base], 0)
    OBVIOUS
  <2> QED
    BY <2>1
<1>2. ASSUME NEW m \in Nat, m \in T
      PROVE  m + 1 \in T
  <2> SUFFICES ASSUME m + 1 <= N
               PROVE  \E f \in [0 .. m + 1 -> S] : Upto(f, m + 1)
    OBVIOUS
  <2>1. PICK f \in [0 .. m -> S] : Upto(f, m)
    BY <1>2
  <2>2. m + 1 \in 1 .. N /\ f[m] \in S /\ step[m + 1] \in [S -> S]
    OBVIOUS
  <2> DEFINE x == step[m + 1][f[m]]
             g == [i \in 0 .. m + 1 |-> IF i = m + 1 THEN x ELSE f[i]]
  <2>3. x \in S
    BY <2>2
  <2>4. g \in [0 .. m + 1 -> S]
    <3> HIDE DEF x
    <3> QED
      BY <2>3
  <2>5. g[0] = base
    BY <2>1
  <2>6. ASSUME NEW n \in 1 .. m + 1
        PROVE  g[n] = step[n][g[n - 1]]
    <3>1. CASE n = m + 1
      BY <3>1
    <3>2. CASE n # m + 1
      <4>1. n \in 1 .. m /\ n - 1 \in 0 .. m /\ n - 1 # m + 1
        BY <3>2
      <4>2. g[n] = f[n] /\ g[n - 1] = f[n - 1]
        BY <4>1
      <4> QED
        BY <2>1, <4>1, <4>2
    <3> QED
      BY <3>1, <3>2
  <2>7. Upto(g, m + 1)
    BY <2>5, <2>6
  <2> QED
    BY <2>4, <2>7
<1>3. N \in T
  <2> HIDE DEF T
  <2> QED
    BY <1>1, <1>2, SetInduction
<1> QED
  BY <1>3 DEF Iteration

LEMMA LiveStays ==
  ASSUME NEW E, NEW entries \in Seq(E)
  PROVE  In!LiveAmong(entries)[Len(entries)] \in Seq(E)
<1> DEFINE Over(n) == In!DeadlineReached(entries[n].deadline)
           N == Len(entries)
           step == [n \in 1 .. N |->
                     [s \in Seq(E) |-> IF Over(n) THEN s ELSE Append(s, entries[n])]]
           Def(f) == f = [n \in 0 .. N |->
                           IF n = 0 THEN << >>
                           ELSE IF Over(n) THEN f[n - 1]
                           ELSE Append(f[n - 1], entries[n])]
           g == In!LiveAmong(entries)
           T == {n \in Nat : n <= N => g[n] \in Seq(E)}
<1>1. N \in Nat /\ << >> \in Seq(E) /\ \A n \in 1 .. N : entries[n] \in E
  OBVIOUS
<1>2. g = CHOOSE f : Def(f)
  BY DEF In!LiveAmong
<1> HIDE DEF N, Over
<1>3. ASSUME NEW n \in 1 .. N, NEW s \in Seq(E)
      PROVE  Append(s, entries[n]) \in Seq(E)
  BY <1>1
<1>4. /\ step \in Steps(Seq(E), N)
      /\ \A n \in 1 .. N : \A s \in Seq(E) :
           step[n][s] = IF Over(n) THEN s ELSE Append(s, entries[n])
  BY <1>3 DEF Steps
<1> HIDE DEF step
<1>5. PICK f : Iteration(f, Seq(E), N, << >>, step)
  BY <1>1, <1>4, Iterated
<1>6. Def(f)
  <2>1. /\ f \in [0 .. N -> Seq(E)] /\ f[0] = << >>
        /\ \A n \in 1 .. N : f[n] = step[n][f[n - 1]]
    BY <1>5 DEF Iteration
  <2>2. \A n \in 0 .. N : n # 0 => n \in 1 .. N
    BY <1>1
  <2>3. \A n \in 1 .. N : n - 1 \in 0 .. N
    BY <1>1
  <2>4. \A n \in 1 .. N : f[n] = IF Over(n) THEN f[n - 1] ELSE Append(f[n - 1], entries[n])
    BY <1>4, <2>1, <2>3
  <2> QED BY <2>1, <2>2, <2>4
<1>7. Def(g)
  <2> HIDE DEF Def, g
  <2> QED BY <1>2, <1>6
<1> HIDE DEF g
<1>8. 0 \in T
  <2>1. 0 \in 0 .. N
    BY <1>1
  <2> QED BY <1>1, <1>7, <2>1
<1>9. ASSUME NEW n \in Nat, n \in T
      PROVE  n + 1 \in T
  <2> SUFFICES ASSUME n + 1 <= N PROVE g[n + 1] \in Seq(E)
    OBVIOUS
  <2>1. n + 1 \in 1 .. N /\ n + 1 \in 0 .. N /\ n + 1 # 0 /\ (n + 1) - 1 = n
    BY <1>1
  <2>2. g[n] \in Seq(E)
    BY <1>1, <1>9
  <2>3. g[n + 1] = IF Over(n + 1) THEN g[n] ELSE Append(g[n], entries[n + 1])
    BY <1>7, <2>1
  <2> QED BY <1>3, <2>1, <2>2, <2>3
<1>10. N \in T
  <2> HIDE DEF T
  <2> QED BY <1>1, <1>8, <1>9, SetInduction
<1> QED BY <1>1, <1>10 DEF N, g

LEMMA RetainStays ==
  ASSUME NEW E, NEW entries \in Seq(E), NEW frames \in Seq(In!Frames),
         RecentCapacity \in Nat \ {0},
         \A n \in DOMAIN frames :
           [frame |-> frames[n], deadline |-> In!SaturatingDeadline(now, Timeout)] \in E
  PROVE  In!RetainAll(entries, frames)[Len(frames)] \in Seq(E)
<1> DEFINE N == Len(frames)
           Next1(s, n) == In!Retain(s, frames[n])
           step == [n \in 1 .. N |-> [s \in Seq(E) |-> Next1(s, n)]]
           Def(f) == f = [n \in 0 .. N |->
                           IF n = 0 THEN entries ELSE Next1(f[n - 1], n)]
           g == In!RetainAll(entries, frames)
           T == {n \in Nat : n <= N => g[n] \in Seq(E)}
<1>1. N \in Nat /\ DOMAIN frames = 1 .. N
  OBVIOUS
<1>2. g = CHOOSE f : Def(f)
  BY DEF In!RetainAll
<1>3. ASSUME NEW n \in 1 .. N, NEW s \in Seq(E)
      PROVE  Next1(s, n) \in Seq(E)
  <2> DEFINE e == [frame |-> frames[n], deadline |-> In!SaturatingDeadline(now, Timeout)]
  <2>1. e \in E
    BY <1>1
  <2>2. Next1(s, n) = s \/ Next1(s, n) = Append(IF Len(s) >= RecentCapacity THEN Tail(s) ELSE s, e)
    BY DEF In!Retain, In!PushBounded
  <2> HIDE DEF e
  <2>3. Len(s) >= RecentCapacity => Tail(s) \in Seq(E)
    OBVIOUS
  <2> HIDE DEF Next1
  <2> DEFINE q == IF Len(s) >= RecentCapacity THEN Tail(s) ELSE s
  <2>4. q \in Seq(E) /\ (Next1(s, n) = s \/ Next1(s, n) = Append(q, e))
    BY <2>2, <2>3
  <2> HIDE DEF q
  <2>5. Append(q, e) \in Seq(E)
    BY <2>1, <2>4
  <2> QED BY <2>4, <2>5
<1> HIDE DEF N, Next1
<1>4. /\ step \in Steps(Seq(E), N)
      /\ \A n \in 1 .. N : \A s \in Seq(E) : step[n][s] = Next1(s, n)
  BY <1>3 DEF Steps
<1> HIDE DEF step
<1>5. PICK f : Iteration(f, Seq(E), N, entries, step)
  BY <1>1, <1>4, Iterated
<1>6. Def(f)
  <2>1. /\ f \in [0 .. N -> Seq(E)] /\ f[0] = entries
        /\ \A n \in 1 .. N : f[n] = step[n][f[n - 1]]
    BY <1>5 DEF Iteration
  <2>2. \A n \in 0 .. N : n # 0 => n \in 1 .. N
    BY <1>1
  <2>3. \A n \in 1 .. N : n - 1 \in 0 .. N
    BY <1>1
  <2>4. \A n \in 1 .. N : f[n] = Next1(f[n - 1], n)
    BY <1>4, <2>1, <2>3
  <2> QED BY <2>1, <2>2, <2>4
<1>7. Def(g)
  <2> HIDE DEF Def, g
  <2> QED BY <1>2, <1>6
<1> HIDE DEF g
<1>8. 0 \in T
  <2>1. 0 \in 0 .. N
    BY <1>1
  <2> QED BY <1>1, <1>7, <2>1
<1>9. ASSUME NEW n \in Nat, n \in T
      PROVE  n + 1 \in T
  <2> SUFFICES ASSUME n + 1 <= N PROVE g[n + 1] \in Seq(E)
    OBVIOUS
  <2>1. n + 1 \in 1 .. N /\ n + 1 \in 0 .. N /\ n + 1 # 0 /\ (n + 1) - 1 = n
    BY <1>1
  <2>2. g[n] \in Seq(E)
    BY <1>1, <1>9
  <2>3. g[n + 1] = Next1(g[n], n + 1)
    BY <1>7, <2>1
  <2> QED BY <1>3, <2>1, <2>2, <2>3
<1>10. N \in T
  <2> HIDE DEF T
  <2> QED BY <1>1, <1>8, <1>9, SetInduction
<1> QED BY <1>1, <1>10 DEF N, g

LEMMA HitStays ==
  ASSUME NEW E, NEW s \in Seq(E), NEW i \in 1 .. Len(s)
  PROVE  Append(In!RemoveAt(s, i), s[i]) \in Seq(E)
<1>1. s[i] \in E /\ i \in Nat
  OBVIOUS
<1>2. SubSeq(s, 1, i - 1) \in Seq(E) /\ SubSeq(s, i + 1, Len(s)) \in Seq(E)
  OBVIOUS
<1>3. In!RemoveAt(s, i) \in Seq(E)
  BY <1>2 DEF In!RemoveAt
<1> QED BY <1>1, <1>3

LEMMA NothingLives == In!LiveAmong(<< >>)[Len(<< >>)] = << >>
<1>1. PICK l : l = In!LiveAmong(<< >>)[Len(<< >>)]
  OBVIOUS
<1>2. l \in Seq({})
  <2>1. << >> \in Seq({})
    OBVIOUS
  <2> QED BY <1>1, <2>1, LiveStays
<1>3. l = << >>
  BY <1>2
<1> QED BY <1>1, <1>3

-----------------------------------------------------------------------------
(***************************************************************************)
(* Both passes meet in one slot.                                           *)
(***************************************************************************)
HeardType == heard \in [Msgs -> SUBSET FragmentIds]

\* One slot per post, begun and not yet complete.
SlotsOpen ==
  /\ \A s \in slots :
       /\ s.deadline \in Ticks
       /\ DOMAIN s.parts # {} /\ DOMAIN s.parts \subseteq 0 .. s.count - 1
       /\ ~In!Complete(s)
  /\ \A s, t \in slots : s.key = t.key => s = t

\* What recent_ suppresses is of stored posts.
StoredEntries ==
  {r \in [frame : In!Frames, deadline : Ticks] : Whole(r.frame.post) \in stored}
RecentStored == recent \in Seq(StoredEntries)

\* No post in the queue outlives the slot that waits for it.
InTime ==
  \A i \in 1 .. Len(pending) :
    /\ pending[i].deadline <= SaturatingAdd(now, OutboundDeadline)
    /\ \A s \in slots : s.key = KeyOf[pending[i].id] => pending[i].deadline <= s.deadline

\* What is on the air finds its slot alive.
OnAir ==
  /\ airborne # {} => now < MaxTick
  /\ \A f \in airborne, s \in slots : s.key = KeyOf[f.post] => now < s.deadline

\* What the receiver is about to process was on the air at this tick.
JustHeard ==
  queue # << >> =>
    /\ In!TakenTick = now
    /\ In!Taken \in Garbage \/ In!Taken \in airborne

\* The fragment of m in the queue, and those in its slot.
Waiting(m) ==
  IF queue # << >> /\ In!Taken \notin Garbage /\ In!Taken.post = m
  THEN {In!Taken.index} ELSE {}
Held(m) == UNION {DOMAIN s.parts : s \in {t \in slots : t.key = KeyOf[m]}}

\* Something of m was missed, and no more of it will be heard.
Over(m) ==
  /\ heard[m] # Indices(m) /\ m \in handed
  /\ \A f \in airborne : f.post # m
  /\ \A i \in 1 .. Len(pending) : pending[i].id = m => pending[i].deadline <= now

Kept(m) == Whole(m) \in stored \/ heard[m] \subseteq Held(m) \cup Waiting(m) \/ Over(m)

CompleteInv ==
  /\ PairInv /\ HeardType /\ SlotsOpen /\ quarantine = << >> /\ RecentStored
  /\ InTime /\ OnAir /\ JustHeard
  /\ \A m \in Msgs : Kept(m)

-----------------------------------------------------------------------------
(* Times. *)

LEMMA TimeFacts ==
  /\ MaxTick \in Nat /\ Timeout \in Nat \ {0} /\ Timeout = OutboundDeadline
  /\ Timeout <= MaxTick
  /\ RecentCapacity \in Nat \ {0} /\ SlotCapacity \in Nat
BY SchedulerAssumption, TwoNodesAssumption DEF Ticks

LEMMA WindowFacts ==
  ASSUME NEW t \in Ticks
  PROVE  /\ In!SaturatingDeadline(t, Timeout) = SaturatingAdd(t, OutboundDeadline)
         /\ In!SaturatingDeadline(t, Timeout) \in Ticks
         /\ t < MaxTick => t < In!SaturatingDeadline(t, Timeout)
BY TimeFacts DEF In!SaturatingDeadline, SaturatingAdd, Ticks

LEMMA LaterEndsLater ==
  ASSUME NEW t \in Ticks, NEW u \in Ticks, t <= u
  PROVE  SaturatingAdd(t, OutboundDeadline) <= SaturatingAdd(u, OutboundDeadline)
BY TimeFacts DEF SaturatingAdd, Ticks

\* Every post in the queue was there, with the deadline it has.
Carried ==
  \A i \in 1 .. Len(pending') : \E j \in 1 .. Len(pending) :
    pending'[i].id = pending[j].id /\ pending'[i].deadline = pending[j].deadline

LEMMA TailCarries ==
  ASSUME IInv, pending # << >>, pending' = Tail(pending)
  PROVE  Carried
<1>1. pending \in Seq(PendingMessage)
  BY DEF IInv, TypeOK
<1>2. /\ Len(pending') = Len(pending) - 1 /\ Len(pending) \in Nat
      /\ \A i \in 1 .. Len(pending') : pending'[i] = pending[i + 1] /\ i + 1 \in 1 .. Len(pending)
  BY <1>1
<1> QED BY <1>2 DEF Carried

LEMMA FrontCarries ==
  ASSUME IInv, pending # << >>, NEW p, p.id = Front.id, p.deadline = Front.deadline,
         pending' = [pending EXCEPT ![1] = p]
  PROVE  Carried
<1>1. pending \in Seq(PendingMessage)
  BY DEF IInv, TypeOK
<1>2. /\ Len(pending') = Len(pending)
      /\ \A i \in 1 .. Len(pending) : pending'[i] = IF i = 1 THEN p ELSE pending[i]
  BY <1>1
<1>3. Front = pending[1]
  BY FrontFacts
<1> QED BY <1>2, <1>3 DEF Carried

LEMMA RepeatCarries ==
  ASSUME IInv, pending # << >>, NEW q \in PendingMessage, q.id = Front.id,
         q.deadline = Front.deadline, NextRepeatFragment(q)
  PROVE  Carried
<1>1. CASE DropFront
  BY <1>1, TailCarries DEF DropFront
<1>2. CASE UpdateFront([q EXCEPT !.fragment_index = @ + 1, !.due = now])
  <2>1. PICK p : p = [q EXCEPT !.fragment_index = @ + 1, !.due = now]
    OBVIOUS
  <2>2. p.id = q.id /\ p.deadline = q.deadline
    BY <2>1 DEF PendingMessage
  <2> QED BY <1>2, <2>1, <2>2, FrontCarries DEF UpdateFront
<1> QED BY <1>1, <1>2 DEF NextRepeatFragment

LEMMA PumpCarries ==
  ASSUME IInv, Pump
  PROVE  Carried
<1>1. pending # << >>
  BY DEF Pump, PumpExpired, PumpClosed, PumpSkip, PumpDeferred, PumpRefused,
     PumpSendError, PumpBackpressure, PumpAccepted, Expired, Offerable, Due
<1>2. Front \in PendingMessage
  BY <1>1, FrontFacts
<1>3. CASE FailFront \/ DropFront
  BY <1>1, <1>3, TailCarries DEF FailFront, DropFront
<1>4. CASE PumpExpired \/ PumpClosed \/ PumpRefused \/ PumpSendError
  BY <1>3, <1>4 DEF PumpExpired, PumpClosed, PumpRefused, PumpSendError, GiveUp
<1>5. CASE PumpSkip
  <2>1. PICK q \in PendingMessage : q = Front /\ NextRepeatFragment(q)
    BY <1>2, <1>5 DEF PumpSkip
  <2> QED BY <1>1, <2>1, RepeatCarries
<1>6. CASE \E t \in Ticks : PumpDeferred(t)
  <2>1. PICK p, d : UpdateFront(p) /\ p = [Front EXCEPT !.due = d]
    BY <1>6 DEF PumpDeferred
  <2>2. p.id = Front.id /\ p.deadline = Front.deadline
    BY <1>2, <2>1 DEF PendingMessage
  <2> QED BY <1>1, <2>1, <2>2, FrontCarries DEF UpdateFront
<1>7. ASSUME Offerable
      PROVE  Offered \in PendingMessage /\ Offered.id = Front.id
             /\ Offered.deadline = Front.deadline
  <2>1. /\ Front.fragment_index \in FragmentIds
        /\ Front.offer_counts \in [FragmentIds -> Nat]
    BY <1>2 DEF PendingMessage
  <2> QED BY <1>2, <2>1 DEF Offered, PendingMessage
<1>8. CASE PumpBackpressure
  <2>1. Offerable
    BY <1>8 DEF PumpBackpressure
  <2>2. PICK q \in PendingMessage :
          q = Offered /\ q.id = Front.id /\ q.deadline = Front.deadline
    BY <1>7, <2>1
  <2>3. \/ NextRepeatFragment(q) \/ FailFront
        \/ \E b \in JitterBytes : UpdateFront([q EXCEPT !.jitter_index = @ + 1, !.due =
             SaturatingAdd(now, RetryDelay + ScaledJitter(b, RetryJitterMax))])
    BY <1>8, <2>2 DEF PumpBackpressure
  <2>4. CASE \E b \in JitterBytes : UpdateFront([q EXCEPT !.jitter_index = @ + 1, !.due =
             SaturatingAdd(now, RetryDelay + ScaledJitter(b, RetryJitterMax))])
    <3>1. PICK p, d : UpdateFront(p) /\ p = [q EXCEPT !.jitter_index = @ + 1, !.due = d]
      BY <2>4
    <3>2. p.id = q.id /\ p.deadline = q.deadline
      BY <3>1 DEF PendingMessage
    <3> QED BY <1>1, <2>2, <3>1, <3>2, FrontCarries DEF UpdateFront
  <2> QED BY <1>1, <1>3, <2>2, <2>3, <2>4, RepeatCarries
<1>9. CASE PumpAccepted
  <2>1. Offerable
    BY <1>9 DEF PumpAccepted
  <2>2. PICK q : /\ q = Advanced(Offered) /\ q.id = Front.id
                 /\ q.deadline = Front.deadline
    <3>1. Advanced(Offered).id = Offered.id /\ Advanced(Offered).deadline = Offered.deadline
      BY <1>7, <2>1 DEF Advanced, PendingMessage
    <3> QED BY <1>7, <2>1, <3>1
  <2>3. CASE DropFront
    BY <1>3, <2>3
  <2>4. CASE \E d : pending' = [pending EXCEPT ![1] = [q EXCEPT !.due = d]]
    <3>1. PICK p, d : pending' = [pending EXCEPT ![1] = p] /\ p = [q EXCEPT !.due = d]
      BY <2>4
    <3>2. p.id = q.id /\ p.deadline = q.deadline
      BY <3>1
    <3> QED BY <1>1, <2>2, <3>1, <3>2, FrontCarries
  <2>5. CASE \E d : pending' = [pending EXCEPT ![1] =
                 [q EXCEPT !.repeat_pass = TRUE, !.fragment_index = 0, !.due = d]]
    <3>1. PICK p, d : /\ pending' = [pending EXCEPT ![1] = p]
                      /\ p = [q EXCEPT !.repeat_pass = TRUE, !.fragment_index = 0, !.due = d]
      BY <2>5
    <3>2. p.id = q.id /\ p.deadline = q.deadline
      BY <3>1
    <3> QED BY <1>1, <2>2, <3>1, <3>2, FrontCarries
  <2> QED BY <1>9, <2>2, <2>3, <2>4, <2>5 DEF PumpAccepted, UpdateFront
<1> QED BY <1>4, <1>5, <1>6, <1>8, <1>9 DEF Pump

-----------------------------------------------------------------------------
(* Slots. *)

LEMMA SlotPost ==
  ASSUME CompleteInv, NEW s \in slots, NEW m \in Msgs, s.key = KeyOf[m]
  PROVE  /\ s.count = Fragments[m] /\ m \in handed
         /\ ~(Indices(m) \subseteq DOMAIN s.parts)
<1>1. PICK n \in Msgs :
        /\ s.key = KeyOf[n] /\ s.count = Fragments[n]
        /\ DOMAIN s.parts \subseteq Left(n)
  BY DEF CompleteInv, PairInv, SlotsSent, OfOnePost
<1>2. n = m
  BY <1>1, TwoNodesAssumption
<1>3. /\ DOMAIN s.parts # {} /\ DOMAIN s.parts \subseteq 0 .. s.count - 1
      /\ DOMAIN s.parts # 0 .. s.count - 1
  BY DEF CompleteInv, SlotsOpen, In!Complete
<1>4. m \in handed
  BY <1>1, <1>2, <1>3 DEF CompleteInv, PairInv, HandedFirst
<1>5. ~(Indices(m) \subseteq DOMAIN s.parts)
  BY <1>1, <1>2, <1>3 DEF Indices
<1> QED BY <1>1, <1>2, <1>4, <1>5

\* The frame in the queue is younger than its slot.
LEMMA MatchingLives ==
  ASSUME CompleteInv, queue # << >>, In!Taken \in In!Frames
  PROVE  /\ In!Taken \in airborne /\ In!TakenTick = now /\ now \in Ticks /\ now < MaxTick
         /\ In!Matching = {s \in slots : s.key = KeyOf[In!Taken.post]}
<1>1. In!Taken \in airborne /\ In!TakenTick = now
  BY TwoNodesAssumption DEF CompleteInv, JustHeard
<1>2. now \in Ticks
  BY DEF CompleteInv, PairInv, IInv, TypeOK
<1>3. now < MaxTick
  BY <1>1 DEF CompleteInv, OnAir
<1>4. \A s \in slots : s.key = KeyOf[In!Taken.post] => now < s.deadline /\ s.deadline \in Ticks
  BY <1>1 DEF CompleteInv, OnAir, SlotsOpen
<1>5. In!Matching = {s \in slots : s.key = KeyOf[In!Taken.post]}
  BY <1>2, <1>4 DEF In!Matching, In!LiveSlots, In!DeadlineReached, In!SameKey, In!Key, Ticks
<1> QED BY <1>1, <1>2, <1>3, <1>5

LEMMA NoneQuarantined ==
  ASSUME CompleteInv
  PROVE  In!LiveQuarantine = << >> /\ \A k : ~In!Quarantined(k)
<1>1. In!LiveQuarantine = << >>
  BY NothingLives DEF CompleteInv, In!LiveQuarantine
<1> QED BY <1>1 DEF In!Quarantined

\* A slot that expires leaves nothing to hear of its post.
LEMMA ExpiredIsOver ==
  ASSUME CompleteInv, NEW n \in Msgs, NEW s \in slots, s.key = KeyOf[n],
         s \notin In!LiveSlots, heard[n] \subseteq DOMAIN s.parts
  PROVE  Over(n)
<1>0. s.deadline \in Int /\ now \in Int
  <2>1. s.deadline \in Ticks
    BY DEF CompleteInv, SlotsOpen
  <2>2. now \in Ticks
    BY DEF CompleteInv, PairInv, IInv, TypeOK
  <2> QED BY <2>1, <2>2, SchedulerAssumption DEF Ticks
<1>1. s.deadline <= now
  BY <1>0 DEF In!LiveSlots, In!DeadlineReached
<1>2. heard[n] # Indices(n) /\ n \in handed
  BY SlotPost
<1>3. \A f \in airborne : f.post # n
  BY <1>0, <1>1 DEF CompleteInv, OnAir
<1>4. ASSUME NEW i \in 1 .. Len(pending), pending[i].id = n
      PROVE  pending[i].deadline <= now
  <2>1. pending[i].deadline <= s.deadline
    BY <1>4 DEF CompleteInv, InTime
  <2>2. pending[i] \in PendingMessage
    BY DEF CompleteInv, PairInv, IInv, TypeOK
  <2>3. pending[i].deadline \in Int
    BY <2>2, SchedulerAssumption DEF PendingMessage, Ticks
  <2> QED BY <1>0, <1>1, <2>1, <2>3
<1> QED BY <1>2, <1>3, <1>4 DEF Over

-----------------------------------------------------------------------------
(* One call of process_next. *)

LEMMA ExpiryKeeps ==
  ASSUME CompleteInv, NEW n \in Msgs, Waiting(n) = {},
         UNCHANGED <<now, pending, airborne, handed>>, heard'[n] = heard[n],
         stored \subseteq stored',
         \A s \in In!LiveSlots : s.key = KeyOf[n] => s \in slots'
  PROVE  Kept(n)'
<1>0. Kept(n)
  BY DEF CompleteInv
<1>1. CASE Whole(n) \in stored
  BY <1>1 DEF Kept, Whole, Indices
<1>2. CASE Over(n)
  <2>1. Over(n)'
    BY <1>2 DEF Over, Indices
  <2> QED BY <2>1 DEF Kept
<1>3. CASE heard[n] \subseteq Held(n)
  <2>1. CASE heard[n] = {}
    BY <2>1 DEF Kept
  <2>2. CASE heard[n] # {}
    <3>1. PICK s \in slots : s.key = KeyOf[n]
      BY <1>3, <2>2 DEF Held
    <3>2. heard[n] \subseteq DOMAIN s.parts
      <4>1. \A t \in slots : t.key = KeyOf[n] => t = s
        BY <3>1 DEF CompleteInv, SlotsOpen
      <4> QED BY <1>3, <4>1 DEF Held
    <3>3. CASE s \in In!LiveSlots
      <4>1. s \in slots' /\ s.key = KeyOf[n]
        BY <3>1, <3>3
      <4>2. heard'[n] \subseteq Held(n)'
        BY <3>2, <4>1 DEF Held
      <4> QED BY <4>2 DEF Kept
    <3>4. CASE s \notin In!LiveSlots
      <4>1. Over(n)
        BY <3>1, <3>2, <3>4, ExpiredIsOver
      <4> QED BY <1>2, <4>1
    <3> QED BY <3>3, <3>4
  <2> QED BY <2>1, <2>2
<1> QED BY <1>0, <1>1, <1>2, <1>3 DEF Kept

LEMMA RecentLives ==
  ASSUME CompleteInv
  PROVE  In!LiveRecent \in Seq(StoredEntries)
BY LiveStays DEF CompleteInv, RecentStored, In!LiveRecent

LEMMA EntriesGrow ==
  ASSUME stored \subseteq stored', NEW q \in Seq(StoredEntries)
  PROVE  q \in Seq(StoredEntries')
<1>1. StoredEntries \subseteq StoredEntries'
  BY DEF StoredEntries, Whole, Indices, In!Frames, Ticks
<1> QED BY <1>1

LEMMA HitIsStored ==
  ASSUME CompleteInv, NEW i \in In!RecentEntries(In!Taken)
  PROVE  /\ i \in 1 .. Len(In!LiveRecent)
         /\ In!Taken \in In!Frames /\ Whole(In!Taken.post) \in stored
<1>1. i \in 1 .. Len(In!LiveRecent) /\ In!LiveRecent[i].frame = In!Taken
  BY DEF In!RecentEntries
<1>2. In!LiveRecent[i] \in StoredEntries
  BY <1>1, RecentLives
<1> QED BY <1>1, <1>2 DEF StoredEntries

LEMMA FrameIndex ==
  ASSUME NEW f \in In!Frames
  PROVE  f.post \in Msgs /\ f.index \in Indices(f.post)
BY DEF In!Frames, Indices

LEMMA WholeFrames ==
  ASSUME NEW m \in Msgs
  PROVE  LET frames == In!CanonicalFrames(Whole(m)) IN
         /\ In!Cardinality(DOMAIN Whole(m)) = Len(frames)
         /\ frames \in Seq(In!Frames)
         /\ \A i \in DOMAIN frames : frames[i].post = m
<1> DEFINE n == Fragments[m]
           frames == In!CanonicalFrames(Whole(m))
<1>1. n \in Nat \ {0}
  BY FragmentFacts
<1>2. DOMAIN Whole(m) = 0 .. n - 1 /\ \A i \in 0 .. n - 1 : Whole(m)[i] = m
  BY DEF Whole, Indices
<1>3. Cardinality(0 .. n - 1) = n
  BY <1>1, FS_Interval
<1>4. In!Cardinality(DOMAIN Whole(m)) = n
  <2>1. In!Cardinality(0 .. n - 1) = Cardinality(0 .. n - 1)
    BY DEF In!Cardinality, Cardinality
  <2> QED BY <1>2, <1>3, <2>1
<1> HIDE DEF n
<1>5. frames = [i \in 1 .. n |-> [post |-> m, index |-> i - 1]]
  <2>1. \A i \in 1 .. n : i - 1 \in 0 .. n - 1
    BY <1>1
  <2> QED BY <1>2, <1>4, <2>1 DEF In!CanonicalFrames
<1>6. ASSUME NEW i \in 1 .. n
      PROVE  [post |-> m, index |-> i - 1] \in In!Frames
  <2>1. i - 1 \in 0 .. n - 1
    BY <1>1
  <2>2. [post |-> m, index |-> i - 1] \in [post : {m}, index : 0 .. n - 1]
    BY <2>1
  <2> QED BY <2>2 DEF In!Frames, n
<1> HIDE DEF frames
<1>7. frames \in Seq(In!Frames) /\ Len(frames) = n
  <2>1. frames \in [1 .. n -> In!Frames]
    BY <1>5, <1>6
  <2> QED BY <1>1, <2>1
<1>8. \A i \in DOMAIN frames : frames[i].post = m
  BY <1>5
<1> QED BY <1>4, <1>7, <1>8 DEF frames

LEMMA MarkedIsStored ==
  ASSUME CompleteInv, NEW m \in Msgs, stored' = stored \cup {Whole(m)},
         In!MarkCommitted(Whole(m))
  PROVE  recent' \in Seq(StoredEntries')
<1> DEFINE frames == In!CanonicalFrames(Whole(m))
           E == StoredEntries'
<1>1. /\ In!Cardinality(DOMAIN Whole(m)) = Len(frames)
      /\ frames \in Seq(In!Frames)
      /\ \A i \in DOMAIN frames : frames[i].post = m
  BY WholeFrames
<1>2. recent' = In!RetainAll(In!LiveRecent, frames)[Len(frames)]
  BY <1>1 DEF In!MarkCommitted
<1> HIDE DEF frames
<1>3. In!LiveRecent \in Seq(E)
  BY RecentLives, EntriesGrow
<1>4. In!SaturatingDeadline(now, Timeout) \in Ticks
  BY WindowFacts DEF CompleteInv, PairInv, IInv, TypeOK
<1>5. ASSUME NEW i \in DOMAIN frames
      PROVE  [frame |-> frames[i], deadline |-> In!SaturatingDeadline(now, Timeout)] \in E
  <2>1. frames[i] \in In!Frames /\ frames[i].post = m
    BY <1>1
  <2>2. PICK r : r = [frame |-> frames[i], deadline |-> In!SaturatingDeadline(now, Timeout)]
    OBVIOUS
  <2>3. /\ r \in [frame : In!Frames, deadline : Ticks] /\ r.frame.post = m
        /\ Whole(m) \in stored'
    BY <1>4, <2>1, <2>2
  <2>4. E = {x \in [frame : In!Frames, deadline : Ticks] : Whole(x.frame.post) \in stored'}
    BY DEF StoredEntries, Whole, Indices, In!Frames, Ticks
  <2> QED BY <2>2, <2>3, <2>4
<1>6. RecentCapacity \in Nat \ {0}
  BY TimeFacts
<1> HIDE DEF E
<1>7. PICK F : F = E
  OBVIOUS
<1>8. In!RetainAll(In!LiveRecent, frames)[Len(frames)] \in Seq(F)
  BY <1>1, <1>3, <1>5, <1>6, <1>7, RetainStays
<1> QED BY <1>2, <1>7, <1>8 DEF E

\* No frame of the sender is stale, quarantined, in conflict or undecodable.
LEMMA NeverRefused ==
  ASSUME CompleteInv
  PROVE  /\ ~In!ProcessStale /\ ~In!ProcessQuarantined
         /\ ~In!ProcessConflict /\ ~In!ProcessInvalidPost
<1>1. ~In!ProcessStale
  <2> SUFFICES ASSUME In!ProcessStale PROVE FALSE
    OBVIOUS
  <2>1. queue # << >> /\ now - In!TakenTick >= Timeout
    BY DEF In!ProcessStale, In!Take, In!Stale
  <2>2. In!TakenTick = now /\ now \in Nat
    BY <2>1, SchedulerAssumption DEF CompleteInv, JustHeard, PairInv, IInv, TypeOK, Ticks
  <2> QED BY <2>1, <2>2, TimeFacts
<1>2. ~In!ProcessQuarantined
  BY NoneQuarantined DEF In!ProcessQuarantined
<1>4. ASSUME In!ToReassembler, NEW s \in In!Targets
      PROVE  /\ s.count = Fragments[In!Taken.post]
             /\ In!Present(s) => s.parts[In!Taken.index] = In!Taken.post
             /\ ~In!MayFail(In!Filled(s).parts)
  <2>1. PairInv /\ queue # << >> /\ In!Taken \in In!Frames
    BY <1>4 DEF CompleteInv, In!ToReassembler, In!Take
  <2>2. /\ s.count = Fragments[In!Taken.post]
        /\ \A i \in DOMAIN s.parts : s.parts[i] = In!Taken.post
    BY <2>1, TargetOfPost
  <2>3. PICK c, m : c = In!Filled(s).parts /\ m = In!Taken.post
    OBVIOUS
  <2>4. c = [i \in DOMAIN c |-> m]
    BY <2>1, <2>3, FilledOfPost
  <2>5. ~In!MayFail(c)
    <3>1. \A i \in DOMAIN c : c[i] = m
      BY <2>4
    <3> QED BY <3>1 DEF In!MayFail, In!Mixed
  <2> QED BY <2>2, <2>3, <2>5 DEF In!Present
<1>5. ~In!ProcessConflict
  BY <1>4 DEF In!ProcessConflict
<1>6. ~In!ProcessInvalidPost
  BY <1>4 DEF In!ProcessInvalidPost
<1> QED BY <1>1, <1>2, <1>5, <1>6

\* What is left of process_next: the frame needs no slot, ...
PassesBy ==
  /\ slots' = In!LiveSlots /\ stored' = stored
  /\ \/ queue = << >> \/ In!Taken \in Garbage
     \/ In!Taken \in In!Frames /\ Whole(In!Taken.post) \in stored

\* ... its slot has it, ...
IsThere ==
  /\ queue # << >> /\ In!Taken \in In!Frames
  /\ \E s \in In!LiveSlots :
       s.key = KeyOf[In!Taken.post] /\ In!Taken.index \in DOMAIN s.parts
  /\ slots' = In!LiveSlots /\ stored' = stored

\* ... goes into it, ...
Fills ==
  /\ queue # << >> /\ In!Taken \in In!Frames /\ stored' = stored
  /\ \E s \in In!Targets :
       /\ ~In!Complete(In!Filled(s))
       /\ slots' = (In!LiveSlots \ {s}) \cup {In!Filled(s)}

\* ... completes it, and the session stores the post or refuses it, or there
\* is no slot for it.
Finishes ==
  /\ queue # << >> /\ In!Taken \in In!Frames
  /\ \E s \in In!Targets : slots' = In!LiveSlots \ {s}
  /\ stored' = stored \cup {Whole(In!Taken.post)}

TurnsAway ==
  /\ queue # << >> /\ In!Taken \in In!Frames
  /\ \/ \E s \in In!Targets : slots' = In!LiveSlots \ {s}
     \/ slots' = In!LiveSlots
  /\ stored' = stored

\* A slot is of this post only: the one that takes the frame.
LEMMA TargetFacts ==
  ASSUME CompleteInv, queue # << >>, In!Taken \in In!Frames, NEW s \in In!Targets
  PROVE  LET m == In!Taken.post IN
         /\ DOMAIN s = SlotFields
         /\ m \in Msgs /\ s.key = KeyOf[m] /\ s.count = Fragments[m]
         /\ DOMAIN s.parts \subseteq Indices(m)
         /\ \A u \in slots : u.key = KeyOf[m] => u = s
         /\ s.deadline \in Ticks /\ now < s.deadline
         /\ \A i \in 1 .. Len(pending) : pending[i].id = m => pending[i].deadline <= s.deadline
<1>1. PICK m : m = In!Taken.post
  OBVIOUS
<1>2. /\ DOMAIN s = SlotFields
      /\ m \in Msgs /\ s.key = KeyOf[m] /\ s.count = Fragments[m]
  BY <1>1, TargetOfPost DEF CompleteInv
<1>3. /\ In!Taken \in airborne /\ In!TakenTick = now /\ now \in Ticks /\ now < MaxTick
      /\ In!Matching = {u \in slots : u.key = KeyOf[m]}
  BY <1>1, MatchingLives
<1>4. CASE s \in In!Matching
  <2>1. s \in slots /\ s.key = KeyOf[m]
    BY <1>3, <1>4
  <2>2. /\ DOMAIN s.parts \subseteq Indices(m) /\ s.deadline \in Ticks
        /\ \A u \in slots : u.key = KeyOf[m] => u = s
    BY <1>2, <2>1 DEF CompleteInv, SlotsOpen, Indices
  <2>3. now < s.deadline
    BY <1>1, <1>3, <2>1 DEF CompleteInv, OnAir
  <2>4. \A i \in 1 .. Len(pending) : pending[i].id = m => pending[i].deadline <= s.deadline
    BY <2>1 DEF CompleteInv, InTime
  <2> QED BY <1>1, <1>2, <2>2, <2>3, <2>4
<1>5. CASE s = In!Opened /\ In!Matching = {}
  <2>1. s.deadline = In!SaturatingDeadline(now, Timeout) /\ DOMAIN s.parts = {}
    BY <1>3, <1>5 DEF In!Opened
  <2>2. s.deadline \in Ticks /\ now < s.deadline /\ s.deadline = SaturatingAdd(now, OutboundDeadline)
    BY <1>3, <2>1, WindowFacts
  <2>3. \A u \in slots : u.key # KeyOf[m]
    BY <1>3, <1>5
  <2>4. \A i \in 1 .. Len(pending) : pending[i].deadline <= s.deadline
    BY <2>2 DEF CompleteInv, InTime
  <2> QED BY <1>1, <1>2, <2>1, <2>2, <2>3, <2>4
<1> QED BY <1>4, <1>5 DEF In!Targets

LEMMA LiveAreSlots == In!LiveSlots \subseteq slots
BY DEF In!LiveSlots

\* Expiry keeps recent_ over what is stored, and finds nothing quarantined.
LEMMA ExpiryEffect ==
  ASSUME CompleteInv, stored \subseteq stored'
  PROVE  /\ recent' = In!LiveRecent => RecentStored'
         /\ recent' = recent => RecentStored'
         /\ quarantine' = In!LiveQuarantine => quarantine' = << >>
<1>1. In!LiveRecent \in Seq(StoredEntries')
  BY RecentLives, EntriesGrow
<1>2. recent \in Seq(StoredEntries')
  BY EntriesGrow DEF CompleteInv, RecentStored
<1> QED BY <1>1, <1>2, NoneQuarantined DEF RecentStored

LEMMA EmptyShape ==
  ASSUME CompleteInv, In!ProcessEmpty
  PROVE  PassesBy /\ quarantine' = << >> /\ RecentStored'
<1>1. /\ slots' = In!LiveSlots /\ quarantine' = In!LiveQuarantine
      /\ recent' = recent /\ stored' = stored /\ queue = << >>
  BY DEF In!ProcessEmpty, In!Expire
<1> QED BY <1>1, ExpiryEffect DEF PassesBy

LEMMA HitShape ==
  ASSUME CompleteInv, In!ProcessRecentDuplicate
  PROVE  PassesBy /\ quarantine' = << >> /\ RecentStored'
<1>1. /\ slots' = In!LiveSlots /\ quarantine' = In!LiveQuarantine
      /\ stored' = stored
  BY DEF In!ProcessRecentDuplicate, In!Expire
<1>2. PICK i \in In!RecentEntries(In!Taken) :
        recent' = Append(In!RemoveAt(In!LiveRecent, i), In!LiveRecent[i])
  BY DEF In!ProcessRecentDuplicate, In!Retained
<1>3. /\ i \in 1 .. Len(In!LiveRecent)
      /\ In!Taken \in In!Frames /\ Whole(In!Taken.post) \in stored
  BY HitIsStored
<1>4. PICK live, E : live = In!LiveRecent /\ E = StoredEntries
  OBVIOUS
<1>5. live \in Seq(E)
  BY <1>4, RecentLives
<1>6. Append(In!RemoveAt(live, i), live[i]) \in Seq(E)
  BY <1>3, <1>4, <1>5, HitStays
<1>7. recent' \in Seq(StoredEntries)
  BY <1>2, <1>4, <1>6
<1>8. RecentStored'
  BY <1>1, <1>7, EntriesGrow DEF RecentStored
<1> QED BY <1>1, <1>3, <1>8, ExpiryEffect DEF PassesBy

LEMMA MalformedShape ==
  ASSUME CompleteInv, In!ProcessMalformed
  PROVE  PassesBy /\ quarantine' = << >> /\ RecentStored'
<1>1. /\ slots' = In!LiveSlots /\ quarantine' = In!LiveQuarantine
      /\ recent' = In!LiveRecent /\ stored' = stored /\ In!Taken \in Garbage
  BY DEF In!ProcessMalformed, In!Discard, In!Expire
<1> QED BY <1>1, ExpiryEffect DEF PassesBy

LEMMA RepeatShape ==
  ASSUME CompleteInv, In!ProcessDuplicateFragment
  PROVE  IsThere /\ quarantine' = << >> /\ RecentStored'
<1>1. /\ quarantine' = In!LiveQuarantine /\ recent' = In!LiveRecent /\ stored' = stored
      /\ queue # << >> /\ In!Taken \in In!Frames
  BY DEF In!ProcessDuplicateFragment, In!ToReassembler, In!Take
<1>2. PICK s \in In!Targets :
        In!Present(s) /\ slots' = (In!LiveSlots \ {s}) \cup {s}
  BY DEF In!ProcessDuplicateFragment, In!Repeated
<1>3. s.key = KeyOf[In!Taken.post]
  BY <1>1, TargetFacts
<1>4. s \in In!LiveSlots
  <2>1. s # In!Opened
    BY <1>2 DEF In!Present, In!Opened
  <2> QED BY <2>1 DEF In!Targets, In!Matching
<1>5. slots' = In!LiveSlots
  BY <1>2, <1>4
<1>6. IsThere
  BY <1>1, <1>2, <1>3, <1>4, <1>5 DEF IsThere, In!Present
<1> QED BY <1>1, <1>6, ExpiryEffect

LEMMA FillShape ==
  ASSUME CompleteInv, In!ProcessFragmentAccepted
  PROVE  Fills /\ quarantine' = << >> /\ RecentStored'
<1>1. /\ quarantine' = In!LiveQuarantine /\ recent' = In!LiveRecent /\ stored' = stored
      /\ queue # << >> /\ In!Taken \in In!Frames
  BY DEF In!ProcessFragmentAccepted, In!ToReassembler, In!Take
<1>2. Fills
  BY <1>1 DEF In!ProcessFragmentAccepted, Fills
<1> QED BY <1>1, <1>2, ExpiryEffect

LEMMA CommitShape ==
  ASSUME CompleteInv, In!ProcessCommitted
  PROVE  Finishes /\ quarantine' = << >> /\ RecentStored'
<1>1. PICK c : In!Completed(c) /\ stored' = stored \cup {c} /\ In!MarkCommitted(c)
  BY DEF In!ProcessCommitted
<1>2. PICK m : m = In!Taken.post
  OBVIOUS
<1>3. m \in Msgs /\ c = Whole(m)
  BY <1>1, <1>2, CompletedIsWhole DEF CompleteInv
<1>4. /\ queue # << >> /\ In!Taken \in In!Frames /\ quarantine' = In!LiveQuarantine
      /\ \E s \in In!Targets : slots' = In!LiveSlots \ {s}
  BY <1>1 DEF In!Completed, In!ToReassembler, In!Take
<1>5. RecentStored'
  BY <1>1, <1>3, MarkedIsStored DEF RecentStored
<1>6. Finishes
  BY <1>1, <1>2, <1>3, <1>4 DEF Finishes
<1> QED BY <1>1, <1>4, <1>5, <1>6, ExpiryEffect

LEMMA TurnAwayShape ==
  ASSUME CompleteInv, ReceiverTurnsAway
  PROVE  TurnsAway /\ quarantine' = << >> /\ RecentStored'
<1>1. CASE In!ProcessNotCommitted
  <2>1. PICK c : In!Completed(c)
    BY <1>1 DEF In!ProcessNotCommitted
  <2>2. /\ queue # << >> /\ In!Taken \in In!Frames /\ quarantine' = In!LiveQuarantine
        /\ \E s \in In!Targets : slots' = In!LiveSlots \ {s}
        /\ recent' = In!LiveRecent /\ stored' = stored
    BY <1>1, <2>1 DEF In!Completed, In!ToReassembler, In!Take, In!ProcessNotCommitted
  <2> QED BY <2>2, ExpiryEffect DEF TurnsAway
<1>2. CASE In!ProcessCapacityExceeded
  <2>1. /\ queue # << >> /\ In!Taken \in In!Frames /\ quarantine' = In!LiveQuarantine
        /\ slots' = In!LiveSlots /\ recent' = In!LiveRecent /\ stored' = stored
    BY <1>2 DEF In!ProcessCapacityExceeded, In!ToReassembler, In!Take, In!Discard, In!Expire
  <2> QED BY <2>1, ExpiryEffect DEF TurnsAway
<1> QED BY <1>1, <1>2 DEF ReceiverTurnsAway

LEMMA PumpShape ==
  ASSUME CompleteInv, ReceiverPump \/ ReceiverIdles
  PROVE  /\ PassesBy \/ IsThere \/ Fills \/ Finishes
         /\ quarantine' = << >> /\ RecentStored'
BY NeverRefused, EmptyShape, HitShape, MalformedShape, RepeatShape, FillShape, CommitShape
   DEF ReceiverPump, ReceiverIdles

-----------------------------------------------------------------------------
(* The receiver's steps keep CompleteInv. *)

\* The slots are old ones or the one the frame went into.
LEMMA SlotsAfter ==
  ASSUME CompleteInv,
         PassesBy \/ IsThere \/ Fills \/ Finishes \/ TurnsAway
  PROVE  \/ slots' \subseteq slots
         \/ Fills
BY LiveAreSlots DEF PassesBy, IsThere, Finishes, TurnsAway

LEMMA FewerSlots ==
  ASSUME CompleteInv, slots' \subseteq slots, UNCHANGED <<now, pending, airborne>>
  PROVE  SlotsOpen' /\ InTime' /\ OnAir'
<1>1. SlotsOpen'
  BY DEF CompleteInv, SlotsOpen, In!Complete, Ticks
<1>2. InTime'
  BY DEF CompleteInv, InTime, SaturatingAdd
<1>3. OnAir'
  BY DEF CompleteInv, OnAir
<1> QED BY <1>1, <1>2, <1>3

LEMMA FilledSlots ==
  ASSUME CompleteInv, Fills, UNCHANGED <<now, pending, airborne>>
  PROVE  SlotsOpen' /\ InTime' /\ OnAir'
<1>1. PICK m, x : m = In!Taken.post /\ x = In!Taken.index
  OBVIOUS
<1>2. PICK s \in In!Targets :
        /\ ~In!Complete(In!Filled(s))
        /\ slots' = (In!LiveSlots \ {s}) \cup {In!Filled(s)}
  BY DEF Fills
<1>3. /\ m \in Msgs /\ s.key = KeyOf[m] /\ s.count = Fragments[m]
      /\ DOMAIN s = SlotFields /\ DOMAIN s.parts \subseteq Indices(m)
      /\ \A u \in slots : u.key = KeyOf[m] => u = s
      /\ s.deadline \in Ticks /\ now < s.deadline
      /\ \A i \in 1 .. Len(pending) : pending[i].id = m => pending[i].deadline <= s.deadline
  BY <1>1, TargetFacts DEF Fills
<1>4. x \in Indices(m)
  BY <1>1, FrameIndex DEF Fills
<1>5. PICK t : /\ t = In!Filled(s) /\ t.key = KeyOf[m] /\ t.count = Fragments[m]
               /\ t.deadline = s.deadline
               /\ DOMAIN t.parts = DOMAIN s.parts \cup {x}
  <2>1. PICK t : t = In!Filled(s)
    OBVIOUS
  <2>2. /\ t.key = s.key /\ t.count = s.count /\ t.deadline = s.deadline
        /\ DOMAIN t.parts = DOMAIN s.parts \cup {In!Taken.index}
    BY <1>3, <2>1, FilledFacts
  <2> QED BY <1>1, <1>3, <2>1, <2>2
<1>6. slots' = (In!LiveSlots \ {s}) \cup {t} /\ ~In!Complete(t)
  BY <1>2, <1>5
<1>7. \A u \in slots' : u = t \/ (u \in slots /\ u.key # KeyOf[m])
  BY <1>3, <1>6, LiveAreSlots
<1>8. DOMAIN t.parts # {} /\ DOMAIN t.parts \subseteq 0 .. t.count - 1
  BY <1>3, <1>4, <1>5 DEF Indices
<1>9. SlotsOpen'
  <2>1. ASSUME NEW u \in slots'
        PROVE  /\ u.deadline \in Ticks
               /\ DOMAIN u.parts # {} /\ DOMAIN u.parts \subseteq 0 .. u.count - 1
               /\ ~In!Complete(u)
    BY <1>3, <1>5, <1>6, <1>7, <1>8 DEF CompleteInv, SlotsOpen
  <2>2. ASSUME NEW u \in slots', NEW v \in slots', u.key = v.key
        PROVE  u = v
    BY <1>5, <1>7, <2>2 DEF CompleteInv, SlotsOpen
  <2> QED BY <2>1, <2>2 DEF SlotsOpen, In!Complete, Ticks
<1>10. InTime'
  <2>1. ASSUME NEW i \in 1 .. Len(pending), NEW u \in slots', u.key = KeyOf[pending[i].id]
        PROVE  pending[i].deadline <= u.deadline
    <3>1. pending[i].id \in Msgs
      <4>1. pending \in Seq(PendingMessage)
        BY DEF CompleteInv, PairInv, IInv, TypeOK
      <4>2. pending[i] \in PendingMessage
        BY <4>1
      <4> QED BY <4>2 DEF PendingMessage
    <3>2. CASE u \in slots
      BY <2>1, <3>2 DEF CompleteInv, InTime
    <3>3. CASE u = t
      <4>1. pending[i].id = m
        BY <1>3, <1>5, <2>1, <3>1, <3>3, TwoNodesAssumption
      <4> QED BY <1>3, <1>5, <3>3, <4>1
    <3> QED BY <1>7, <3>2, <3>3
  <2> QED BY <2>1 DEF CompleteInv, InTime, SaturatingAdd
<1>11. OnAir'
  <2>1. \A f \in airborne, u \in slots' : u.key = KeyOf[f.post] => now < u.deadline
    BY <1>3, <1>5, <1>7 DEF CompleteInv, OnAir
  <2> QED BY <2>1 DEF CompleteInv, OnAir
<1> QED BY <1>9, <1>10, <1>11

\* The posts whose frame is not in the queue.
LEMMA OthersStay ==
  ASSUME CompleteInv, NEW n \in Msgs,
         UNCHANGED <<now, pending, airborne, handed>>, heard'[n] = heard[n],
         PassesBy \/ IsThere \/ Fills \/ Finishes \/ TurnsAway,
         queue # << >> /\ In!Taken \in In!Frames => In!Taken.post # n
  PROVE  Kept(n)'
<1>1. Waiting(n) = {}
  <2>1. queue = << >> \/ In!Taken \in Garbage \/ In!Taken \in In!Frames
    BY DEF PassesBy, IsThere, Fills, Finishes, TurnsAway
  <2> QED BY <2>1 DEF Waiting
<1>2. stored \subseteq stored'
  BY DEF PassesBy, IsThere, Fills, Finishes, TurnsAway
<1>3. \A s \in In!LiveSlots : s.key = KeyOf[n] => s \in slots'
  <2>1. CASE slots' = In!LiveSlots
    BY <2>1
  <2>2. CASE (Fills \/ Finishes \/ TurnsAway) /\ slots' # In!LiveSlots
    <3>1. PICK s \in In!Targets : In!LiveSlots \ {s} \subseteq slots'
      BY <2>2 DEF Fills, Finishes, TurnsAway
    <3>2. queue # << >> /\ In!Taken \in In!Frames
      BY <2>2 DEF Fills, Finishes, TurnsAway
    <3>3. In!Taken.post \in Msgs /\ s.key = KeyOf[In!Taken.post]
      BY <3>2, TargetFacts
    <3>4. s.key # KeyOf[n]
      BY <3>2, <3>3, TwoNodesAssumption
    <3> QED BY <3>1, <3>4
  <2> QED BY <2>1, <2>2 DEF PassesBy, IsThere
<1> QED BY <1>1, <1>2, <1>3, ExpiryKeeps

\* What the receiver has heard of the post of the frame in the queue is in its
\* slot, the frame apart.
LEMMA HeardSoFar ==
  ASSUME CompleteInv, queue # << >>, In!Taken \in In!Frames,
         NEW s, \A u \in slots : u.key = KeyOf[In!Taken.post] => u = s
  PROVE  \/ Whole(In!Taken.post) \in stored
         \/ heard[In!Taken.post] \subseteq DOMAIN s.parts \cup {In!Taken.index}
<1>1. PICK m : m = In!Taken.post
  OBVIOUS
<1>2. m \in Msgs
  BY <1>1, FrameIndex
<1>3. ~Over(m)
  BY <1>1, MatchingLives DEF Over
<1>4. Waiting(m) \subseteq {In!Taken.index}
  BY DEF Waiting
<1>5. Held(m) \subseteq DOMAIN s.parts
  BY <1>1 DEF Held
<1>6. Kept(m)
  BY <1>2 DEF CompleteInv
<1> QED BY <1>1, <1>3, <1>4, <1>5, <1>6 DEF Kept

LEMMA TakenStays ==
  ASSUME CompleteInv, heard' = heard, queue # << >>, In!Taken \in In!Frames,
         PassesBy \/ IsThere \/ Fills \/ Finishes,
         NEW m, m = In!Taken.post
  PROVE  Kept(m)'
<1>1. PICK x : x = In!Taken.index
  OBVIOUS
<1>2. ASSUME NEW t \in slots', t.key = KeyOf[m], heard[m] \subseteq DOMAIN t.parts
      PROVE  Kept(m)'
  <2>1. heard'[m] \subseteq Held(m)'
    BY <1>2 DEF Held
  <2> QED BY <2>1 DEF Kept
<1>3. ASSUME Whole(m) \in stored' PROVE Kept(m)'
  <2>1. Whole(m)' = Whole(m)
    BY DEF Whole, Indices
  <2> QED BY <1>3, <2>1 DEF Kept
<1>4. CASE PassesBy
  BY <1>3, <1>4, TwoNodesAssumption DEF PassesBy
<1>5. CASE Finishes
  BY <1>3, <1>5 DEF Finishes
<1>6. CASE IsThere
  <2>1. PICK t \in In!LiveSlots : t.key = KeyOf[m] /\ x \in DOMAIN t.parts
    BY <1>1, <1>6 DEF IsThere
  <2>2. slots' = In!LiveSlots /\ stored' = stored
    BY <1>6 DEF IsThere
  <2>3. \A u \in slots : u.key = KeyOf[m] => u = t
    BY <2>1, LiveAreSlots DEF CompleteInv, SlotsOpen
  <2>4. Whole(m) \in stored \/ heard[m] \subseteq DOMAIN t.parts \cup {x}
    BY <1>1, <2>3, HeardSoFar
  <2> QED BY <1>2, <1>3, <2>1, <2>2, <2>4
<1>7. CASE Fills
  <2>1. PICK s \in In!Targets : slots' = (In!LiveSlots \ {s}) \cup {In!Filled(s)}
    BY <1>7 DEF Fills
  <2>2. DOMAIN s = SlotFields /\ s.key = KeyOf[m] /\ \A u \in slots : u.key = KeyOf[m] => u = s
    BY TargetFacts
  <2>3. Whole(m) \in stored \/ heard[m] \subseteq DOMAIN s.parts \cup {x}
    BY <1>1, <2>2, HeardSoFar
  <2>4. PICK t : /\ t = In!Filled(s) /\ t.key = KeyOf[m]
                 /\ DOMAIN t.parts = DOMAIN s.parts \cup {x}
    <3>1. PICK t : t = In!Filled(s)
      OBVIOUS
    <3>2. t.key = s.key /\ DOMAIN t.parts = DOMAIN s.parts \cup {In!Taken.index}
      BY <2>2, <3>1, FilledFacts
    <3> QED BY <1>1, <2>2, <3>1, <3>2
  <2>5. t \in slots' /\ stored' = stored
    BY <1>7, <2>1, <2>4 DEF Fills
  <2> QED BY <1>2, <1>3, <2>3, <2>4, <2>5
<1> QED BY <1>4, <1>5, <1>6, <1>7

LEMMA ProcessKeeps ==
  ASSUME CompleteInv, ReceiverPump \/ ReceiverIdles \/ ReceiverTurnsAway, PairInv'
  PROVE  CompleteInv'
<1>1. In!Process /\ UNCHANGED <<vars, handed, airborne>>
  BY ReceiverProcesses
<1>2. UNCHANGED <<now, pending, airborne, handed>> /\ queue' = << >>
  BY <1>1, ProcessQueue DEF vars, CompleteInv
<1>3. /\ PassesBy \/ IsThere \/ Fills \/ Finishes \/ TurnsAway
      /\ quarantine' = << >> /\ RecentStored'
  BY PumpShape, TurnAwayShape
<1>4. SlotsOpen' /\ InTime' /\ OnAir'
  BY <1>2, <1>3, SlotsAfter, FewerSlots, FilledSlots
<1>5. JustHeard'
  BY <1>2 DEF JustHeard
<1>6. CASE ReceiverPump \/ ReceiverIdles
  <2>1. heard' = heard /\ (PassesBy \/ IsThere \/ Fills \/ Finishes)
    BY <1>6, PumpShape DEF ReceiverPump, ReceiverIdles
  <2>2. HeardType'
    BY <2>1 DEF CompleteInv, HeardType, FragmentIds
  <2>3. \A m \in Msgs : Kept(m)'
    BY <1>2, <2>1, OthersStay, TakenStays
  <2> QED BY <1>2, <1>3, <1>4, <1>5, <2>2, <2>3 DEF CompleteInv
<1>7. CASE ReceiverTurnsAway
  <2>1. PICK m : m = In!Taken.post
    OBVIOUS
  <2>2. heard' = [heard EXCEPT ![m] = {}] /\ heard \in [Msgs -> SUBSET FragmentIds] /\ TurnsAway
    BY <1>7, <2>1, TurnAwayShape DEF ReceiverTurnsAway, CompleteInv, HeardType
  <2>3. HeardType'
    BY <2>2 DEF HeardType, FragmentIds
  <2>4. \A n \in Msgs : heard'[n] = IF n = m THEN {} ELSE heard[n]
    BY <2>2
  <2>5. ASSUME NEW n \in Msgs PROVE Kept(n)'
    <3>1. CASE n = m
      BY <2>4, <3>1 DEF Kept
    <3>2. CASE n # m
      BY <1>2, <2>1, <2>2, <2>4, <3>2, OthersStay
    <3> QED BY <3>1, <3>2
  <2> QED BY <1>2, <1>3, <1>4, <1>5, <2>3, <2>5 DEF CompleteInv
<1> QED BY <1>6, <1>7

-----------------------------------------------------------------------------
(* The other steps keep CompleteInv. *)

LEMMA TickFacts ==
  ASSUME CompleteInv
  PROVE  /\ MaxTick \in Nat /\ now \in Nat /\ now <= MaxTick
         /\ Len(pending) \in Nat
         /\ \A i \in 1 .. Len(pending) :
              /\ pending[i].id \in Msgs
              /\ pending[i].deadline \in Nat /\ pending[i].deadline <= MaxTick
<1>1. pending \in Seq(PendingMessage) /\ now \in Ticks
  BY DEF CompleteInv, PairInv, IInv, TypeOK
<1>2. MaxTick \in Nat
  BY SchedulerAssumption
<1>3. Len(pending) \in Nat /\ \A i \in 1 .. Len(pending) : pending[i] \in PendingMessage
  BY <1>1
<1>4. \A p \in PendingMessage : p.id \in Msgs /\ p.deadline \in Ticks
  BY DEF PendingMessage
<1>5. \A t \in Ticks : t \in Nat /\ t <= MaxTick
  BY <1>2 DEF Ticks
<1> QED BY <1>1, <1>2, <1>3, <1>4, <1>5

\* Slots and recent_ are as they were.
LEMMA ReceiverSame ==
  ASSUME CompleteInv, UNCHANGED <<slots, recent, stored, quarantine>>
  PROVE  SlotsOpen' /\ RecentStored' /\ quarantine' = << >>
<1>1. SlotsOpen'
  BY DEF CompleteInv, SlotsOpen, In!Complete, Ticks
<1>2. RecentStored'
  BY EntriesGrow DEF CompleteInv, RecentStored
<1> QED BY <1>1, <1>2 DEF CompleteInv

LEMMA KeptSame ==
  ASSUME CompleteInv, NEW n \in Msgs, UNCHANGED <<slots, stored, queue, heard>>,
         Over(n) => Over(n)'
  PROVE  Kept(n)'
<1>1. Kept(n)
  BY DEF CompleteInv
<1>2. Whole(n)' = Whole(n) /\ Held(n)' = Held(n) /\ Waiting(n)' = Waiting(n)
  BY DEF Whole, Indices, Held, Waiting, In!Taken
<1> QED BY <1>1, <1>2 DEF Kept

LEMMA OverStays ==
  ASSUME CompleteInv, NEW n \in Msgs, Over(n), heard' = heard, handed \subseteq handed',
         now' \in Nat, now <= now', \A f \in airborne' : f.post # n,
         \A i \in 1 .. Len(pending') : pending'[i].id = n =>
           \E j \in 1 .. Len(pending) :
             pending[j].id = n /\ pending'[i].deadline = pending[j].deadline
  PROVE  Over(n)'
<1>1. ASSUME NEW i \in 1 .. Len(pending'), pending'[i].id = n
      PROVE  pending'[i].deadline <= now'
  <2>1. PICK j \in 1 .. Len(pending) :
          pending[j].id = n /\ pending'[i].deadline = pending[j].deadline
    BY <1>1
  <2>2. pending[j].deadline <= now
    BY <2>1 DEF Over
  <2>3. pending[j].deadline \in Nat /\ now \in Nat
    BY TickFacts
  <2>4. pending[j].deadline <= now'
    BY <2>2, <2>3
  <2> QED BY <2>1, <2>4
<1>2. heard'[n] # Indices(n) /\ n \in handed'
  BY DEF Over
<1> QED BY <1>1, <1>2 DEF Over, Indices

\* Every post in the queue is an old one.
LEMMA CarriedKeeps ==
  ASSUME CompleteInv, PairInv', Carried, UNCHANGED <<now, receiver, heard>>, handed' = handed,
         airborne \subseteq airborne', OnAir',
         \A f \in airborne' \ airborne : ~Over(f.post)
  PROVE  CompleteInv'
<1>1. UNCHANGED <<slots, recent, stored, quarantine, queue>>
  BY DEF receiver
<1>2. SlotsOpen' /\ RecentStored' /\ quarantine' = << >>
  BY <1>1, ReceiverSame
<1>3. HeardType'
  BY DEF CompleteInv, HeardType, FragmentIds
<1>4. InTime'
  <2>1. ASSUME NEW i \in 1 .. Len(pending')
        PROVE  /\ pending'[i].deadline <= SaturatingAdd(now, OutboundDeadline)
               /\ \A s \in slots : s.key = KeyOf[pending'[i].id] =>
                    pending'[i].deadline <= s.deadline
    <3>1. PICK j \in 1 .. Len(pending) :
            pending'[i].id = pending[j].id /\ pending'[i].deadline = pending[j].deadline
      BY DEF Carried
    <3> QED BY <3>1 DEF CompleteInv, InTime
  <2> QED BY <1>1, <2>1 DEF InTime, SaturatingAdd
<1>5. JustHeard'
  BY <1>1 DEF CompleteInv, JustHeard, In!Taken, In!TakenTick
<1>6. ASSUME NEW n \in Msgs PROVE Kept(n)'
  <2>1. ASSUME Over(n) PROVE Over(n)'
    <3>1. \A f \in airborne' : f.post # n
      BY <2>1 DEF Over
    <3>2. now' \in Nat /\ now <= now'
      BY TickFacts
    <3>3. \A i \in 1 .. Len(pending') : pending'[i].id = n =>
            \E j \in 1 .. Len(pending) :
              pending[j].id = n /\ pending'[i].deadline = pending[j].deadline
      BY DEF Carried
    <3> QED BY <2>1, <3>1, <3>2, <3>3, OverStays
  <2> QED BY <1>1, <2>1, KeptSame
<1> QED BY <1>2, <1>3, <1>4, <1>5, <1>6 DEF CompleteInv

LEMMA SameOnAir ==
  ASSUME CompleteInv, UNCHANGED <<now, slots, airborne>>
  PROVE  OnAir'
BY DEF CompleteInv, OnAir

LEMMA TransmitKeeps ==
  ASSUME CompleteInv, PairInv', Transmit \/ TransmitFails
  PROVE  CompleteInv'
<1>1. /\ Pump /\ UNCHANGED <<now, receiver, heard>> /\ handed' = handed /\ Offerable
  BY DEF Transmit, TransmitFails, Pump, PumpAccepted, PumpBackpressure
<1>2. Carried
  BY <1>1, PumpCarries DEF CompleteInv, PairInv
<1>3. pending # << >> /\ now < Front.deadline
  BY <1>1 DEF Offerable, Due
<1>4. PICK m, x : /\ m = Front.id /\ x = Front.fragment_index
                  /\ airborne' \in {airborne, airborne \cup {[post |-> m, index |-> x]}}
  BY DEF Transmit, TransmitFails, FrontFrame
<1>5. pending[1] = Front /\ 1 \in 1 .. Len(pending) /\ m \in Msgs
  BY <1>3, <1>4, FrontFacts DEF CompleteInv, PairInv
<1>6. now < MaxTick /\ now \in Nat /\ Front.deadline \in Nat
  BY <1>3, <1>5, TickFacts
<1>7. ~Over(m)
  BY <1>3, <1>4, <1>5, <1>6 DEF Over
<1>8. \A s \in slots : s.key = KeyOf[m] => now < s.deadline
  <2>1. ASSUME NEW s \in slots, s.key = KeyOf[m] PROVE now < s.deadline
    <3>1. Front.deadline <= s.deadline
      BY <1>4, <1>5, <2>1 DEF CompleteInv, InTime
    <3>2. s.deadline \in Int
      BY SchedulerAssumption DEF CompleteInv, SlotsOpen, Ticks
    <3> QED BY <1>3, <1>6, <3>1, <3>2
  <2> QED BY <2>1
<1>9. OnAir'
  BY <1>1, <1>4, <1>6, <1>8 DEF CompleteInv, OnAir, receiver
<1> QED BY <1>1, <1>2, <1>4, <1>7, <1>9, CarriedKeeps

LEMMA SenderPumpKeeps ==
  ASSUME CompleteInv, PairInv', SenderPump \/ SenderStops \/ SenderCloses
  PROVE  CompleteInv'
<1>1. UNCHANGED <<receiver, handed, airborne, heard>> /\ now' = now
  BY DEF SenderPump, SenderStops, SenderCloses, CancelAll, CloseTransport, PumpExpired,
     PumpClosed, PumpSkip, PumpDeferred, PumpRefused, PumpBackpressure, PumpSendError
<1>2. Carried
  <2>1. CASE SenderPump
    BY <2>1, PumpCarries DEF SenderPump, Pump, CompleteInv, PairInv
  <2>2. CASE SenderStops
    BY <2>2 DEF SenderStops, CancelAll, Carried
  <2>3. CASE SenderCloses
    BY <2>3 DEF SenderCloses, CloseTransport, Carried
  <2> QED BY <2>1, <2>2, <2>3
<1>3. OnAir'
  BY <1>1, SameOnAir DEF receiver
<1> QED BY <1>1, <1>2, <1>3, CarriedKeeps

LEMMA HandKeeps ==
  ASSUME CompleteInv, PairInv', NEW m \in Msgs, Hand(m)
  PROVE  CompleteInv'
<1>1. /\ m \notin handed /\ handed' = handed \cup {m} /\ Enqueue(m)
      /\ UNCHANGED <<receiver, airborne, heard>> /\ now' = now
  BY DEF Hand, Enqueue
<1>2. PICK p : /\ p.id = m /\ p.deadline = SaturatingAdd(now, OutboundDeadline)
               /\ pending' = Append(pending, p)
  BY <1>1 DEF Enqueue
<1>3. pending \in Seq(PendingMessage)
  BY DEF CompleteInv, PairInv, IInv, TypeOK
<1>4. \A i \in 1 .. Len(pending') :
        (i \in 1 .. Len(pending) /\ pending'[i] = pending[i]) \/ pending'[i] = p
  BY <1>2, <1>3
<1>5. UNCHANGED <<slots, recent, stored, quarantine, queue>>
  BY <1>1 DEF receiver
<1>6. SlotsOpen' /\ RecentStored' /\ quarantine' = << >>
  BY <1>5, ReceiverSame
<1>7. HeardType'
  BY <1>1 DEF CompleteInv, HeardType, FragmentIds
<1>8. InTime'
  <2>1. \A s \in slots : s.key # KeyOf[m]
    BY <1>1, SlotPost
  <2>2. SaturatingAdd(now, OutboundDeadline) <= SaturatingAdd(now, OutboundDeadline)
    <3>1. now \in Ticks
      BY DEF CompleteInv, PairInv, IInv, TypeOK
    <3> QED BY <3>1, LaterEndsLater DEF Ticks
  <2>3. ASSUME NEW i \in 1 .. Len(pending')
        PROVE  /\ pending'[i].deadline <= SaturatingAdd(now, OutboundDeadline)
               /\ \A s \in slots : s.key = KeyOf[pending'[i].id] =>
                    pending'[i].deadline <= s.deadline
    BY <1>2, <1>4, <2>1, <2>2 DEF CompleteInv, InTime
  <2> QED BY <1>1, <1>5, <2>3 DEF InTime, SaturatingAdd
<1>9. OnAir'
  BY <1>1, <1>5, SameOnAir
<1>10. JustHeard'
  BY <1>1, <1>5 DEF CompleteInv, JustHeard, In!Taken, In!TakenTick
<1>11. ASSUME NEW n \in Msgs PROVE Kept(n)'
  <2>1. ASSUME Over(n) PROVE Over(n)'
    <3>1. n # m /\ \A f \in airborne' : f.post # n
      BY <1>1, <2>1 DEF Over
    <3>2. now' \in Nat /\ now <= now'
      BY <1>1, TickFacts
    <3>3. \A i \in 1 .. Len(pending') : pending'[i].id = n =>
            \E j \in 1 .. Len(pending) :
              pending[j].id = n /\ pending'[i].deadline = pending[j].deadline
      BY <1>2, <1>4, <3>1
    <3> QED BY <1>1, <2>1, <3>1, <3>2, <3>3, OverStays
  <2> QED BY <1>1, <1>5, <2>1, KeptSame
<1> QED BY <1>6, <1>7, <1>8, <1>9, <1>10, <1>11 DEF CompleteInv

LEMMA TickKeeps ==
  ASSUME CompleteInv, PairInv', Tick
  PROVE  CompleteInv'
<1>1. /\ queue = << >> /\ airborne' = {} /\ UNCHANGED <<receiver, handed, heard, pending>>
      /\ \E t \in Ticks : t > now /\ now' = t
  BY DEF Tick, AdvanceClock
<1>2. UNCHANGED <<slots, recent, stored, quarantine, queue>>
  BY <1>1 DEF receiver
<1>3. now \in Ticks /\ now' \in Ticks /\ now' \in Nat /\ now <= now'
  BY <1>1, SchedulerAssumption DEF CompleteInv, PairInv, IInv, TypeOK, Ticks
<1>4. SlotsOpen' /\ RecentStored' /\ quarantine' = << >>
  BY <1>2, ReceiverSame
<1>5. HeardType'
  BY <1>1 DEF CompleteInv, HeardType, FragmentIds
<1>6. InTime'
  <2>1. PICK t \in Ticks : t = now' /\ now <= t
    BY <1>3
  <2>2. SaturatingAdd(now, OutboundDeadline) <= SaturatingAdd(t, OutboundDeadline)
    BY <1>3, <2>1, LaterEndsLater
  <2>3. SaturatingAdd(now, OutboundDeadline) \in Int /\ SaturatingAdd(t, OutboundDeadline) \in Int
    BY <1>3, TimeFacts DEF SaturatingAdd, Ticks
  <2>4. \A a, b, c \in Int : a <= b /\ b <= c => a <= c
    OBVIOUS
  <2>5. \A i \in 1 .. Len(pending) : pending[i].deadline \in Int
    BY TickFacts
  <2>6. \A i \in 1 .. Len(pending) : pending[i].deadline <= SaturatingAdd(t, OutboundDeadline)
    BY <2>2, <2>3, <2>4, <2>5 DEF CompleteInv, InTime
  <2>7. SaturatingAdd(t, OutboundDeadline) = SaturatingAdd(now, OutboundDeadline)'
    BY <2>1 DEF SaturatingAdd
  <2> QED BY <1>1, <1>2, <2>6, <2>7 DEF CompleteInv, InTime
<1>7. OnAir' /\ JustHeard'
  BY <1>1, <1>2 DEF OnAir, JustHeard
<1>8. ASSUME NEW n \in Msgs PROVE Kept(n)'
  <2>1. ASSUME Over(n) PROVE Over(n)'
    BY <1>1, <1>3, <2>1, OverStays
  <2> QED BY <1>1, <1>2, <2>1, KeptSame
<1> QED BY <1>4, <1>5, <1>6, <1>7, <1>8 DEF CompleteInv

LEMMA HearKeeps ==
  ASSUME CompleteInv, PairInv', NEW f \in airborne \cup Garbage, Hear(f)
  PROVE  CompleteInv'
<1>1. /\ queue = << >> /\ UNCHANGED <<now, pending, handed, airborne>>
      /\ UNCHANGED <<slots, recent, stored, quarantine>>
      /\ queue' = Append(<< >>, [datagram |-> f, tick |-> now])
      /\ heard' = IF f \in Garbage THEN heard
                  ELSE [heard EXCEPT ![f.post] = @ \cup {f.index}]
  BY DEF Hear, In!Enqueue, vars
<1>2. queue' # << >> /\ In!Taken' = f /\ In!TakenTick' = now
  BY <1>1 DEF In!Taken, In!TakenTick
<1>3. SlotsOpen' /\ RecentStored' /\ quarantine' = << >>
  BY <1>1, ReceiverSame
<1>4. InTime' /\ OnAir'
  BY <1>1, FewerSlots
<1>5. JustHeard'
  BY <1>1, <1>2 DEF JustHeard
<1>6. heard \in [Msgs -> SUBSET FragmentIds]
  BY DEF CompleteInv, HeardType
<1>7. ASSUME NEW n \in Msgs, heard'[n] = heard[n] PROVE Kept(n)'
  <2>1. Waiting(n) = {}
    BY <1>1 DEF Waiting
  <2>2. In!LiveSlots \subseteq slots'
    BY <1>1, LiveAreSlots
  <2> QED BY <1>1, <1>7, <2>1, <2>2, ExpiryKeeps
<1>8. CASE f \in Garbage
  <2>1. heard' = heard
    BY <1>1, <1>8
  <2>2. HeardType'
    BY <1>6, <2>1 DEF HeardType, FragmentIds
  <2> QED BY <1>3, <1>4, <1>5, <1>7, <2>1, <2>2 DEF CompleteInv
<1>9. CASE f \notin Garbage
  <2>1. PICK m, x : m = f.post /\ x = f.index
    OBVIOUS
  <2>2. m \in Msgs /\ x \in FragmentIds /\ f \in airborne
    BY <1>9, <2>1 DEF CompleteInv, PairInv, AirborneSent, Sent, Left, DoubtType, IInv, TypeOK
  <2>3. heard' = [heard EXCEPT ![m] = @ \cup {x}]
    BY <1>1, <1>9, <2>1
  <2>4. HeardType'
    BY <1>6, <2>2, <2>3 DEF HeardType, FragmentIds
  <2>5. Kept(m)'
    <3>1. ~Over(m)
      BY <2>1, <2>2 DEF Over
    <3>2. Waiting(m) = {} /\ Waiting(m)' = {x}
      BY <1>1, <1>2, <1>9, <2>1 DEF Waiting
    <3>3. Whole(m)' = Whole(m) /\ Held(m)' = Held(m)
      BY <1>1 DEF Whole, Indices, Held
    <3>4. heard'[m] = heard[m] \cup {x}
      BY <1>6, <2>2, <2>3
    <3>5. Kept(m)
      BY <2>2 DEF CompleteInv
    <3> QED BY <1>1, <3>1, <3>2, <3>3, <3>4, <3>5 DEF Kept
  <2>6. \A n \in Msgs : n # m => heard'[n] = heard[n]
    BY <1>6, <2>3
  <2> QED BY <1>3, <1>4, <1>5, <1>7, <2>4, <2>5, <2>6 DEF CompleteInv
<1> QED BY <1>8, <1>9

LEMMA StopKeeps ==
  ASSUME CompleteInv, PairInv', ReceiverStops
  PROVE  CompleteInv'
<1>1. /\ UNCHANGED <<now, pending, handed, airborne, stored>>
      /\ queue' = << >> /\ slots' = {} /\ recent' = << >> /\ quarantine' = << >>
      /\ heard' = [m \in Msgs |-> {}]
  BY DEF ReceiverStops, In!Stop, vars
<1>2. SlotsOpen' /\ InTime' /\ OnAir'
  BY <1>1, FewerSlots
<1>3. RecentStored'
  BY <1>1 DEF RecentStored
<1>4. JustHeard' /\ HeardType'
  BY <1>1 DEF JustHeard, HeardType
<1>5. \A n \in Msgs : Kept(n)'
  BY <1>1 DEF Kept
<1> QED BY <1>1, <1>2, <1>3, <1>4, <1>5 DEF CompleteInv

LEMMA SameKeeps ==
  ASSUME CompleteInv, PairInv',
         UNCHANGED <<now, pending, handed, airborne, stored, queue, slots, recent,
                     quarantine, heard>>
  PROVE  CompleteInv'
<1>1. SlotsOpen' /\ RecentStored' /\ quarantine' = << >>
  BY ReceiverSame
<1>2. InTime' /\ OnAir'
  BY FewerSlots
<1>3. JustHeard' /\ HeardType'
  BY DEF CompleteInv, JustHeard, HeardType, FragmentIds, In!Taken, In!TakenTick
<1>4. \A n \in Msgs : Over(n) => Over(n)'
  BY DEF Over, Indices
<1>5. \A n \in Msgs : Kept(n)'
  BY <1>4, KeptSame
<1> QED BY <1>1, <1>2, <1>3, <1>5 DEF CompleteInv

LEMMA InitCompleteInv == TwoInit => CompleteInv
<1> SUFFICES ASSUME TwoInit PROVE CompleteInv
  OBVIOUS
<1>1. PairInv
  BY InitPairInv
<1>2. /\ queue = << >> /\ slots = {} /\ recent = << >> /\ quarantine = << >>
      /\ airborne = {} /\ pending = << >> /\ heard = [m \in Msgs |-> {}]
  BY DEF TwoInit, In!Init, Init
<1>3. SlotsOpen /\ InTime /\ OnAir /\ JustHeard /\ HeardType
  BY <1>2 DEF SlotsOpen, InTime, OnAir, JustHeard, HeardType
<1>4. RecentStored
  BY <1>2 DEF RecentStored
<1>5. \A n \in Msgs : Kept(n)
  BY <1>2 DEF Kept
<1> QED BY <1>1, <1>2, <1>3, <1>4, <1>5 DEF CompleteInv

LEMMA NextCompleteInv == CompleteInv /\ [TwoNext]_nodes => CompleteInv'
<1> SUFFICES ASSUME CompleteInv, [TwoNext]_nodes PROVE CompleteInv'
  OBVIOUS
<1>0. PairInv'
  BY NextPairInv DEF CompleteInv
<1>1. CASE ReceiverPump \/ ReceiverIdles \/ ReceiverTurnsAway
  BY <1>0, <1>1, ProcessKeeps
<1>2. CASE SenderPump \/ SenderStops \/ SenderCloses
  BY <1>0, <1>2, SenderPumpKeeps
<1>3. CASE ReceiverStarts
  BY <1>0, <1>3, SameKeeps DEF ReceiverStarts, vars
<1>4. CASE UNCHANGED nodes
  BY <1>0, <1>4, SameKeeps DEF nodes, vars, receiver
<1>5. CASE Transmit \/ TransmitFails \/ Tick \/ ReceiverStops
  BY <1>0, <1>5, TransmitKeeps, TickKeeps, StopKeeps
<1>6. CASE \E m \in Msgs : Hand(m)
  BY <1>0, <1>6, HandKeeps
<1>7. CASE \E f \in airborne \cup Garbage : Hear(f)
  BY <1>0, <1>7, HearKeeps
<1> QED BY <1>1, <1>2, <1>3, <1>4, <1>5, <1>6, <1>7 DEF TwoNext

\* When a slot expires nothing of its post is still to come: a receiver that has
\* heard every fragment of a post, in whichever pass, since it started and last
\* had no slot for the post or refused it, has stored it: for any number of posts
\* and of slots (reassembler.h:21), any fragments, delays and losses.
THEOREM PassesMeet == TwoSpec => []EitherPassCompletes
<1>1. CompleteInv => EitherPassCompletes
  <2> SUFFICES ASSUME CompleteInv, NEW m \in Msgs, heard[m] = Indices(m), queue = << >>
               PROVE  m \in Reached
    BY DEF EitherPassCompletes
  <2>1. Kept(m) /\ ~Over(m) /\ Waiting(m) = {} /\ 0 \in Indices(m)
    BY FragmentFacts DEF CompleteInv, Over, Waiting, Indices
  <2>2. ~(heard[m] \subseteq Held(m))
    <3> SUFFICES ASSUME Indices(m) \subseteq Held(m) PROVE FALSE
      OBVIOUS
    <3>1. PICK s \in slots : s.key = KeyOf[m]
      BY <2>1 DEF Held
    <3>2. \A u \in slots : u.key = KeyOf[m] => u = s
      BY <3>1 DEF CompleteInv, SlotsOpen
    <3>3. Indices(m) \subseteq DOMAIN s.parts
      BY <3>2 DEF Held
    <3> QED BY <3>1, <3>3, SlotPost
  <2>3. Whole(m) \in stored
    BY <2>1, <2>2 DEF Kept
  <2>4. Whole(m)[0] = m
    BY <2>1 DEF Whole
  <2> QED BY <2>3, <2>4 DEF Reached
<1> QED BY <1>1, InitCompleteInv, NextCompleteInv, PTL DEF TwoSpec
=============================================================================
