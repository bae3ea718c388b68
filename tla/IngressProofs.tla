---------------------------- MODULE IngressProofs ----------------------------
(***************************************************************************)
(* For all posts, keys and capacities: the inbound side keeps its bounds,  *)
(* its windows and its quarantine, and what it commits is whole.           *)
(*                                                                         *)
(* The expiry of a deque and the retaining of frames are recursive         *)
(* functions; what they compute is shown by induction, in the form of      *)
(* facts about sets of numbers (SetInduction, Iterated).                   *)
(***************************************************************************)
EXTENDS Ingress, FiniteSetTheorems, SequenceTheorems, WellFoundedInduction,
        TLAPS

Recent == [frame : Frames, deadline : Ticks]
Barring == [key : UsedKeys, deadline : Ticks]
Received == [datagram : Frames \cup Garbage, tick : Ticks]

Parts == UNION {[D -> Posts] : D \in SUBSET Nat}
Slot == [key : UsedKeys, count : Nat \ {0}, deadline : Ticks, parts : Parts,
         heard : SUBSET Ticks]

\* The fragments in a slot are of its key and geometry.
Sound(s) ==
  /\ DOMAIN s.parts \subseteq 0 .. s.count - 1
  /\ \A i \in DOMAIN s.parts :
       KeyOf[s.parts[i]] = s.key /\ Count[s.parts[i]] = s.count

\* The slots, apart from when they expire: one for a key.
SlotsSound ==
  /\ slots \subseteq Slot /\ IsFiniteSet(slots)
  /\ Cardinality(slots) <= SlotCapacity
  /\ \A s \in slots : Sound(s)
  /\ \A s, t \in slots : s.key = t.key => s = t

\* Datagrams wait in the order they came.
QueueInOrder ==
  /\ queue \in Seq(Received) /\ Len(queue) <= QueueCapacity
  /\ \A i \in DOMAIN queue : queue[i].tick <= now
  /\ \A i, j \in DOMAIN queue : i <= j => queue[i].tick <= queue[j].tick

\* No slot outlives the window of a datagram that is still to come.
Window(s) ==
  /\ \A t \in s.heard : /\ s.deadline <= SaturatingDeadline(t, Timeout)
                        /\ t < s.deadline \/ s.deadline = MaxTick
  /\ s.deadline <= SaturatingDeadline(now, Timeout)
Windows ==
  \A s \in slots :
    /\ Window(s)
    /\ \A i \in DOMAIN queue :
         s.deadline <= SaturatingDeadline(queue[i].tick, Timeout)

\* A fragment of something stored.
OfStored(frame) ==
  \E c \in stored : frame.index \in DOMAIN c /\ c[frame.index] = frame.post

RecentSound ==
  /\ recent \in Seq(Recent) /\ Len(recent) <= RecentCapacity
  /\ \A i \in DOMAIN recent : OfStored(recent[i].frame)

NotSuppressed ==
  \A s \in slots : \A j \in DOMAIN s.parts : \A i \in DOMAIN recent :
    ~(recent[i].frame.post = s.parts[j] /\ recent[i].frame.index = j)

\* A key that is barred is in the quarantine, and has no slot.
QuarantineSound ==
  /\ quarantine \in Seq(Barring) /\ Len(quarantine) <= QuarantineCapacity
  /\ barred \in [UsedKeys -> Ticks]
  /\ \A k \in UsedKeys : barred[k] > now =>
       \E i \in DOMAIN quarantine :
         quarantine[i].key = k /\ quarantine[i].deadline = barred[k]

IInv ==
  /\ now \in Ticks /\ stopped \in BOOLEAN
  /\ SlotsSound /\ QueueInOrder /\ Windows /\ RecentSound /\ NotSuppressed
  /\ QuarantineSound /\ QuarantineHolds /\ CommittedWhole

-----------------------------------------------------------------------------
(* Induction over the natural numbers, from the least number principle. *)

LEMMA SetInduction ==
  ASSUME NEW T, 0 \in T, \A n \in Nat : n \in T => n + 1 \in T
  PROVE  Nat \subseteq T
<1> DEFINE R == OpToRel(<, Nat)
<1>1. IsWellFoundedOn(R, Nat)
  BY NatLessThanWellFounded
<1>2. \A m, n \in Nat : m < n => <<m, n>> \in R
  BY DEF OpToRel
<1> HIDE DEF R
<1> SUFFICES ASSUME Nat \ T # {} PROVE FALSE
  OBVIOUS
<1>3. PICK x \in Nat \ T : \A y \in Nat \ T : ~(<<y, x>> \in R)
  BY <1>1, WFMin
<1>4. x # 0 /\ x - 1 \in Nat /\ x - 1 < x
  BY <1>3
<1>5. <<x - 1, x>> \in R
  BY <1>2, <1>3, <1>4
<1>6. x - 1 \in T
  BY <1>3, <1>4, <1>5
<1> QED
  BY <1>3, <1>4, <1>6

\* N steps on S, and what they make of a base.
Steps(S, N) == [1 .. N -> [S -> S]]
Iteration(f, S, N, base, step) ==
  /\ f \in [0 .. N -> S] /\ f[0] = base
  /\ \A n \in 1 .. N : f[n] = step[n][f[n - 1]]

LEMMA Iterated ==
  ASSUME NEW S, NEW N \in Nat, NEW base \in S, NEW step \in Steps(S, N)
  PROVE  \E f : Iteration(f, S, N, base, step)
<1> USE DEF Steps
<1> DEFINE Upto(f, m) ==
             f[0] = base /\ \A n \in 1 .. m : f[n] = step[n][f[n - 1]]
           T == {m \in Nat : m <= N => \E f \in [0 .. m -> S] : Upto(f, m)}
<1>1. 0 \in T
  <2>1. [i \in 0 .. 0 |-> base] \in [0 .. 0 -> S]
        /\ Upto([i \in 0 .. 0 |-> base], 0)
    OBVIOUS
  <2> QED
    BY <2>1
<1>2. ASSUME NEW m \in Nat, m \in T
      PROVE  m + 1 \in T
  <2> SUFFICES ASSUME m + 1 <= N
               PROVE  \E f \in [0 .. m + 1 -> S] : Upto(f, m + 1)
    OBVIOUS
  <2>1. PICK f \in [0 .. m -> S] : Upto(f, m)
    BY <1>2
  <2>2. m + 1 \in 1 .. N /\ f[m] \in S /\ step[m + 1] \in [S -> S]
    OBVIOUS
  <2> DEFINE x == step[m + 1][f[m]]
             g == [i \in 0 .. m + 1 |-> IF i = m + 1 THEN x ELSE f[i]]
  <2>3. x \in S
    BY <2>2
  <2>4. g \in [0 .. m + 1 -> S]
    <3> HIDE DEF x
    <3> QED
      BY <2>3
  <2>5. g[0] = base
    BY <2>1
  <2>6. ASSUME NEW n \in 1 .. m + 1
        PROVE  g[n] = step[n][g[n - 1]]
    <3>1. CASE n = m + 1
      BY <3>1
    <3>2. CASE n # m + 1
      <4>1. n \in 1 .. m /\ n - 1 \in 0 .. m /\ n - 1 # m + 1
        BY <3>2
      <4>2. g[n] = f[n] /\ g[n - 1] = f[n - 1]
        BY <4>1
      <4> QED
        BY <2>1, <4>1, <4>2
    <3> QED
      BY <3>1, <3>2
  <2>7. Upto(g, m + 1)
    BY <2>5, <2>6
  <2> QED
    BY <2>4, <2>7
<1>3. N \in T
  <2> HIDE DEF T
  <2> QED
    BY <1>1, <1>2, SetInduction
<1> QED
  BY <1>3 DEF Iteration

LEMMA OneIteration ==
  ASSUME NEW S, NEW N \in Nat, NEW base, NEW step,
         NEW f, Iteration(f, S, N, base, step),
         NEW g, g = [n \in 0 .. N |-> g[n]], g[0] = base,
         \A n \in 1 .. N : g[n - 1] \in S => g[n] = step[n][g[n - 1]]
  PROVE  Iteration(g, S, N, base, step)
<1> DEFINE T == {n \in Nat : n <= N => g[n] = f[n]}
<1>1. /\ f \in [0 .. N -> S] /\ f[0] = base
      /\ \A n \in 1 .. N : f[n] = step[n][f[n - 1]]
  BY DEF Iteration
<1>2. 0 \in T
  BY <1>1
<1>3. ASSUME NEW n \in Nat, n \in T
      PROVE  n + 1 \in T
  <2>1. CASE n + 1 <= N
    <3>1. n + 1 \in 1 .. N /\ n \in 0 .. N /\ (n + 1) - 1 = n
      BY <2>1
    <3>2. g[n] = f[n] /\ f[n] \in S
      BY <1>1, <1>3, <2>1, <3>1
    <3>3. g[n + 1] = step[n + 1][g[n]] /\ f[n + 1] = step[n + 1][f[n]]
      BY <1>1, <3>1, <3>2
    <3> QED
      BY <3>2, <3>3
  <2> QED
    BY <2>1
<1>4. Nat \subseteq T
  <2> HIDE DEF T
  <2> QED
    BY <1>2, <1>3, SetInduction
<1>5. \A n \in 0 .. N : g[n] = f[n]
  BY <1>4
<1>6. g = f
  BY <1>1, <1>5
<1> QED
  BY <1>6

-----------------------------------------------------------------------------
(* What expiry keeps of a deque. *)

LEMMA LiveFunction ==
  ASSUME NEW E, NEW entries \in Seq(E)
  PROVE  LET f == LiveAmong(entries) IN
         /\ f \in [0 .. Len(entries) -> Seq(E)] /\ f[0] = << >>
         /\ \A n \in 1 .. Len(entries) :
              f[n] = IF DeadlineReached(entries[n].deadline) THEN f[n - 1]
                     ELSE Append(f[n - 1], entries[n])
<1> DEFINE Over(n) == DeadlineReached(entries[n].deadline)
           N == Len(entries)
           step == [n \in 1 .. N |->
                     [s \in Seq(E) |-> IF Over(n) THEN s
                                       ELSE Append(s, entries[n])]]
           Def(f) == f = [n \in 0 .. N |->
                           IF n = 0 THEN << >>
                           ELSE IF Over(n) THEN f[n - 1]
                           ELSE Append(f[n - 1], entries[n])]
<1>1. N \in Nat /\ << >> \in Seq(E) /\ \A n \in 1 .. N : entries[n] \in E
  OBVIOUS
<1>2. LiveAmong(entries) = CHOOSE f : Def(f)
  BY DEF LiveAmong
<1> HIDE DEF N, Over
<1>3. step \in [1 .. N -> [Seq(E) -> Seq(E)]]
  <2>1. \A n \in 1 .. N : \A s \in Seq(E) : Append(s, entries[n]) \in Seq(E)
    BY <1>1
  <2> QED
    BY <2>1
<1>4. \A n \in 1 .. N : \A s \in Seq(E) :
        step[n][s] = IF Over(n) THEN s ELSE Append(s, entries[n])
  OBVIOUS
<1> HIDE DEF step
<1>5. PICK f \in [0 .. N -> Seq(E)] :
        f[0] = << >> /\ \A n \in 1 .. N : f[n] = step[n][f[n - 1]]
  <2>1. step \in Steps(Seq(E), N)
    BY <1>3 DEF Steps
  <2>2. \E f : Iteration(f, Seq(E), N, << >>, step)
    BY <1>1, <2>1, Iterated
  <2> QED
    BY <2>2 DEF Iteration
<1>6. \A n \in 1 .. N : f[n] = IF Over(n) THEN f[n - 1]
                               ELSE Append(f[n - 1], entries[n])
  <2>1. \A n \in 1 .. N : n - 1 \in 0 .. N
    BY <1>1
  <2> QED
    BY <1>4, <1>5, <2>1
<1>7. Def(f)
  <2>1. \A n \in 0 .. N : n # 0 => n \in 1 .. N
    BY <1>1
  <2> QED
    BY <1>5, <1>6, <2>1
<1> DEFINE g == LiveAmong(entries)
<1>8. Def(g)
  <2> HIDE DEF Def
  <2> QED
    BY <1>2, <1>7
<1> HIDE DEF g
<1>9. /\ g = [n \in 0 .. N |-> g[n]] /\ g[0] = << >>
      /\ \A n \in 1 .. N :
           g[n] = IF Over(n) THEN g[n - 1] ELSE Append(g[n - 1], entries[n])
  <2>1. 0 \in 0 .. N /\ \A n \in 1 .. N : n \in 0 .. N /\ n # 0
    BY <1>1
  <2>2. g = [n \in 0 .. N |-> g[n]]
    <3> DEFINE X(n) == IF n = 0 THEN << >>
                       ELSE IF Over(n) THEN g[n - 1]
                       ELSE Append(g[n - 1], entries[n])
    <3>1. g = [n \in 0 .. N |-> X(n)]
      BY <1>8
    <3> HIDE DEF X
    <3> QED
      BY <3>1
  <2>3. g[0] = << >>
    BY <1>8, <2>1
  <2>4. ASSUME NEW n \in 1 .. N
        PROVE  g[n] = IF Over(n) THEN g[n - 1] ELSE Append(g[n - 1], entries[n])
    BY <1>8, <2>1
  <2> QED
    BY <2>2, <2>3, <2>4
<1>10. Iteration(g, Seq(E), N, << >>, step)
  <2>1. \A n \in 1 .. N : g[n - 1] \in Seq(E) => g[n] = step[n][g[n - 1]]
    BY <1>4, <1>9
  <2>2. Iteration(f, Seq(E), N, << >>, step)
    BY <1>5 DEF Iteration
  <2> QED
    BY <1>1, <1>9, <2>1, <2>2, OneIteration
<1>11. g \in [0 .. N -> Seq(E)]
  BY <1>10 DEF Iteration
<1> QED
  BY <1>9, <1>11 DEF N, Over, g

LEMMA LiveEntries ==
  ASSUME NEW E, NEW entries \in Seq(E)
  PROVE  LET l == LiveAmong(entries)[Len(entries)] IN
         /\ l \in Seq(E) /\ Len(l) <= Len(entries)
         /\ \A i \in DOMAIN l : /\ ~DeadlineReached(l[i].deadline)
                                /\ \E j \in DOMAIN entries : l[i] = entries[j]
         /\ \A j \in DOMAIN entries : ~DeadlineReached(entries[j].deadline) =>
              \E i \in DOMAIN l : l[i] = entries[j]
<1> DEFINE Over(n) == DeadlineReached(entries[n].deadline)
           N == Len(entries)
           f == LiveAmong(entries)
           Good(n) ==
             /\ Len(f[n]) <= n
             /\ \A i \in DOMAIN f[n] : \E j \in 1 .. n : ~Over(j) /\ f[n][i] = entries[j]
             /\ \A j \in 1 .. n : ~Over(j) => \E i \in DOMAIN f[n] : f[n][i] = entries[j]
           T == {n \in Nat : n <= N => Good(n)}
<1>1. N \in Nat /\ DOMAIN entries = 1 .. N /\ \A n \in 1 .. N : entries[n] \in E
  OBVIOUS
<1>2. /\ f \in [0 .. N -> Seq(E)] /\ f[0] = << >>
      /\ \A n \in 1 .. N :
           f[n] = IF Over(n) THEN f[n - 1] ELSE Append(f[n - 1], entries[n])
  BY LiveFunction
<1> HIDE DEF f, N, Over
<1>3. 0 \in T
  BY <1>2
<1>4. ASSUME NEW n \in Nat, n \in T
      PROVE  n + 1 \in T
  <2> SUFFICES ASSUME n + 1 <= N PROVE Good(n + 1)
    OBVIOUS
  <2>1. /\ n + 1 \in 1 .. N /\ n \in 0 .. N /\ (n + 1) - 1 = n /\ Good(n)
        /\ f[n] \in Seq(E) /\ entries[n + 1] \in E
        /\ \A j \in 1 .. n + 1 : j \in 1 .. n \/ j = n + 1
        /\ \A j \in 1 .. n : j \in 1 .. n + 1
    <3>1. n + 1 \in 1 .. N /\ n \in 0 .. N /\ (n + 1) - 1 = n
      BY <1>1
    <3>2. Good(n)
      BY <1>1, <1>4
    <3>3. f[n] \in Seq(E) /\ entries[n + 1] \in E
      BY <1>1, <1>2, <3>1
    <3>4. /\ \A j \in 1 .. n + 1 : j \in 1 .. n \/ j = n + 1
          /\ \A j \in 1 .. n : j \in 1 .. n + 1
      OBVIOUS
    <3> HIDE DEF Good
    <3> QED
      BY <3>1, <3>2, <3>3, <3>4
  <2>2. f[n + 1] = IF Over(n + 1) THEN f[n] ELSE Append(f[n], entries[n + 1])
    BY <1>2, <2>1
  <2>3. CASE Over(n + 1)
    <3>1. f[n + 1] = f[n]
      BY <2>2, <2>3
    <3>2. Len(f[n + 1]) <= n + 1
      BY <2>1, <3>1
    <3> QED
      BY <2>1, <2>3, <3>1, <3>2
  <2>4. CASE ~Over(n + 1)
    <3> DEFINE s == f[n]
               e == entries[n + 1]
    <3>1. f[n + 1] = Append(s, e) /\ s \in Seq(E) /\ e \in E
      BY <2>1, <2>2, <2>4
    <3> HIDE DEF s, e
    <3>2. /\ Len(Append(s, e)) = Len(s) + 1
          /\ DOMAIN Append(s, e) = 1 .. Len(s) + 1 /\ DOMAIN s = 1 .. Len(s)
          /\ Append(s, e)[Len(s) + 1] = e
          /\ \A i \in 1 .. Len(s) : Append(s, e)[i] = s[i]
          /\ Len(s) \in Nat
          /\ \A i \in 1 .. Len(s) + 1 : i \in 1 .. Len(s) \/ i = Len(s) + 1
          /\ \A i \in 1 .. Len(s) : i \in 1 .. Len(s) + 1
          /\ Len(s) + 1 \in 1 .. Len(s) + 1
      BY <3>1
    <3>3. /\ Len(s) <= n
          /\ \A i \in 1 .. Len(s) : \E j \in 1 .. n : ~Over(j) /\ s[i] = entries[j]
          /\ \A j \in 1 .. n : ~Over(j) => \E i \in 1 .. Len(s) : s[i] = entries[j]
      BY <2>1, <3>2 DEF s
    <3>4. n + 1 \in 1 .. n + 1 /\ ~Over(n + 1) /\ e = entries[n + 1]
      BY <2>1, <2>4 DEF e
    <3>5. Len(f[n + 1]) <= n + 1
      BY <3>1, <3>2, <3>3
    <3>6. \A i \in DOMAIN f[n + 1] : \E j \in 1 .. n + 1 :
             ~Over(j) /\ f[n + 1][i] = entries[j]
      <4> SUFFICES ASSUME NEW i \in 1 .. Len(s) + 1
                   PROVE  \E j \in 1 .. n + 1 :
                            ~Over(j) /\ Append(s, e)[i] = entries[j]
        BY <3>1, <3>2
      <4>1. CASE i \in 1 .. Len(s)
        BY <2>1, <3>2, <3>3, <4>1
      <4>2. CASE i = Len(s) + 1
        BY <3>2, <3>4, <4>2
      <4> QED
        BY <3>2, <4>1, <4>2
    <3>7. \A j \in 1 .. n + 1 : ~Over(j) =>
             \E i \in DOMAIN f[n + 1] : f[n + 1][i] = entries[j]
      <4> SUFFICES ASSUME NEW j \in 1 .. n + 1, ~Over(j)
                   PROVE  \E i \in 1 .. Len(s) + 1 : Append(s, e)[i] = entries[j]
        BY <3>1, <3>2
      <4>1. CASE j \in 1 .. n
        BY <3>2, <3>3, <4>1
      <4>2. CASE j = n + 1
        BY <3>2, <3>4, <4>2
      <4> QED
        BY <2>1, <4>1, <4>2
    <3> QED
      BY <3>5, <3>6, <3>7
  <2> QED
    BY <2>3, <2>4
<1>5. Nat \subseteq T
  <2> HIDE DEF T
  <2> QED
    BY <1>3, <1>4, SetInduction
<1>6. Good(N) /\ f[N] \in Seq(E)
  BY <1>1, <1>2, <1>5
<1> QED
  BY <1>1, <1>6 DEF N, Over, f

-----------------------------------------------------------------------------
(* What is retained of a post. *)

LEMMA DeadlineIsTick ==
  ASSUME NEW a \in Ticks, NEW b \in Ticks
  PROVE  SaturatingDeadline(a, b) \in Ticks
<1>1. MaxTick \in Nat
  BY IngressAssumption
<1> QED
  BY <1>1 DEF Ticks, SaturatingDeadline

\* The new entry, and what the deque drops for it.
LEMMA Pushed ==
  ASSUME NEW E, NEW s \in Seq(E), NEW e \in E, NEW c \in Nat \ {0}, Len(s) <= c
  PROVE  LET p == PushBounded(s, e, c) IN
         /\ p \in Seq(E) /\ Len(p) <= c
         /\ p[Len(p)] = e /\ Len(p) \in DOMAIN p
         /\ \A i \in DOMAIN p : p[i] = e \/ \E j \in DOMAIN s : p[i] = s[j]
         /\ \A j \in DOMAIN s : Len(s) < c \/ j # 1 =>
              \E i \in DOMAIN p : p[i] = s[j]
<1> DEFINE u == IF Len(s) >= c THEN Tail(s) ELSE s
           p == Append(u, e)
<1>1. Len(s) \in Nat /\ DOMAIN s = 1 .. Len(s)
  OBVIOUS
<1>2. /\ u \in Seq(E) /\ Len(u) + 1 <= c
      /\ \A i \in DOMAIN u : \E j \in DOMAIN s : u[i] = s[j]
      /\ \A j \in DOMAIN s : Len(s) < c \/ j # 1 =>
           \E i \in DOMAIN u : u[i] = s[j]
  <2>1. CASE Len(s) >= c
    <3>1. u = Tail(s) /\ s # << >>
      BY <2>1
    <3>2. /\ Tail(s) \in Seq(E) /\ Len(Tail(s)) = Len(s) - 1
          /\ DOMAIN Tail(s) = 1 .. Len(s) - 1
          /\ \A i \in 1 .. Len(s) - 1 : Tail(s)[i] = s[i + 1]
      BY <3>1
    <3> HIDE DEF u
    <3>3. \A i \in 1 .. Len(s) - 1 : i + 1 \in 1 .. Len(s)
      BY <1>1
    <3>4. \A j \in 1 .. Len(s) : j # 1 =>
            j - 1 \in 1 .. Len(s) - 1 /\ (j - 1) + 1 = j
      BY <1>1
    <3>5. Len(u) + 1 <= c
      BY <1>1, <3>1, <3>2
    <3>6. \A j \in 1 .. Len(s) : j # 1 => Tail(s)[j - 1] = s[j]
      BY <3>2, <3>4
    <3>7. \A i \in DOMAIN u : \E j \in DOMAIN s : u[i] = s[j]
      BY <1>1, <3>1, <3>2, <3>3
    <3>8. \A j \in DOMAIN s : j # 1 => \E i \in DOMAIN u : u[i] = s[j]
      BY <1>1, <3>1, <3>2, <3>4, <3>6
    <3>9. ~(Len(s) < c) /\ u \in Seq(E)
      BY <1>1, <2>1, <3>1, <3>2
    <3> QED
      BY <3>5, <3>7, <3>8, <3>9
  <2>2. CASE ~(Len(s) >= c)
    BY <1>1, <2>2
  <2> QED
    BY <2>1, <2>2
<1> HIDE DEF u
<1>3. /\ p \in Seq(E) /\ Len(p) = Len(u) + 1 /\ Len(u) \in Nat
      /\ DOMAIN p = 1 .. Len(u) + 1 /\ DOMAIN u = 1 .. Len(u)
      /\ p[Len(u) + 1] = e
      /\ \A i \in 1 .. Len(u) : p[i] = u[i]
      /\ \A i \in 1 .. Len(u) + 1 : i \in 1 .. Len(u) \/ i = Len(u) + 1
      /\ \A i \in 1 .. Len(u) : i \in 1 .. Len(u) + 1
      /\ Len(u) + 1 \in 1 .. Len(u) + 1
  BY <1>2
<1>4. PushBounded(s, e, c) = p
  BY DEF PushBounded, u
<1> HIDE DEF p
<1>5. \A i \in DOMAIN p : p[i] = e \/ \E j \in DOMAIN s : p[i] = s[j]
  BY <1>2, <1>3
<1>6. \A j \in DOMAIN s : Len(s) < c \/ j # 1 => \E i \in DOMAIN p : p[i] = s[j]
  <2> SUFFICES ASSUME NEW j \in DOMAIN s, Len(s) < c \/ j # 1
               PROVE  \E i \in DOMAIN p : p[i] = s[j]
    OBVIOUS
  <2>1. PICK i \in DOMAIN u : u[i] = s[j]
    BY <1>2
  <2> QED
    BY <1>3, <2>1
<1>7. Len(p) <= c /\ p[Len(p)] = e /\ Len(p) \in DOMAIN p
  BY <1>2, <1>3
<1> QED
  BY <1>3, <1>4, <1>5, <1>6, <1>7

\* mark_committed adds entries of the frames it is given, and of no others.
LEMMA RetainedEntries ==
  ASSUME now \in Ticks, NEW frames \in Seq(Frames), NEW A, A \subseteq Frames,
         \A j \in DOMAIN frames : frames[j] \in A,
         NEW entries \in Seq(Recent), Len(entries) <= RecentCapacity,
         \A j \in DOMAIN entries : entries[j].frame \in A
  PROVE  LET l == RetainAll(entries, frames)[Len(frames)] IN
         /\ l \in Seq(Recent) /\ Len(l) <= RecentCapacity
         /\ \A i \in DOMAIN l : l[i].frame \in A
<1> DEFINE N == Len(frames)
           S == {s \in Seq(Recent) : /\ Len(s) <= RecentCapacity
                                     /\ \A i \in DOMAIN s : s[i].frame \in A}
           step == [n \in 1 .. N |-> [s \in S |-> Retain(s, frames[n])]]
           Def(f) == f = [n \in 0 .. N |->
                           IF n = 0 THEN entries
                           ELSE Retain(f[n - 1], frames[n])]
<1>1. N \in Nat /\ DOMAIN frames = 1 .. N /\ entries \in S
  OBVIOUS
<1>2. RetainAll(entries, frames) = CHOOSE f : Def(f)
  BY DEF RetainAll
<1>3. ASSUME NEW s \in S, NEW frame \in A
      PROVE  Retain(s, frame) \in S
  <2> DEFINE e == [frame |-> frame, deadline |-> SaturatingDeadline(now, Timeout)]
  <2>1. CASE Retain(s, frame) = s
    BY <2>1
  <2>2. CASE Retain(s, frame) = PushBounded(s, e, RecentCapacity)
    <3>1. SaturatingDeadline(now, Timeout) \in Ticks
      <4>1. Timeout \in Ticks
        BY IngressAssumption
      <4> QED
        BY <4>1, DeadlineIsTick
    <3>2. e \in Recent /\ e.frame = frame
      BY <1>3, <3>1 DEF Recent
    <3>3. RecentCapacity \in Nat \ {0}
      BY IngressAssumption
    <3> HIDE DEF e
    <3> DEFINE q == PushBounded(s, e, RecentCapacity)
    <3>4. /\ q \in Seq(Recent) /\ Len(q) <= RecentCapacity
          /\ \A i \in DOMAIN q : q[i] = e \/ \E j \in DOMAIN s : q[i] = s[j]
      BY <3>2, <3>3, Pushed
    <3> HIDE DEF q
    <3>5. \A i \in DOMAIN q : q[i].frame \in A
      BY <3>2, <3>4
    <3> QED
      BY <2>2, <3>4, <3>5 DEF q
  <2> QED
    BY <2>1, <2>2 DEF Retain
<1> HIDE DEF N, S
<1>4. step \in Steps(S, N) /\ \A n \in 1 .. N : \A s \in S :
        step[n][s] = Retain(s, frames[n])
  BY <1>1, <1>3 DEF Steps
<1> HIDE DEF step
<1>5. PICK f : Iteration(f, S, N, entries, step)
  BY <1>1, <1>4, Iterated
<1>6. Def(f)
  <2>1. /\ f \in [0 .. N -> S] /\ f[0] = entries
        /\ \A n \in 1 .. N : f[n] = step[n][f[n - 1]]
    BY <1>5 DEF Iteration
  <2>2. \A n \in 0 .. N : n # 0 => n \in 1 .. N /\ n - 1 \in 0 .. N
    BY <1>1
  <2>3. \A n \in 1 .. N : f[n] = Retain(f[n - 1], frames[n])
    <3>1. \A n \in 1 .. N : n - 1 \in 0 .. N
      BY <1>1
    <3> QED
      BY <1>4, <2>1, <3>1
  <2> QED
    BY <2>1, <2>2, <2>3
<1> DEFINE g == RetainAll(entries, frames)
<1>7. Def(g)
  <2> HIDE DEF Def
  <2> QED
    BY <1>2, <1>6
<1> HIDE DEF g
<1>8. Iteration(g, S, N, entries, step)
  <2>1. /\ g = [n \in 0 .. N |-> g[n]] /\ g[0] = entries
        /\ \A n \in 1 .. N : g[n] = Retain(g[n - 1], frames[n])
    <3>1. 0 \in 0 .. N /\ \A n \in 1 .. N : n \in 0 .. N /\ n # 0
      BY <1>1
    <3>2. g = [n \in 0 .. N |-> g[n]]
      <4> DEFINE X(n) == IF n = 0 THEN entries ELSE Retain(g[n - 1], frames[n])
      <4>1. g = [n \in 0 .. N |-> X(n)]
        BY <1>7
      <4> HIDE DEF X
      <4> QED
        BY <4>1
    <3>3. g[0] = entries
      BY <1>7, <3>1
    <3>4. ASSUME NEW n \in 1 .. N
          PROVE  g[n] = Retain(g[n - 1], frames[n])
      BY <1>7, <3>1
    <3> QED
      BY <3>2, <3>3, <3>4
  <2>2. \A n \in 1 .. N : g[n - 1] \in S => g[n] = step[n][g[n - 1]]
    BY <1>4, <2>1
  <2> QED
    BY <1>1, <1>5, <2>1, <2>2, OneIteration
<1>9. g[N] \in S
  BY <1>1, <1>8 DEF Iteration
<1> QED
  BY <1>9 DEF g, N, S
-----------------------------------------------------------------------------
(* Frames, and the order of the deadlines. *)

LEMMA FrameFacts ==
  /\ \A f \in Frames : f.post \in Posts /\ f.index \in 0 .. Count[f.post] - 1
  /\ \A f, g \in Frames : f.post = g.post /\ f.index = g.index => f = g
  /\ \A p \in Posts : \A i \in 0 .. Count[p] - 1 :
       [post |-> p, index |-> i] \in Frames
<1>1. \A f \in Frames : \E p \in Posts : f \in [post : {p}, index : 0 .. Count[p] - 1]
  BY DEF Frames
<1>2. ASSUME NEW f \in Frames
      PROVE  /\ f.post \in Posts /\ f.index \in 0 .. Count[f.post] - 1
             /\ f = [post |-> f.post, index |-> f.index]
  <2>1. PICK p \in Posts : f \in [post : {p}, index : 0 .. Count[p] - 1]
    BY <1>1
  <2>2. f.post = p /\ f.index \in 0 .. Count[p] - 1
        /\ f = [post |-> f.post, index |-> f.index]
    BY <2>1
  <2> QED
    BY <2>2
<1>3. ASSUME NEW p \in Posts, NEW i \in 0 .. Count[p] - 1
      PROVE  [post |-> p, index |-> i] \in Frames
  <2>1. [post |-> p, index |-> i] \in [post : {p}, index : 0 .. Count[p] - 1]
    OBVIOUS
  <2> QED
    BY <2>1 DEF Frames
<1>4. \A f, g \in Frames : f.post = g.post /\ f.index = g.index => f = g
  BY <1>2
<1> QED
  BY <1>2, <1>3, <1>4

LEMMA DeadlineOrder ==
  ASSUME NEW a \in Ticks, NEW b \in Ticks, a <= b
  PROVE  /\ SaturatingDeadline(a, Timeout) <= SaturatingDeadline(b, Timeout)
         /\ a < SaturatingDeadline(a, Timeout)
            \/ SaturatingDeadline(a, Timeout) = MaxTick
         /\ SaturatingDeadline(a, Timeout) \in Ticks
<1>1. MaxTick \in Nat /\ Timeout \in 0 .. MaxTick /\ Timeout # 0
  BY IngressAssumption DEF Ticks
<1> QED
  BY <1>1 DEF Ticks, SaturatingDeadline

-----------------------------------------------------------------------------
(* A step, conjunct by conjunct. *)

\* process_next takes at most the head of the queue, at an unchanged clock.
TakesOne ==
  /\ now' = now /\ stopped' \in BOOLEAN
  /\ queue' = queue \/ (queue # << >> /\ queue' = Tail(queue))

LEMMA QueueTaken ==
  ASSUME QueueInOrder, TakesOne
  PROVE  /\ QueueInOrder'
         /\ \A i \in DOMAIN queue' : \E j \in DOMAIN queue : queue'[i] = queue[j]
<1>1. CASE queue' = queue
  BY <1>1 DEF QueueInOrder, TakesOne
<1>2. CASE queue # << >> /\ queue' = Tail(queue)
  <2>1. /\ queue \in Seq(Received) /\ Len(queue) <= QueueCapacity /\ now' = now
        /\ QueueCapacity \in Nat /\ Len(queue) \in Nat /\ Len(queue) > 0
        /\ DOMAIN queue = 1 .. Len(queue)
    BY <1>2, IngressAssumption DEF QueueInOrder, TakesOne
  <2>2. /\ queue' \in Seq(Received) /\ Len(queue') = Len(queue) - 1
        /\ DOMAIN queue' = 1 .. Len(queue) - 1
        /\ \A i \in 1 .. Len(queue) - 1 : queue'[i] = queue[i + 1]
    BY <1>2, <2>1
  <2>3. \A i \in 1 .. Len(queue) - 1 : i \in Int /\ i + 1 \in 1 .. Len(queue)
    BY <2>1
  <2>4. /\ \A i \in DOMAIN queue : queue[i].tick <= now
        /\ \A i, j \in DOMAIN queue : i <= j => queue[i].tick <= queue[j].tick
    BY DEF QueueInOrder
  <2>5. \A i \in DOMAIN queue' : queue'[i].tick <= now'
    BY <2>1, <2>2, <2>3, <2>4
  <2>6. ASSUME NEW i \in DOMAIN queue', NEW j \in DOMAIN queue', i <= j
        PROVE  queue'[i].tick <= queue'[j].tick
    <3>1. i + 1 \in DOMAIN queue /\ j + 1 \in DOMAIN queue /\ i + 1 <= j + 1
      BY <2>1, <2>2, <2>3, <2>6
    <3> QED
      BY <2>2, <2>4, <3>1
  <2>7. Len(queue') <= QueueCapacity
    BY <2>1, <2>2
  <2>8. \A i \in DOMAIN queue' : \E j \in DOMAIN queue : queue'[i] = queue[j]
    BY <2>1, <2>2, <2>3
  <2> QED
    BY <2>2, <2>5, <2>6, <2>7, <2>8 DEF QueueInOrder
<1> QED
  BY <1>1, <1>2 DEF TakesOne

LEMMA FewerSlots ==
  ASSUME SlotsSound, NEW S, S \subseteq slots
  PROVE  /\ IsFiniteSet(S) /\ Cardinality(S) \in Nat
         /\ Cardinality(S) <= Cardinality(slots) /\ Cardinality(S) <= SlotCapacity
<1>1. IsFiniteSet(slots) /\ Cardinality(slots) <= SlotCapacity
  BY DEF SlotsSound
<1>2. IsFiniteSet(S) /\ Cardinality(S) <= Cardinality(slots)
  BY <1>1, FS_Subset
<1>3. Cardinality(S) \in Nat /\ Cardinality(slots) \in Nat
  BY <1>1, <1>2, FS_CardinalityType
<1>4. SlotCapacity \in Nat
  BY IngressAssumption
<1> QED
  BY <1>1, <1>2, <1>3, <1>4

LEMMA SlotsShrink ==
  ASSUME SlotsSound, slots' \subseteq slots
  PROVE  SlotsSound'
<1>1. PICK S : S = slots'
  OBVIOUS
<1>2. IsFiniteSet(slots') /\ Cardinality(slots') <= SlotCapacity
  BY <1>1, FewerSlots
<1> QED
  BY <1>2 DEF SlotsSound, Sound

LEMMA WindowsShrink ==
  ASSUME Windows, QueueInOrder, TakesOne, slots' \subseteq slots
  PROVE  Windows'
<1>1. /\ now' = now
      /\ \A i \in DOMAIN queue' : \E j \in DOMAIN queue : queue'[i] = queue[j]
  BY QueueTaken DEF TakesOne
<1>2. ASSUME NEW s \in slots'
      PROVE  /\ Window(s)'
             /\ \A i \in DOMAIN queue' :
                  s.deadline <= SaturatingDeadline(queue'[i].tick, Timeout)
  <2>1. Window(s) /\ \A i \in DOMAIN queue :
                       s.deadline <= SaturatingDeadline(queue[i].tick, Timeout)
    BY DEF Windows
  <2>2. Window(s)'
    BY <1>1, <2>1 DEF Window
  <2>3. \A i \in DOMAIN queue' :
          s.deadline <= SaturatingDeadline(queue'[i].tick, Timeout)
    BY <1>1, <2>1
  <2> QED
    BY <2>2, <2>3
<1> QED
  BY <1>2 DEF Windows, SaturatingDeadline

\* Every entry of recent_ was there before, for the same frame.
RecentWithin ==
  /\ recent' \in Seq(Recent) /\ Len(recent') <= RecentCapacity
  /\ \A i \in DOMAIN recent' : \E j \in DOMAIN recent :
       recent'[i].frame = recent[j].frame

LEMMA RecentShrinks ==
  ASSUME RecentSound, RecentWithin, stored \subseteq stored'
  PROVE  RecentSound'
<1>1. ASSUME NEW i \in DOMAIN recent'
      PROVE  OfStored(recent[i].frame)'
  <2>1. PICK j \in DOMAIN recent : recent'[i].frame = recent[j].frame
    BY DEF RecentWithin
  <2>2. OfStored(recent[j].frame)
    BY DEF RecentSound
  <2> QED
    BY <2>1, <2>2 DEF OfStored
<1> QED
  BY <1>1 DEF RecentSound, RecentWithin

LEMMA StillNotSuppressed ==
  ASSUME NotSuppressed, RecentWithin, slots' \subseteq slots
  PROVE  NotSuppressed'
<1> SUFFICES ASSUME NEW s \in slots', NEW j \in DOMAIN s.parts,
                    NEW i \in DOMAIN recent'
             PROVE  ~(recent'[i].frame.post = s.parts[j]
                      /\ recent'[i].frame.index = j)
  BY DEF NotSuppressed
<1>1. PICK k \in DOMAIN recent : recent'[i].frame = recent[k].frame
  BY DEF RecentWithin
<1> QED
  BY <1>1 DEF NotSuppressed

LEMMA RecentExpires ==
  ASSUME RecentSound
  PROVE  /\ LiveRecent \in Seq(Recent) /\ Len(LiveRecent) <= RecentCapacity
         /\ \A i \in DOMAIN LiveRecent : \E j \in DOMAIN recent :
              LiveRecent[i] = recent[j]
<1>1. /\ recent \in Seq(Recent) /\ Len(recent) <= RecentCapacity
      /\ RecentCapacity \in Nat
  BY IngressAssumption DEF RecentSound
<1>2. /\ LiveRecent \in Seq(Recent) /\ Len(LiveRecent) <= Len(recent)
      /\ \A i \in DOMAIN LiveRecent : \E j \in DOMAIN recent :
           LiveRecent[i] = recent[j]
  BY <1>1, LiveEntries DEF LiveRecent
<1>3. Len(recent) \in Nat /\ Len(LiveRecent) \in Nat
  BY <1>1, <1>2
<1> QED
  BY <1>1, <1>2, <1>3

LEMMA QuarantineLives ==
  ASSUME QuarantineSound, now \in Ticks
  PROVE  /\ LiveQuarantine \in Seq(Barring)
         /\ Len(LiveQuarantine) <= QuarantineCapacity
         /\ \A k \in UsedKeys : barred[k] > now =>
              \E i \in DOMAIN LiveQuarantine :
                LiveQuarantine[i].key = k /\ LiveQuarantine[i].deadline = barred[k]
<1>1. /\ quarantine \in Seq(Barring) /\ Len(quarantine) <= QuarantineCapacity
      /\ QuarantineCapacity \in Nat /\ barred \in [UsedKeys -> Ticks]
  BY IngressAssumption DEF QuarantineSound
<1>2. /\ LiveQuarantine \in Seq(Barring) /\ Len(LiveQuarantine) <= Len(quarantine)
      /\ \A j \in DOMAIN quarantine : ~DeadlineReached(quarantine[j].deadline) =>
           \E i \in DOMAIN LiveQuarantine : LiveQuarantine[i] = quarantine[j]
  BY <1>1, LiveEntries DEF LiveQuarantine
<1>3. Len(quarantine) \in Nat /\ Len(LiveQuarantine) \in Nat
  BY <1>1, <1>2
<1>4. ASSUME NEW k \in UsedKeys, barred[k] > now
      PROVE  \E i \in DOMAIN LiveQuarantine :
               LiveQuarantine[i].key = k /\ LiveQuarantine[i].deadline = barred[k]
  <2>1. PICK j \in DOMAIN quarantine :
          quarantine[j].key = k /\ quarantine[j].deadline = barred[k]
    BY <1>4 DEF QuarantineSound
  <2>2. ~DeadlineReached(quarantine[j].deadline)
    <3>1. barred[k] \in Int /\ now \in Int
      BY <1>1, IngressAssumption DEF Ticks
    <3> QED
      BY <1>4, <2>1, <3>1 DEF DeadlineReached
  <2> QED
    BY <1>2, <2>1, <2>2
<1> QED
  BY <1>1, <1>2, <1>3, <1>4

LEMMA QuarantineExpires ==
  ASSUME QuarantineSound, now \in Ticks, quarantine' = LiveQuarantine,
         barred' = barred, now' = now
  PROVE  QuarantineSound'
<1>1. barred \in [UsedKeys -> Ticks]
  BY DEF QuarantineSound
<1> QED
  BY <1>1, QuarantineLives DEF QuarantineSound
\* What a call that frees slots and forgets entries, and no more, keeps.
LEMMA Shrinks ==
  ASSUME IInv, TakesOne, slots' \subseteq slots, RecentWithin,
         quarantine' = LiveQuarantine, barred' = barred, stored' = stored
  PROVE  IInv'
<1> USE DEF IInv
<1>1. QueueInOrder'
  BY QueueTaken
<1>2. SlotsSound'
  BY SlotsShrink
<1>3. Windows'
  BY WindowsShrink
<1>4. RecentSound'
  BY RecentShrinks
<1>5. NotSuppressed'
  BY StillNotSuppressed
<1>6. now' = now
  BY DEF TakesOne
<1>7. QuarantineSound'
  BY <1>6, QuarantineExpires
<1>8. QuarantineHolds'
  BY <1>6 DEF QuarantineHolds
<1>9. CommittedWhole'
  BY DEF CommittedWhole
<1>10. now' \in Ticks /\ stopped' \in BOOLEAN
  BY <1>6 DEF TakesOne
<1> HIDE DEF IInv
<1> QED
  BY <1>1, <1>2, <1>3, <1>4, <1>5, <1>7, <1>8, <1>9, <1>10 DEF IInv

LEMMA TakeTakesOne ==
  ASSUME IInv, Take
  PROVE  TakesOne
BY DEF IInv, Take, TakesOne

LEMMA LiveWithin ==
  ASSUME IInv, recent' = LiveRecent \/ recent' = recent
  PROVE  RecentWithin
<1>1. RecentSound
  BY DEF IInv
<1>2. CASE recent' = recent
  BY <1>1, <1>2 DEF RecentWithin, RecentSound
<1>3. CASE recent' = LiveRecent
  BY <1>1, <1>3, RecentExpires DEF RecentWithin
<1> QED
  BY <1>2, <1>3

LEMMA DiscardKeeps ==
  ASSUME IInv, Take, Discard
  PROVE  IInv'
<1>1. slots' \subseteq slots /\ recent' = LiveRecent
      /\ quarantine' = LiveQuarantine /\ barred' = barred /\ stored' = stored
  BY DEF Discard, Expire, LiveSlots
<1> QED
  BY <1>1, TakeTakesOne, LiveWithin, Shrinks

LEMMA EmptyKeeps ==
  ASSUME IInv, ProcessEmpty
  PROVE  IInv'
<1>1. slots' \subseteq slots /\ recent' = recent
      /\ quarantine' = LiveQuarantine /\ barred' = barred /\ stored' = stored
  BY DEF ProcessEmpty, Expire, LiveSlots
<1>2. TakesOne
  BY DEF IInv, ProcessEmpty, TakesOne
<1> QED
  BY <1>1, <1>2, LiveWithin, Shrinks

LEMMA StaleKeeps ==
  ASSUME IInv, ProcessStale
  PROVE  IInv'
<1>1. slots' \subseteq slots /\ recent' = recent /\ Take
      /\ quarantine' = LiveQuarantine /\ barred' = barred /\ stored' = stored
  BY DEF ProcessStale, Expire, LiveSlots
<1> QED
  BY <1>1, TakeTakesOne, LiveWithin, Shrinks

\* A hit moves to the back; nothing is added or lost.
ToBack(s, i) == Append(RemoveAt(s, i), s[i])

LEMMA Moved ==
  ASSUME NEW E, NEW s \in Seq(E), NEW i \in 1 .. Len(s)
  PROVE  /\ ToBack(s, i) \in Seq(E) /\ Len(ToBack(s, i)) = Len(s)
         /\ \A k \in DOMAIN ToBack(s, i) :
              \E j \in DOMAIN s : ToBack(s, i)[k] = s[j]
<1> DEFINE a == SubSeq(s, 1, i - 1)
           b == SubSeq(s, i + 1, Len(s))
           r == a \o b
           m == Append(r, s[i])
<1>1. /\ Len(s) \in Nat /\ DOMAIN s = 1 .. Len(s) /\ s[i] \in E /\ i \in Nat
      /\ \A k \in 1 .. Len(s) : s[k] \in E
  OBVIOUS
<1>2. /\ a \in Seq(E) /\ Len(a) = i - 1
      /\ \A k \in 1 .. i - 1 : a[k] = s[k] /\ k \in 1 .. Len(s)
  <2>1. \A k \in 1 .. i - 1 : s[k] \in E /\ k \in 1 .. Len(s)
    BY <1>1
  <2>2. /\ a \in Seq(E) /\ Len(a) = IF 1 <= i - 1 THEN (i - 1) - 1 + 1 ELSE 0
        /\ \A k \in 1 .. (i - 1) - 1 + 1 : a[k] = s[1 + k - 1]
    BY <1>1, <2>1, SubSeqProperties
  <2> HIDE DEF a
  <2>3. Len(a) = i - 1
    BY <1>1, <2>2
  <2>4. \A k \in 1 .. i - 1 : a[k] = s[k]
    BY <1>1, <2>2
  <2> QED
    BY <2>1, <2>2, <2>3, <2>4
<1>3. /\ b \in Seq(E) /\ Len(b) = Len(s) - i
      /\ \A k \in 1 .. Len(s) - i : b[k] = s[i + k] /\ i + k \in 1 .. Len(s)
  <2>1. /\ \A k \in i + 1 .. Len(s) : s[k] \in E
        /\ \A k \in 1 .. Len(s) - i : i + k \in 1 .. Len(s)
    BY <1>1
  <2>2. /\ b \in Seq(E)
        /\ Len(b) = IF i + 1 <= Len(s) THEN Len(s) - (i + 1) + 1 ELSE 0
        /\ \A k \in 1 .. Len(s) - (i + 1) + 1 : b[k] = s[(i + 1) + k - 1]
    BY <1>1, <2>1, SubSeqProperties
  <2> HIDE DEF b
  <2>3. Len(b) = Len(s) - i
    <3>1. CASE i + 1 <= Len(s)
      BY <1>1, <2>2, <3>1
    <3>2. CASE ~(i + 1 <= Len(s))
      <4>1. Len(s) - i = 0
        <5>1. PICK n \in Nat : n = Len(s)
          BY <1>1
        <5>2. i \in 1 .. n /\ ~(i + 1 <= n)
          BY <3>2, <5>1
        <5>3. n - i = 0
          BY <5>2
        <5> QED
          BY <5>1, <5>3
      <4> QED
        BY <2>2, <3>2, <4>1
    <3> QED
      BY <3>1, <3>2
  <2>4. \A k \in 1 .. Len(s) - i : b[k] = s[i + k]
    <3>1. \A k \in 1 .. Len(s) - i :
            k \in 1 .. Len(s) - (i + 1) + 1 /\ (i + 1) + k - 1 = i + k
      BY <1>1
    <3> QED
      BY <2>2, <3>1
  <2> QED
    BY <2>1, <2>2, <2>3, <2>4
<1> HIDE DEF a, b
<1>4. /\ r \in Seq(E) /\ Len(r) = Len(s) - 1
      /\ \A k \in 1 .. Len(s) - 1 : \E j \in DOMAIN s : r[k] = s[j]
  <2>1. /\ r \in Seq(E) /\ Len(r) = Len(a) + Len(b)
        /\ \A k \in 1 .. Len(a) + Len(b) :
             r[k] = IF k <= Len(a) THEN a[k] ELSE b[k - Len(a)]
    BY <1>2, <1>3, ConcatProperties
  <2> HIDE DEF r
  <2>2. Len(r) = Len(s) - 1
    BY <1>1, <1>2, <1>3, <2>1
  <2>3. ASSUME NEW k \in 1 .. Len(s) - 1
        PROVE  \E j \in DOMAIN s : r[k] = s[j]
    <3>0. k \in 1 .. Len(a) + Len(b)
      BY <1>1, <1>2, <1>3
    <3>1. CASE k <= Len(a)
      <4>1. k \in 1 .. i - 1 /\ r[k] = a[k]
        BY <1>1, <1>2, <2>1, <3>0, <3>1
      <4> QED
        BY <1>1, <1>2, <4>1
    <3>2. CASE ~(k <= Len(a))
      <4>1. k - (i - 1) \in 1 .. Len(s) - i /\ r[k] = b[k - (i - 1)]
        BY <1>1, <1>2, <2>1, <3>0, <3>2
      <4> QED
        BY <1>1, <1>3, <4>1
    <3> QED
      BY <3>1, <3>2
  <2> QED
    BY <2>1, <2>2, <2>3
<1>5. ToBack(s, i) = m
  BY DEF ToBack, RemoveAt, a, b
<1> HIDE DEF r
<1>6. /\ m \in Seq(E) /\ Len(m) = Len(s) /\ DOMAIN m = 1 .. Len(s)
      /\ \A k \in 1 .. Len(s) - 1 : m[k] = r[k]
      /\ m[Len(s)] = s[i]
  <2>1. /\ m \in Seq(E) /\ Len(m) = Len(r) + 1
        /\ \A k \in 1 .. Len(r) : m[k] = r[k]
        /\ m[Len(r) + 1] = s[i]
    <3>1. PICK x \in E : x = s[i]
      BY <1>1
    <3>2. Append(r, x) \in Seq(E) /\ Len(Append(r, x)) = Len(r) + 1
          /\ (\A k \in 1 .. Len(r) : Append(r, x)[k] = r[k])
          /\ Append(r, x)[Len(r) + 1] = x
      BY <1>4
    <3>3. m = Append(r, x)
      BY <3>1
    <3> HIDE DEF m
    <3> QED
      BY <3>1, <3>2, <3>3
  <2> HIDE DEF m
  <2>2. Len(r) = Len(s) - 1 /\ Len(r) + 1 = Len(s)
    BY <1>1, <1>4
  <2> QED
    BY <2>1, <2>2
<1> HIDE DEF m
<1>7. ASSUME NEW k \in DOMAIN m
      PROVE  \E j \in DOMAIN s : m[k] = s[j]
  <2>1. k = Len(s) \/ k \in 1 .. Len(s) - 1
    BY <1>1, <1>6
  <2> QED
    BY <1>1, <1>4, <1>6, <2>1
<1> QED
  BY <1>5, <1>6, <1>7

LEMMA RecentDuplicateKeeps ==
  ASSUME IInv, ProcessRecentDuplicate
  PROVE  IInv'
<1>1. slots' \subseteq slots /\ Take
      /\ quarantine' = LiveQuarantine /\ barred' = barred /\ stored' = stored
  BY DEF ProcessRecentDuplicate, Expire, LiveSlots
<1>2. PICK i \in 1 .. Len(LiveRecent) :
        recent' = Append(RemoveAt(LiveRecent, i), LiveRecent[i])
  BY DEF ProcessRecentDuplicate, RecentEntries, Retained
<1>3. /\ LiveRecent \in Seq(Recent) /\ Len(LiveRecent) <= RecentCapacity
      /\ \A k \in DOMAIN LiveRecent : \E j \in DOMAIN recent :
           LiveRecent[k] = recent[j]
  BY RecentExpires DEF IInv
<1>4. PICK l : l = LiveRecent
  OBVIOUS
<1>5. /\ recent' \in Seq(Recent) /\ Len(recent') = Len(l)
      /\ \A k \in DOMAIN recent' : \E j \in DOMAIN l : recent'[k] = l[j]
  <2>1. l \in Seq(Recent) /\ i \in 1 .. Len(l)
    BY <1>2, <1>3, <1>4
  <2>2. /\ ToBack(l, i) \in Seq(Recent) /\ Len(ToBack(l, i)) = Len(l)
        /\ \A k \in DOMAIN ToBack(l, i) :
             \E j \in DOMAIN l : ToBack(l, i)[k] = l[j]
    BY <2>1, Moved
  <2>3. recent' = ToBack(l, i)
    BY <1>2, <1>4 DEF ToBack
  <2> QED
    BY <2>2, <2>3
<1>a. recent' \in Seq(Recent) /\ Len(recent') <= RecentCapacity
  BY <1>3, <1>4, <1>5
<1>b. ASSUME NEW k \in DOMAIN recent'
      PROVE  \E j \in DOMAIN recent : recent'[k].frame = recent[j].frame
  <2>1. PICK j \in DOMAIN l : recent'[k] = l[j]
    BY <1>5
  <2>2. PICK h \in DOMAIN recent : l[j] = recent[h]
    BY <1>3, <1>4
  <2> QED
    BY <2>1, <2>2
<1>6. RecentWithin
  BY <1>a, <1>b DEF RecentWithin
<1> QED
  BY <1>1, <1>6, TakeTakesOne, Shrinks
-----------------------------------------------------------------------------
(* The slot a frame goes to. *)

\* The datagram that is taken, when it is a frame.
LEMMA TakenFacts ==
  ASSUME IInv, ToReassembler
  PROVE  /\ Taken \in Frames /\ Taken.post \in Posts
         /\ Taken.index \in 0 .. Count[Taken.post] - 1
         /\ Count[Taken.post] \in Nat \ {0}
         /\ Key \in UsedKeys /\ Key = KeyOf[Taken.post]
         /\ TakenTick \in Ticks /\ TakenTick <= now
         /\ 1 \in DOMAIN queue /\ TakenTick = queue[1].tick
         /\ \A i \in DOMAIN queue : queue[i].tick \in Ticks /\ TakenTick <= queue[i].tick
<1>1. queue \in Seq(Received) /\ queue # << >> /\ Taken \in Frames
  BY DEF IInv, QueueInOrder, ToReassembler, Take
<1>2. /\ Len(queue) \in Nat /\ DOMAIN queue = 1 .. Len(queue) /\ Len(queue) > 0
      /\ Head(queue) = queue[1] /\ \A i \in DOMAIN queue : queue[i] \in Received
  BY <1>1
<1>3. 1 \in DOMAIN queue /\ \A i \in DOMAIN queue : 1 <= i
  BY <1>2
<1>4. \A i \in DOMAIN queue : queue[i].tick \in Ticks
  BY <1>2 DEF Received
<1>5. TakenTick = queue[1].tick /\ TakenTick <= now
      /\ \A i \in DOMAIN queue : TakenTick <= queue[i].tick
  BY <1>2, <1>3 DEF IInv, QueueInOrder, TakenTick
<1>6. Taken.post \in Posts /\ Taken.index \in 0 .. Count[Taken.post] - 1
  BY <1>1, FrameFacts
<1>7. Count[Taken.post] \in Nat \ {0}
  BY <1>6, IngressAssumption
<1>8. Key \in UsedKeys /\ Key = KeyOf[Taken.post]
  BY <1>6 DEF Key, UsedKeys
<1> QED
  BY <1>1, <1>3, <1>4, <1>5, <1>6, <1>7, <1>8

\* Its window, which a new fragment does not move.
Ends(s) ==
  /\ s.deadline <= SaturatingDeadline(TakenTick, Timeout)
  /\ TakenTick < s.deadline \/ s.deadline = MaxTick
  /\ Window(s)
  /\ \A i \in DOMAIN queue :
       s.deadline <= SaturatingDeadline(queue[i].tick, Timeout)

LEMMA OpenedFacts ==
  ASSUME IInv, ToReassembler, NEW s, s = Opened
  PROVE  /\ s \in Slot /\ Sound(s) /\ s.key = Key /\ DOMAIN s.parts = {}
         /\ Ends(s)
<1>1. /\ Taken.post \in Posts /\ Count[Taken.post] \in Nat \ {0} /\ Key \in UsedKeys
      /\ TakenTick \in Ticks /\ TakenTick <= now /\ now \in Ticks
      /\ \A i \in DOMAIN queue : queue[i].tick \in Ticks /\ TakenTick <= queue[i].tick
  BY TakenFacts DEF IInv
<1> DEFINE d == SaturatingDeadline(TakenTick, Timeout)
<1>2. /\ d \in Ticks
      /\ TakenTick < d \/ d = MaxTick
      /\ d <= SaturatingDeadline(now, Timeout)
      /\ d <= d
      /\ \A i \in DOMAIN queue : d <= SaturatingDeadline(queue[i].tick, Timeout)
  <2>1. d <= SaturatingDeadline(now, Timeout)
    BY <1>1, DeadlineOrder
  <2>2. ASSUME NEW i \in DOMAIN queue
        PROVE  d <= SaturatingDeadline(queue[i].tick, Timeout)
    BY <1>1, DeadlineOrder
  <2>3. d \in Ticks
    <3>1. Timeout \in Ticks
      BY IngressAssumption
    <3> QED
      BY <1>1, <3>1, DeadlineIsTick
  <2>4. TakenTick <= TakenTick /\ d <= d
    <3> HIDE DEF d
    <3> QED
      BY <1>1, <2>3, IngressAssumption DEF Ticks
  <2>5. TakenTick < d \/ d = MaxTick
    BY <1>1, <2>4, DeadlineOrder
  <2> HIDE DEF d
  <2> QED
    BY <2>1, <2>2, <2>3, <2>4, <2>5
<1>3. << >> \in Parts /\ DOMAIN << >> = {}
  <2>1. << >> \in [{} -> Posts] /\ {} \in SUBSET Nat
    OBVIOUS
  <2> QED
    BY <2>1 DEF Parts
<1>4. s = [key |-> Key, count |-> Count[Taken.post], deadline |-> d,
           parts |-> << >>, heard |-> {}]
  BY DEF Opened
<1> HIDE DEF d
<1>5. s \in Slot
  <2>1. PICK p \in Parts : p = << >>
    BY <1>3
  <2>2. PICK h \in SUBSET Ticks : h = {}
    OBVIOUS
  <2>3. PICK c \in Nat \ {0} : c = Count[Taken.post]
    BY <1>1
  <2>4. PICK k \in UsedKeys : k = Key
    BY <1>1
  <2>5. d \in Ticks
    BY <1>2
  <2>6. s = [key |-> k, count |-> c, deadline |-> d, parts |-> p, heard |-> h]
    BY <1>4, <2>1, <2>2, <2>3, <2>4
  <2> QED
    BY <2>5, <2>6 DEF Slot
<1>6. s.key = Key /\ s.deadline = d /\ s.parts = << >> /\ s.heard = {}
  BY <1>4
<1>7. DOMAIN s.parts = {}
  BY <1>3, <1>6
<1>8. Sound(s)
  BY <1>7 DEF Sound
<1>9. Ends(s)
  BY <1>2, <1>6 DEF Ends, Window, d
<1> QED
  BY <1>5, <1>6, <1>7, <1>8, <1>9

LEMMA LiveSlotEnds ==
  ASSUME IInv, ToReassembler, NEW s \in LiveSlots
  PROVE  Ends(s)
<1>1. s \in slots /\ ~(now >= s.deadline)
  BY DEF LiveSlots, DeadlineReached
<1>2. /\ Window(s)
      /\ \A i \in DOMAIN queue :
           s.deadline <= SaturatingDeadline(queue[i].tick, Timeout)
  BY <1>1 DEF IInv, Windows
<1>3. s.deadline \in Ticks
  BY <1>1 DEF IInv, SlotsSound, Slot
<1>4. TakenTick \in Ticks /\ TakenTick <= now /\ now \in Ticks
      /\ 1 \in DOMAIN queue /\ TakenTick = queue[1].tick
  BY TakenFacts DEF IInv
<1>5. TakenTick < s.deadline
  BY <1>1, <1>3, <1>4, IngressAssumption DEF Ticks
<1> QED
  BY <1>2, <1>4, <1>5 DEF Ends

LEMMA TargetFacts ==
  ASSUME IInv, ToReassembler, NEW s \in Targets
  PROVE  /\ s \in Slot /\ Sound(s) /\ s.key = Key /\ Ends(s)
         /\ s \in slots \/ DOMAIN s.parts = {}
         /\ s \in LiveSlots \/ DOMAIN s.parts = {}
         /\ \A t \in LiveSlots : t.key = Key => t = s
         /\ Cardinality(LiveSlots \ {s}) < SlotCapacity
         /\ ~Quarantined(Key)
<1>1. /\ ~Quarantined(Key)
      /\ \/ s \in LiveSlots /\ s.key = Key
         \/ s = Opened /\ Matching = {} /\ Available
  BY DEF Targets, Matching, SameKey
<1>2. LiveSlots \subseteq slots /\ SlotsSound
  BY DEF LiveSlots, IInv
<1>3. IsFiniteSet(LiveSlots) /\ Cardinality(LiveSlots) \in Nat
      /\ Cardinality(LiveSlots) <= SlotCapacity
  <2>1. PICK L : L = LiveSlots
    OBVIOUS
  <2> QED
    BY <1>2, <2>1, FewerSlots
<1>4. SlotCapacity \in Nat
  BY IngressAssumption
<1>5. CASE s \in LiveSlots /\ s.key = Key
  <2>1. s \in slots /\ s \in Slot /\ Sound(s)
    BY <1>2, <1>5 DEF SlotsSound
  <2>2. \A t \in LiveSlots : t.key = Key => t = s
    BY <1>2, <1>5, <2>1 DEF SlotsSound
  <2>3. Cardinality(LiveSlots \ {s}) < SlotCapacity
    <3>1. Cardinality(LiveSlots \ {s}) = Cardinality(LiveSlots) - 1
      BY <1>3, <1>5, FS_RemoveElement
    <3> QED
      BY <1>3, <1>4, <3>1
  <2> QED
    BY <1>1, <1>5, <2>1, <2>2, <2>3, LiveSlotEnds
<1>6. CASE s = Opened /\ Matching = {} /\ Available
  <2>1. \A t \in LiveSlots : t.key # Key
    BY <1>6 DEF Matching, SameKey
  <2>2. s \in Slot /\ Sound(s) /\ s.key = Key /\ DOMAIN s.parts = {} /\ Ends(s)
    BY <1>6, OpenedFacts
  <2>3. LiveSlots \ {s} = LiveSlots
    BY <2>1, <2>2
  <2>4. Cardinality(LiveSlots \ {s}) < SlotCapacity
    BY <1>6, <2>3 DEF Available
  <2> QED
    BY <1>1, <2>1, <2>2, <2>4
<1> QED
  BY <1>1, <1>5, <1>6

LEMMA FilledFacts ==
  ASSUME IInv, ToReassembler, NEW s \in Targets, Fits(s), NEW u, u = Filled(s)
  PROVE  /\ u \in Slot /\ Sound(u) /\ u.key = Key /\ Ends(u)
         /\ u.count = Count[Taken.post]
         /\ DOMAIN u.parts = DOMAIN s.parts \cup {Taken.index}
         /\ u.parts[Taken.index] = Taken.post
         /\ \A i \in DOMAIN s.parts : i # Taken.index /\ u.parts[i] = s.parts[i]
<1> DEFINE q == [i \in DOMAIN s.parts \cup {Taken.index} |->
                   IF i = Taken.index THEN Taken.post ELSE s.parts[i]]
           h == s.heard \cup {TakenTick}
<1>1. /\ s \in Slot /\ Sound(s) /\ s.key = Key /\ Ends(s)
      /\ s.count = Count[Taken.post] /\ Taken.index \notin DOMAIN s.parts
  BY TargetFacts DEF Fits, Present
<1>2. /\ Taken.post \in Posts /\ Taken.index \in 0 .. Count[Taken.post] - 1
      /\ Count[Taken.post] \in Nat \ {0} /\ Key = KeyOf[Taken.post]
      /\ TakenTick \in Ticks /\ TakenTick <= now
  BY TakenFacts
<1>3. u = [s EXCEPT !.parts = q, !.heard = h]
  BY DEF Filled
<1>4. PICK D \in SUBSET Nat : s.parts \in [D -> Posts]
  BY <1>1 DEF Slot, Parts
<1>5. /\ DOMAIN q = DOMAIN s.parts \cup {Taken.index}
      /\ q[Taken.index] = Taken.post
      /\ \A i \in DOMAIN s.parts : i # Taken.index /\ q[i] = s.parts[i]
  BY <1>1
<1>6. q \in Parts
  <2>0. Taken.index \in Nat
    BY <1>2
  <2>1. D \cup {Taken.index} \in SUBSET Nat
    BY <2>0
  <2>2. q \in [D \cup {Taken.index} -> Posts]
    BY <1>2, <1>4
  <2> HIDE DEF q
  <2> QED
    BY <2>1, <2>2 DEF Parts
<1>7. h \in SUBSET Ticks
  BY <1>1, <1>2 DEF Slot
<1> HIDE DEF q, h
<1>8. /\ u \in Slot /\ u.key = s.key /\ u.count = s.count
      /\ u.deadline = s.deadline /\ u.parts = q /\ u.heard = h
  BY <1>1, <1>3, <1>6, <1>7 DEF Slot
<1>9. Sound(u)
  <2>1. DOMAIN u.parts \subseteq 0 .. u.count - 1
    BY <1>1, <1>2, <1>5, <1>8 DEF Sound
  <2>2. ASSUME NEW i \in DOMAIN u.parts
        PROVE  KeyOf[u.parts[i]] = u.key /\ Count[u.parts[i]] = u.count
    <3>1. CASE i = Taken.index
      BY <1>1, <1>2, <1>5, <1>8, <3>1
    <3>2. CASE i \in DOMAIN s.parts
      BY <1>1, <1>5, <1>8, <3>2 DEF Sound
    <3> QED
      BY <1>5, <1>8, <3>1, <3>2
  <2> QED
    BY <2>1, <2>2 DEF Sound
<1>10. Ends(u)
  <2>1. \A t \in u.heard : t \in s.heard \/ t = TakenTick
    BY <1>8 DEF h
  <2>2. Window(u)
    BY <1>1, <1>8, <2>1 DEF Ends, Window
  <2> QED
    BY <1>1, <1>8, <2>2 DEF Ends
<1> QED
  BY <1>1, <1>5, <1>8, <1>9, <1>10
-----------------------------------------------------------------------------
(* The steps of the reassembler. *)

LEMMA DuplicateFragmentKeeps ==
  ASSUME IInv, ProcessDuplicateFragment
  PROVE  IInv'
<1>1. ToReassembler /\ Take /\ recent' = LiveRecent
      /\ quarantine' = LiveQuarantine /\ barred' = barred /\ stored' = stored
  BY DEF ProcessDuplicateFragment, ToReassembler
<1>2. PICK s \in Targets : /\ Taken.index \in DOMAIN s.parts
                           /\ slots' = (LiveSlots \ {s}) \cup {s}
  BY DEF ProcessDuplicateFragment, Present, Repeated
<1>3. s \in LiveSlots
  BY <1>1, <1>2, TargetFacts
<1>4. slots' \subseteq slots
  BY <1>2, <1>3 DEF LiveSlots
<1> QED
  BY <1>1, <1>4, TakeTakesOne, LiveWithin, Shrinks

LEMMA FragmentAcceptedKeeps ==
  ASSUME IInv, ProcessFragmentAccepted
  PROVE  IInv'
<1>1. ToReassembler /\ Take /\ Fresh /\ recent' = LiveRecent
      /\ quarantine' = LiveQuarantine /\ barred' = barred /\ stored' = stored
  BY DEF ProcessFragmentAccepted, ToReassembler
<1>2. PICK s \in Targets : /\ Fits(s)
                           /\ slots' = (LiveSlots \ {s}) \cup {Filled(s)}
  BY DEF ProcessFragmentAccepted
<1>3. PICK u : u = Filled(s)
  OBVIOUS
<1>4. /\ u \in Slot /\ Sound(u) /\ u.key = Key /\ Ends(u)
      /\ DOMAIN u.parts = DOMAIN s.parts \cup {Taken.index}
      /\ u.parts[Taken.index] = Taken.post
      /\ \A i \in DOMAIN s.parts : i # Taken.index /\ u.parts[i] = s.parts[i]
  BY <1>1, <1>2, <1>3, FilledFacts
<1>5. /\ s \in slots \/ DOMAIN s.parts = {}
      /\ \A t \in LiveSlots : t.key = Key => t = s
      /\ Cardinality(LiveSlots \ {s}) < SlotCapacity
      /\ ~Quarantined(Key)
  BY <1>1, <1>2, TargetFacts
<1>6. slots' = (LiveSlots \ {s}) \cup {u} /\ LiveSlots \ {s} \subseteq slots
  BY <1>2, <1>3 DEF LiveSlots
<1>7. TakesOne /\ now' = now /\ stopped' \in BOOLEAN
  BY <1>1, TakeTakesOne DEF TakesOne
<1>8. QueueInOrder'
  BY <1>7, QueueTaken DEF IInv
<1>9. SlotsSound'
  <2>0. SlotsSound
    BY DEF IInv
  <2>1. PICK L : L = LiveSlots \ {s}
    OBVIOUS
  <2>2. IsFiniteSet(L) /\ Cardinality(L) \in Nat
    BY <1>6, <2>0, <2>1, FewerSlots
  <2>3. IsFiniteSet(L \cup {u}) /\ Cardinality(L \cup {u}) <= Cardinality(L) + 1
    <3>1. /\ IsFiniteSet(L \cup {u})
          /\ Cardinality(L \cup {u}) = Cardinality(L)
             \/ Cardinality(L \cup {u}) = Cardinality(L) + 1
      BY <2>2, FS_AddElement
    <3> QED
      BY <2>2, <3>1
  <2>4. Cardinality(L) < SlotCapacity /\ SlotCapacity \in Nat
    BY <1>5, <2>1, IngressAssumption
  <2>5. Cardinality(L \cup {u}) \in Nat
    BY <2>3, FS_CardinalityType
  <2>6. Cardinality(L \cup {u}) <= SlotCapacity
    BY <2>2, <2>3, <2>4, <2>5
  <2>7. slots' = L \cup {u} /\ L \subseteq slots
    BY <1>6, <2>1
  <2>8. slots' \subseteq Slot /\ \A t \in slots' : Sound(t)
    BY <1>4, <2>0, <2>7 DEF SlotsSound
  <2>9. \A t \in L : t.key # Key
    BY <1>5, <2>1
  <2>10. \A t, v \in slots' : t.key = v.key => t = v
    BY <1>4, <2>0, <2>7, <2>9 DEF SlotsSound
  <2>11. \A t : Sound(t)' <=> Sound(t)
    BY DEF Sound
  <2> QED
    BY <2>3, <2>6, <2>7, <2>8, <2>10, <2>11 DEF SlotsSound
<1>10. Windows'
  <2>1. \A i \in DOMAIN queue' : \E j \in DOMAIN queue : queue'[i] = queue[j]
    BY <1>7, QueueTaken DEF IInv
  <2>2. ASSUME NEW t \in slots'
        PROVE  /\ Window(t)'
               /\ \A i \in DOMAIN queue' :
                    t.deadline <= SaturatingDeadline(queue'[i].tick, Timeout)
    <3>1. /\ Window(t)
          /\ \A i \in DOMAIN queue :
               t.deadline <= SaturatingDeadline(queue[i].tick, Timeout)
      BY <1>4, <1>6 DEF Ends, IInv, Windows
    <3>2. Window(t)'
      BY <1>7, <3>1 DEF Window
    <3> QED
      BY <2>1, <3>1, <3>2
  <2> QED
    BY <2>2 DEF Windows, SaturatingDeadline
<1>11. RecentSound'
  BY <1>1, LiveWithin, RecentShrinks DEF IInv
<1>12. NotSuppressed'
  <2>1. /\ LiveRecent \in Seq(Recent)
        /\ \A i \in DOMAIN LiveRecent : \E j \in DOMAIN recent :
             LiveRecent[i] = recent[j]
    BY RecentExpires DEF IInv
  <2>2. DOMAIN LiveRecent = 1 .. Len(LiveRecent)
        /\ \A i \in DOMAIN LiveRecent : LiveRecent[i].frame \in Frames
    <3>1. DOMAIN LiveRecent = 1 .. Len(LiveRecent)
          /\ \A i \in DOMAIN LiveRecent : LiveRecent[i] \in Recent
      BY <2>1
    <3> QED
      BY <3>1 DEF Recent
  <2>3. \A i \in DOMAIN LiveRecent : LiveRecent[i].frame # Taken
    BY <1>1, <2>2 DEF Fresh, RecentEntries
  <2>4. \A i \in DOMAIN LiveRecent :
          ~(LiveRecent[i].frame.post = Taken.post
            /\ LiveRecent[i].frame.index = Taken.index)
    <3>1. Taken \in Frames
      BY <1>1, TakenFacts
    <3> QED
      BY <2>2, <2>3, <3>1, FrameFacts
  <2> SUFFICES ASSUME NEW t \in slots', NEW j \in DOMAIN t.parts,
                      NEW i \in DOMAIN LiveRecent
               PROVE  ~(LiveRecent[i].frame.post = t.parts[j]
                        /\ LiveRecent[i].frame.index = j)
    BY <1>1 DEF NotSuppressed
  <2>5. PICK k \in DOMAIN recent : LiveRecent[i] = recent[k]
    BY <2>1
  <2>6. \A v \in slots : \A x \in DOMAIN v.parts :
          ~(recent[k].frame.post = v.parts[x] /\ recent[k].frame.index = x)
    BY DEF IInv, NotSuppressed
  <2>7. CASE t \in slots
    BY <2>5, <2>6, <2>7
  <2>8. CASE t = u /\ j = Taken.index
    BY <1>4, <2>4, <2>8
  <2>9. CASE t = u /\ j \in DOMAIN s.parts
    <3>1. s \in slots /\ u.parts[j] = s.parts[j]
      BY <1>4, <1>5, <2>9
    <3> QED
      BY <2>5, <2>6, <2>9, <3>1
  <2> QED
    BY <1>4, <1>6, <2>7, <2>8, <2>9
<1>13. QuarantineSound'
  BY <1>1, <1>7, QuarantineExpires DEF IInv
<1>14. QuarantineHolds'
  <2>1. Key \in UsedKeys /\ now \in Ticks /\ barred \in [UsedKeys -> Ticks]
    BY <1>1, TakenFacts DEF IInv, QuarantineSound
  <2>2. ~(barred[Key] > now)
    <3>1. LiveQuarantine \in Seq(Barring)
          /\ (barred[Key] > now => \E i \in DOMAIN LiveQuarantine :
                                     LiveQuarantine[i].key = Key)
      BY <2>1, QuarantineLives DEF IInv
    <3>2. DOMAIN LiveQuarantine = 1 .. Len(LiveQuarantine)
      BY <3>1
    <3> QED
      BY <1>5, <3>1, <3>2 DEF Quarantined, SameKey
  <2>3. now >= barred[Key]
    BY <2>1, <2>2, IngressAssumption DEF Ticks
  <2> QED
    BY <1>1, <1>4, <1>6, <1>7, <2>3 DEF QuarantineHolds, IInv
<1>15. CommittedWhole'
  BY <1>1 DEF IInv, CommittedWhole
<1>16. now' \in Ticks
  BY <1>7 DEF IInv
<1> QED
  BY <1>7, <1>8, <1>9, <1>10, <1>11, <1>12, <1>13, <1>14, <1>15, <1>16 DEF IInv

\* The slot goes and its key is barred until it would have expired.
LEMMA BarringKeeps ==
  ASSUME IInv, ToReassembler, NEW s \in Targets, slots' = LiveSlots \ {s},
         Quarantine(Key, s.deadline), recent' = LiveRecent, stored' = stored
  PROVE  IInv'
<1>1. s \in Slot /\ \A t \in LiveSlots : t.key = Key => t = s
  BY TargetFacts
<1>2. TakesOne /\ now' = now /\ stopped' \in BOOLEAN
  BY TakeTakesOne DEF TakesOne, ToReassembler
<1>3. slots' \subseteq slots /\ \A t \in slots' : t.key # Key
  BY <1>1 DEF LiveSlots
<1>4. Key \in UsedKeys /\ now \in Ticks /\ barred \in [UsedKeys -> Ticks]
      /\ s.deadline \in Ticks /\ 0 \in Ticks
  BY <1>1, TakenFacts, IngressAssumption DEF IInv, QuarantineSound, Slot, Ticks
<1> DEFINE Dropped(k) == Len(LiveQuarantine) >= QuarantineCapacity
                         /\ k = Head(LiveQuarantine).key
<1>5. barred' = [k \in UsedKeys |-> IF k = Key THEN s.deadline
                                    ELSE IF Dropped(k) THEN 0 ELSE barred[k]]
  BY DEF Quarantine
<1>6. barred' \in [UsedKeys -> Ticks]
  <2> HIDE DEF Dropped
  <2> QED
    BY <1>4, <1>5
<1>7. PICK e \in Barring : e = [key |-> Key, deadline |-> s.deadline]
  BY <1>4 DEF Barring
<1>8. e.key = Key /\ e.deadline = s.deadline
  BY <1>7
<1>9. /\ LiveQuarantine \in Seq(Barring) /\ Len(LiveQuarantine) <= QuarantineCapacity
      /\ QuarantineCapacity \in Nat \ {0}
      /\ \A k \in UsedKeys : barred[k] > now =>
           \E i \in DOMAIN LiveQuarantine :
             LiveQuarantine[i].key = k /\ LiveQuarantine[i].deadline = barred[k]
  BY QuarantineLives, IngressAssumption DEF IInv
<1>10. PICK l : l = LiveQuarantine
  OBVIOUS
<1>11. /\ quarantine' \in Seq(Barring) /\ Len(quarantine') <= QuarantineCapacity
       /\ quarantine'[Len(quarantine')] = e
       /\ Len(quarantine') \in DOMAIN quarantine'
       /\ \A j \in DOMAIN l : Len(l) < QuarantineCapacity \/ j # 1 =>
            \E i \in DOMAIN quarantine' : quarantine'[i] = l[j]
  <2>1. quarantine' = PushBounded(l, e, QuarantineCapacity)
    BY <1>7, <1>10 DEF Quarantine
  <2>2. l \in Seq(Barring) /\ Len(l) <= QuarantineCapacity
    BY <1>9, <1>10
  <2> QED
    BY <1>9, <2>1, <2>2, Pushed
<1>12. ASSUME NEW k \in UsedKeys, barred'[k] > now'
       PROVE  \E i \in DOMAIN quarantine' :
                quarantine'[i].key = k /\ quarantine'[i].deadline = barred'[k]
  <2>1. CASE k = Key
    <3>1. barred'[k] = s.deadline
      BY <1>5, <2>1
    <3> QED
      BY <1>8, <1>11, <2>1, <3>1
  <2>2. CASE k # Key /\ ~Dropped(k)
    <3>1. barred'[k] = barred[k]
      BY <1>5, <2>2
    <3>2. PICK j \in DOMAIN l : l[j].key = k /\ l[j].deadline = barred[k]
      BY <1>2, <1>9, <1>10, <1>12, <3>1
    <3>3. Len(l) < QuarantineCapacity \/ j # 1
      <4>1. CASE j = 1
        <5>1. Head(l) = l[1] /\ Len(l) \in Nat
          BY <1>9, <1>10
        <5>2. ~(Len(l) >= QuarantineCapacity)
          BY <1>10, <2>2, <3>2, <4>1, <5>1
        <5> QED
          BY <1>9, <5>1, <5>2
      <4> QED
        BY <4>1
    <3>4. PICK i \in DOMAIN quarantine' : quarantine'[i] = l[j]
      BY <1>11, <3>3
    <3> QED
      BY <3>1, <3>2, <3>4
  <2>3. CASE k # Key /\ Dropped(k)
    <3>1. barred'[k] = 0
      BY <1>5, <2>3
    <3> QED
      BY <1>2, <1>4, <1>12, <3>1, IngressAssumption DEF Ticks
  <2> QED
    BY <2>1, <2>2, <2>3
<1>13. QuarantineSound'
  BY <1>6, <1>11, <1>12 DEF QuarantineSound
<1>14. QuarantineHolds'
  <2> SUFFICES ASSUME NEW t \in slots'
               PROVE  now' >= barred'[t.key]
    BY DEF QuarantineHolds
  <2>1. t \in slots /\ t.key \in UsedKeys /\ t.key # Key
    BY <1>3 DEF IInv, SlotsSound, Slot
  <2>2. now >= barred[t.key] /\ now >= 0
    BY <1>4, <2>1, IngressAssumption DEF IInv, QuarantineHolds, Ticks
  <2>3. barred'[t.key] = 0 \/ barred'[t.key] = barred[t.key]
    BY <1>5, <2>1
  <2> QED
    BY <1>2, <2>2, <2>3
<1>15. QueueInOrder' /\ SlotsSound' /\ Windows'
  BY <1>2, <1>3, QueueTaken, SlotsShrink, WindowsShrink DEF IInv
<1>16. RecentSound' /\ NotSuppressed'
  BY <1>3, LiveWithin, RecentShrinks, StillNotSuppressed DEF IInv
<1>17. CommittedWhole' /\ now' \in Ticks
  BY <1>2 DEF IInv, CommittedWhole
<1> QED
  BY <1>2, <1>13, <1>14, <1>15, <1>16, <1>17 DEF IInv

LEMMA ConflictKeeps ==
  ASSUME IInv, ProcessConflict \/ ProcessInvalidPost
  PROVE  IInv'
<1>1. ToReassembler /\ recent' = LiveRecent /\ stored' = stored
  BY DEF ProcessConflict, ProcessInvalidPost
<1>2. PICK s \in Targets : slots' = LiveSlots \ {s} /\ Quarantine(Key, s.deadline)
  BY DEF ProcessConflict, ProcessInvalidPost
<1> QED
  BY <1>1, <1>2, BarringKeeps
LEMMA NotCommittedKeeps ==
  ASSUME IInv, ProcessNotCommitted
  PROVE  IInv'
<1>1. PICK content : Completed(content)
  BY DEF ProcessNotCommitted
<1>2. /\ slots' \subseteq slots /\ Take /\ recent' = LiveRecent
      /\ quarantine' = LiveQuarantine /\ barred' = barred /\ stored' = stored
  BY <1>1 DEF Completed, ToReassembler, LiveSlots, ProcessNotCommitted
<1> QED
  BY <1>2, TakeTakesOne, LiveWithin, Shrinks

\* The frames of a content whose fragments are of one geometry.
LEMMA CanonicalFacts ==
  ASSUME NEW n \in Nat \ {0}, NEW content, DOMAIN content = 0 .. n - 1,
         \A i \in 0 .. n - 1 : content[i] \in Posts /\ Count[content[i]] = n
  PROVE  /\ CanonicalFrames(content) \in Seq(Frames)
         /\ Len(CanonicalFrames(content)) = n /\ Cardinality(DOMAIN content) = n
         /\ \A j \in DOMAIN CanonicalFrames(content) :
              LET f == CanonicalFrames(content)[j] IN
              f.index \in DOMAIN content /\ content[f.index] = f.post
<1>1. Cardinality(DOMAIN content) = n
  <2>1. Cardinality(0 .. n - 1) = IF 0 > n - 1 THEN 0 ELSE (n - 1) - 0 + 1
    BY FS_Interval
  <2> QED
    BY <2>1
<1> DEFINE F == [i \in 1 .. n |-> [post |-> content[i - 1], index |-> i - 1]]
<1>2. CanonicalFrames(content) = F
  BY <1>1 DEF CanonicalFrames
<1>3. \A i \in 1 .. n : [post |-> content[i - 1], index |-> i - 1] \in Frames
                        /\ i - 1 \in DOMAIN content
  <2>1. \A i \in 1 .. n : i - 1 \in 0 .. n - 1
    OBVIOUS
  <2> QED
    BY <2>1, FrameFacts
<1>4. F \in [1 .. n -> Frames]
  BY <1>3
<1>5. F \in Seq(Frames) /\ Len(F) = n /\ DOMAIN F = 1 .. n
  <2> HIDE DEF F
  <2> QED
    BY <1>4
<1>6. \A j \in 1 .. n : F[j].index = j - 1 /\ F[j].post = content[j - 1]
  OBVIOUS
<1> HIDE DEF F
<1> QED
  BY <1>1, <1>2, <1>3, <1>5, <1>6

LEMMA CommittedKeeps ==
  ASSUME IInv, ProcessCommitted
  PROVE  IInv'
<1>1. PICK content : /\ Completed(content)
                     /\ stored' = stored \cup {content}
                     /\ MarkCommitted(content)
  BY DEF ProcessCommitted
<1>2. ToReassembler /\ Take /\ quarantine' = LiveQuarantine /\ barred' = barred
  BY <1>1 DEF Completed, ToReassembler
<1>3. PICK s \in Targets : /\ Fits(s) /\ Complete(Filled(s))
                           /\ content = Filled(s).parts
                           /\ slots' = LiveSlots \ {s}
  BY <1>1 DEF Completed
<1>4. PICK u : u = Filled(s)
  OBVIOUS
<1>5. u \in Slot /\ Sound(u) /\ u.key = Key /\ u.count = Count[Taken.post]
  BY <1>2, <1>3, <1>4, FilledFacts
<1>6. PICK n \in Nat \ {0} : n = u.count
  BY <1>5 DEF Slot
<1>7. /\ DOMAIN content = 0 .. n - 1
      /\ \A i \in 0 .. n - 1 : /\ content[i] \in Posts /\ Count[content[i]] = n
                               /\ KeyOf[content[i]] = Key
  <2>1. content = u.parts /\ DOMAIN u.parts = 0 .. n - 1
    BY <1>3, <1>4, <1>6 DEF Complete
  <2>2. \E D : u.parts \in [D -> Posts]
    BY <1>5 DEF Slot, Parts
  <2>3. \A i \in DOMAIN u.parts : u.parts[i] \in Posts
    BY <2>2
  <2> QED
    BY <1>5, <1>6, <2>1, <2>3 DEF Sound
<1>8. 0 \in 0 .. n - 1
  OBVIOUS
<1>9. TakesOne /\ now' = now /\ stopped' \in BOOLEAN
  BY <1>2, TakeTakesOne DEF TakesOne
<1>10. slots' \subseteq slots /\ \A t \in slots' : t.key # Key
  <2>1. \A t \in LiveSlots : t.key = Key => t = s
    BY <1>2, TargetFacts
  <2> QED
    BY <1>3, <2>1 DEF LiveSlots
<1>11. CommittedWhole'
  <2> SUFFICES ASSUME NEW c \in stored'
               PROVE  /\ DOMAIN c = 0 .. Count[c[0]] - 1
                      /\ \A i \in DOMAIN c : KeyOf[c[i]] = KeyOf[c[0]]
                                             /\ Count[c[i]] = Count[c[0]]
    BY DEF CommittedWhole
  <2>1. CASE c \in stored
    BY <2>1 DEF IInv, CommittedWhole
  <2>2. CASE c = content
    BY <1>7, <1>8, <2>2
  <2> QED
    BY <1>1, <2>1, <2>2
\* The entries that recent_ may have now.
<1>12. PICK A : A = {f \in Frames :
                       /\ OfStored(f)'
                       /\ \A t \in slots' : \A j \in DOMAIN t.parts :
                            ~(f.post = t.parts[j] /\ f.index = j)}
  OBVIOUS
<1>13. /\ recent' \in Seq(Recent) /\ Len(recent') <= RecentCapacity
       /\ \A i \in DOMAIN recent' : recent'[i].frame \in A
  <2>1. /\ LiveRecent \in Seq(Recent) /\ Len(LiveRecent) <= RecentCapacity
        /\ \A i \in DOMAIN LiveRecent : \E j \in DOMAIN recent :
             LiveRecent[i] = recent[j]
    BY RecentExpires DEF IInv
  <2>2. \A i \in DOMAIN LiveRecent : LiveRecent[i].frame \in Frames
    <3>1. \A i \in DOMAIN LiveRecent : LiveRecent[i] \in Recent
      BY <2>1
    <3> QED
      BY <3>1 DEF Recent
  <2>3. ASSUME NEW i \in DOMAIN LiveRecent
        PROVE  LiveRecent[i].frame \in A
    <3>1. PICK j \in DOMAIN recent : LiveRecent[i] = recent[j]
      BY <2>1
    <3>2. PICK f \in Frames : f = LiveRecent[i].frame /\ f = recent[j].frame
      BY <2>2, <3>1
    <3>3. OfStored(f)
      BY <3>2 DEF IInv, RecentSound
    <3>4. OfStored(f)'
      BY <1>1, <3>3 DEF OfStored
    <3>5. \A t \in slots' : \A k \in DOMAIN t.parts :
            ~(f.post = t.parts[k] /\ f.index = k)
      BY <1>10, <3>2 DEF IInv, NotSuppressed
    <3> QED
      BY <1>12, <3>2, <3>4, <3>5
  <2>4. PICK frames : frames = CanonicalFrames(content)
    OBVIOUS
  <2>5. /\ frames \in Seq(Frames) /\ Len(frames) = n
        /\ Cardinality(DOMAIN content) = n
        /\ \A j \in DOMAIN frames : /\ frames[j].index \in DOMAIN content
                                    /\ content[frames[j].index] = frames[j].post
    BY <1>7, <2>4, CanonicalFacts
  <2>6. ASSUME NEW j \in DOMAIN frames
        PROVE  frames[j] \in A
    <3>1. PICK f \in Frames : f = frames[j]
      BY <2>5
    <3>2. f.index \in DOMAIN content /\ content[f.index] = f.post
      BY <2>5, <3>1
    <3>3. OfStored(f)'
      BY <1>1, <3>2 DEF OfStored
    <3>4. ASSUME NEW t \in slots', NEW k \in DOMAIN t.parts,
                 f.post = t.parts[k]
          PROVE  FALSE
      <4>1. KeyOf[f.post] = Key
        BY <1>7, <3>2
      <4>2. KeyOf[t.parts[k]] = t.key
        BY <1>10 DEF IInv, SlotsSound, Sound
      <4> QED
        BY <1>10, <3>4, <4>1, <4>2
    <3> QED
      BY <1>12, <3>1, <3>3, <3>4
  <2>7. PICK l : l = LiveRecent
    OBVIOUS
  <2>8. l \in Seq(Recent) /\ Len(l) <= RecentCapacity
        /\ \A j \in DOMAIN l : l[j].frame \in A
    BY <2>1, <2>3, <2>7
  <2>9. recent' = RetainAll(l, frames)[Len(frames)]
    BY <1>1, <2>4, <2>5, <2>7 DEF MarkCommitted
  <2>10. A \subseteq Frames /\ now \in Ticks
    BY <1>12 DEF IInv
  <2> QED
    BY <2>5, <2>6, <2>8, <2>9, <2>10, RetainedEntries
<1>14. RecentSound'
  <2>1. \A i \in DOMAIN recent' : OfStored(recent[i].frame)'
    BY <1>12, <1>13 DEF OfStored
  <2> QED
    BY <1>13, <2>1 DEF RecentSound
<1>15. NotSuppressed'
  BY <1>12, <1>13 DEF NotSuppressed
<1>16. QueueInOrder' /\ SlotsSound' /\ Windows'
  BY <1>9, <1>10, QueueTaken, SlotsShrink, WindowsShrink DEF IInv
<1>17. QuarantineSound'
  BY <1>2, <1>9, QuarantineExpires DEF IInv
<1>18. QuarantineHolds' /\ now' \in Ticks
  BY <1>2, <1>9, <1>10 DEF IInv, QuarantineHolds
<1> QED
  BY <1>9, <1>11, <1>14, <1>15, <1>16, <1>17, <1>18 DEF IInv

LEMMA ProcessKeeps ==
  ASSUME IInv, Process
  PROVE  IInv'
<1>1. CASE ProcessMalformed \/ ProcessQuarantined \/ ProcessCapacityExceeded
  BY <1>1, DiscardKeeps
     DEF ProcessMalformed, ProcessQuarantined, ProcessCapacityExceeded,
         ToReassembler
<1> QED
  BY <1>1, EmptyKeeps, StaleKeeps, RecentDuplicateKeeps, DuplicateFragmentKeeps,
     ConflictKeeps, FragmentAcceptedKeeps, CommittedKeeps, NotCommittedKeeps
     DEF Process

-----------------------------------------------------------------------------
(* The other steps. *)

LEMMA EnqueueKeeps ==
  ASSUME IInv, NEW d \in Frames \cup Garbage, Enqueue(d)
  PROVE  IInv'
<1>1. /\ now' = now /\ stopped' = stopped /\ recent' = recent /\ slots' = slots
      /\ quarantine' = quarantine /\ stored' = stored /\ barred' = barred
      /\ Len(queue) < QueueCapacity /\ queue \in Seq(Received) /\ now \in Ticks
      /\ QueueCapacity \in Nat
      /\ \A i \in DOMAIN queue : queue[i].tick <= now
      /\ \A i, j \in DOMAIN queue : i <= j => queue[i].tick <= queue[j].tick
  BY IngressAssumption DEF Enqueue, IInv, QueueInOrder
<1>2. PICK e \in Received : e = [datagram |-> d, tick |-> now]
  BY <1>1 DEF Received
<1>3. PICK n \in Nat : n = Len(queue)
  BY <1>1
<1>4. /\ queue' \in Seq(Received) /\ Len(queue') = n + 1
      /\ DOMAIN queue' = 1 .. n + 1 /\ DOMAIN queue = 1 .. n
      /\ queue'[n + 1] = e
      /\ \A i \in 1 .. n : queue'[i] = queue[i]
  <2>1. queue' = Append(queue, e)
    BY <1>2 DEF Enqueue
  <2> QED
    BY <1>1, <1>3, <2>1
<1>5. e.tick = now /\ now <= now
  BY <1>1, <1>2, IngressAssumption DEF Ticks
<1>6. \A i \in 1 .. n + 1 : i \in 1 .. n \/ i = n + 1
  OBVIOUS
<1>7. \A i \in 1 .. n : ~(n + 1 <= i)
  OBVIOUS
<1>8. \A i \in DOMAIN queue' : queue'[i].tick <= now'
  BY <1>1, <1>4, <1>5, <1>6
<1>9. ASSUME NEW i \in DOMAIN queue', NEW j \in DOMAIN queue', i <= j
      PROVE  queue'[i].tick <= queue'[j].tick
  <2>1. CASE j = n + 1
    BY <1>1, <1>4, <1>5, <1>8, <2>1
  <2>2. CASE j \in 1 .. n
    <3>1. i \in 1 .. n
      BY <1>4, <1>6, <1>7, <1>9, <2>2
    <3> QED
      BY <1>1, <1>4, <1>9, <2>2, <3>1
  <2> QED
    BY <1>4, <1>6, <2>1, <2>2
<1>10. QueueInOrder'
  <2>1. Len(queue') <= QueueCapacity
    BY <1>1, <1>3, <1>4
  <2> QED
    BY <1>4, <1>8, <1>9, <2>1 DEF QueueInOrder
<1>11. Windows'
  <2>1. ASSUME NEW t \in slots', NEW i \in DOMAIN queue'
        PROVE  t.deadline <= SaturatingDeadline(queue'[i].tick, Timeout)
    BY <1>1, <1>4, <1>5, <1>6 DEF IInv, Windows, Window
  <2>2. \A t \in slots' : Window(t)'
    BY <1>1 DEF IInv, Windows, Window
  <2> QED
    BY <2>1, <2>2 DEF Windows, SaturatingDeadline
<1>12. SlotsSound'
  BY <1>1, SlotsShrink DEF IInv
<1>13. RecentSound' /\ NotSuppressed' /\ QuarantineSound' /\ QuarantineHolds'
       /\ CommittedWhole' /\ now' \in Ticks /\ stopped' \in BOOLEAN
  BY <1>1 DEF IInv, RecentSound, OfStored, NotSuppressed, QuarantineSound,
              QuarantineHolds, CommittedWhole
<1> QED
  BY <1>10, <1>11, <1>12, <1>13 DEF IInv

\* Nothing is held, barred or suppressed: initially and after stop().
HoldsNothing ==
  /\ now \in Ticks /\ stopped \in BOOLEAN
  /\ queue = << >> /\ recent = << >> /\ slots = {} /\ quarantine = << >>
  /\ barred = [k \in UsedKeys |-> 0]
  /\ CommittedWhole

LEMMA NothingIsSound == HoldsNothing => IInv
<1> SUFFICES ASSUME HoldsNothing PROVE IInv
  OBVIOUS
<1> USE DEF HoldsNothing
<1>1. /\ 0 \in Ticks /\ QueueCapacity \in Nat /\ SlotCapacity \in Nat
      /\ RecentCapacity \in Nat /\ QuarantineCapacity \in Nat
      /\ ~(0 > now)
  BY IngressAssumption DEF Ticks
<1>2. SlotsSound
  BY <1>1, FS_EmptySet DEF SlotsSound
<1>3. QueueInOrder
  BY <1>1 DEF QueueInOrder
<1>4. RecentSound
  BY <1>1 DEF RecentSound
<1>5. QuarantineSound
  <2>1. \A k \in UsedKeys : barred[k] = 0
    OBVIOUS
  <2>2. barred \in [UsedKeys -> Ticks]
    BY <1>1
  <2>3. \A k \in UsedKeys : ~(barred[k] > now)
    BY <1>1, <2>1
  <2> QED
    BY <1>1, <2>2, <2>3 DEF QuarantineSound
<1> QED
  BY <1>2, <1>3, <1>4, <1>5
     DEF IInv, Windows, NotSuppressed, QuarantineHolds

LEMMA StopKeeps ==
  ASSUME IInv, Stop
  PROVE  IInv'
<1>1. /\ now \in Ticks /\ now' = now /\ stopped' = TRUE /\ stored' = stored
      /\ queue' = << >> /\ recent' = << >> /\ slots' = {} /\ quarantine' = << >>
      /\ barred' = [k \in UsedKeys |-> 0]
  BY DEF IInv, Stop
<1>2. HoldsNothing'
  BY <1>1 DEF IInv, CommittedWhole, HoldsNothing
<1> QED
  BY <1>2, NothingIsSound, PTL

LEMMA ClockKeeps ==
  ASSUME IInv, AdvanceClock
  PROVE  IInv'
<1>1. /\ stopped' = stopped /\ recent' = recent /\ slots' = slots /\ queue' = queue
      /\ quarantine' = quarantine /\ stored' = stored /\ barred' = barred
      /\ now' = now + 1 /\ now < MaxTick /\ now \in Ticks /\ stopped \in BOOLEAN
  BY DEF AdvanceClock, IInv
<1>2. now' \in Ticks /\ now <= now' /\ now \in Int /\ now' \in Int
  BY <1>1, IngressAssumption DEF Ticks
<1>3. QueueInOrder'
  <2>1. \A i \in DOMAIN queue : queue[i].tick \in Int
    <3>1. \A i \in DOMAIN queue : queue[i] \in Received
      BY DEF IInv, QueueInOrder
    <3> QED
      BY <3>1, IngressAssumption DEF Received, Ticks
  <2>2. \A i \in DOMAIN queue : queue[i].tick <= now'
    BY <1>2, <2>1 DEF IInv, QueueInOrder
  <2> QED
    BY <1>1, <2>2 DEF IInv, QueueInOrder
<1>4. Windows'
  <2>1. /\ SaturatingDeadline(now, Timeout) <= SaturatingDeadline(now', Timeout)
        /\ SaturatingDeadline(now, Timeout) \in Ticks
    <3>1. PICK m \in Ticks : m = now'
      BY <1>2
    <3>2. PICK k \in Ticks : k = now
      BY <1>1
    <3> QED
      BY <1>2, <3>1, <3>2, DeadlineOrder
  <2>2. SaturatingDeadline(now', Timeout) \in Ticks
    <3>1. Timeout \in Ticks
      BY IngressAssumption
    <3>2. PICK m \in Ticks : m = now'
      BY <1>2
    <3> QED
      BY <3>1, <3>2, DeadlineIsTick
  <2>3. ASSUME NEW t \in slots
        PROVE  t.deadline <= SaturatingDeadline(now', Timeout)
    <3>1. t.deadline \in Ticks
          /\ t.deadline <= SaturatingDeadline(now, Timeout)
      BY DEF IInv, SlotsSound, Slot, Windows, Window
    <3> QED
      BY <2>1, <2>2, <3>1, IngressAssumption DEF Ticks
  <2>4. \A t \in slots' : Window(t)'
    BY <1>1, <2>3 DEF IInv, Windows, Window, SaturatingDeadline
  <2> QED
    BY <1>1, <2>4 DEF IInv, Windows, SaturatingDeadline
<1>5. SlotsSound'
  BY <1>1, SlotsShrink DEF IInv
<1>6. barred \in [UsedKeys -> Ticks]
  BY DEF IInv, QuarantineSound
<1>7. QuarantineSound'
  <2>1. \A k \in UsedKeys : barred[k] > now' => barred[k] > now
    BY <1>2, <1>6, IngressAssumption DEF Ticks
  <2> QED
    BY <1>1, <2>1 DEF IInv, QuarantineSound
<1>8. QuarantineHolds'
  <2>1. ASSUME NEW t \in slots
        PROVE  now' >= barred[t.key]
    <3>1. t.key \in UsedKeys
      BY DEF IInv, SlotsSound, Slot
    <3>2. barred[t.key] \in Int /\ now >= barred[t.key]
      BY <1>6, <3>1, IngressAssumption DEF Ticks, IInv, QuarantineHolds
    <3> QED
      BY <1>2, <3>2
  <2> QED
    BY <1>1, <2>1 DEF QuarantineHolds
<1>9. RecentSound' /\ NotSuppressed' /\ CommittedWhole'
  BY <1>1 DEF IInv, RecentSound, OfStored, NotSuppressed, CommittedWhole
<1> QED
  BY <1>1, <1>2, <1>3, <1>4, <1>5, <1>7, <1>8, <1>9 DEF IInv

LEMMA InitHolds == Init => IInv
BY NothingIsSound DEF Init, CommittedWhole, HoldsNothing

LEMMA NextKeeps ==
  ASSUME IInv, [Next]_vars
  PROVE  IInv'
<1>1. CASE UNCHANGED vars
  BY <1>1 DEF vars, IInv, SlotsSound, Sound, QueueInOrder, Windows, Window,
              SaturatingDeadline, RecentSound, OfStored, NotSuppressed,
              QuarantineSound, QuarantineHolds, CommittedWhole
<1> QED
  BY <1>1, ProcessKeeps, EnqueueKeeps, StopKeeps, ClockKeeps DEF Next

-----------------------------------------------------------------------------
(* The theorems. *)

(***************************************************************************)
(* InboundFrameQueue and Reassembler: the slots are sound and one for a    *)
(* key, datagrams wait in order, no slot outlives the window of a datagram *)
(* still to come, a suppressed frame is of a stored post and in no slot,   *)
(* and a barred key is in the quarantine.                                  *)
(***************************************************************************)
THEOREM IngressInvariant == Spec => []IInv
<1>1. IInv /\ [Next]_vars => IInv'
  BY NextKeeps
<1> QED
  BY InitHolds, <1>1, PTL DEF Spec

(***************************************************************************)
(* The deques of the inbound side and its slots never hold more than their *)
(* capacities, whatever arrives and however full the queue is.             *)
(***************************************************************************)
THEOREM IngressTypeCorrect == Spec => []TypeOK
<1>1. IInv => TypeOK
  <2> SUFFICES ASSUME IInv PROVE TypeOK
    OBVIOUS
  <2>1. \A s \in slots : /\ s.key \in UsedKeys /\ s.deadline \in Ticks
                         /\ DOMAIN s.parts \subseteq 0 .. s.count - 1
                         /\ s.heard \subseteq Ticks
    BY DEF IInv, SlotsSound, Slot, Sound
  <2>2. ASSUME NEW s \in slots, NEW i \in DOMAIN s.parts
        PROVE  s.parts[i] \in Posts
    <3>1. \E D : s.parts \in [D -> Posts]
      <4>1. s.parts \in Parts
        BY DEF IInv, SlotsSound, Slot
      <4> QED
        BY <4>1 DEF Parts
    <3> QED
      BY <3>1
  <2>3. /\ queue \in Seq([datagram : Frames \cup Garbage, tick : Ticks])
        /\ recent \in Seq([frame : Frames, deadline : Ticks])
        /\ quarantine \in Seq([key : UsedKeys, deadline : Ticks])
    BY DEF IInv, QueueInOrder, RecentSound, QuarantineSound, Received, Recent,
           Barring
  <2>4. /\ now \in Ticks /\ stopped \in BOOLEAN /\ barred \in [UsedKeys -> Ticks]
        /\ Len(queue) <= QueueCapacity /\ Len(recent) <= RecentCapacity
        /\ Len(quarantine) <= QuarantineCapacity
        /\ Cardinality(slots) <= SlotCapacity
    BY DEF IInv, QueueInOrder, RecentSound, QuarantineSound, SlotsSound
  <2> QED
    BY <2>1, <2>2, <2>3, <2>4 DEF TypeOK
<1> QED
  BY IngressInvariant, <1>1, PTL

(***************************************************************************)
(* Reassembler::accept never moves the deadline of a slot: the slot ends   *)
(* within the window of every fragment it holds, because datagrams are     *)
(* taken in the order of their reception ticks.                            *)
(***************************************************************************)
THEOREM WindowIsFixed == Spec => []FixedWindow
<1>1. IInv => FixedWindow
  BY DEF IInv, Windows, Window, FixedWindow
<1> QED
  BY IngressInvariant, <1>1, PTL

(***************************************************************************)
(* What process_next hands to the session is a whole content of one key    *)
(* and one geometry, whatever was lost, repeated or interleaved.           *)
(***************************************************************************)
THEOREM OnlyWholeIsCommitted == Spec => []CommittedWhole
<1>1. IInv => CommittedWhole
  BY DEF IInv
<1> QED
  BY IngressInvariant, <1>1, PTL

(***************************************************************************)
(* recently_committed suppresses frames of durable posts only, although    *)
(* recent_ drops and reorders entries and mark_committed may be repeated.  *)
(***************************************************************************)
THEOREM OnlyStoredIsSuppressed == Spec => []SuppressedIsStored
<1>1. IInv => SuppressedIsStored
  BY DEF IInv, RecentSound, OfStored, SuppressedIsStored, ToSet
<1> QED
  BY IngressInvariant, <1>1, PTL

(***************************************************************************)
(* No slot of Reassembler holds a fragment that is suppressed: committing  *)
(* frees the only slot of its key in the same call of process_next.        *)
(***************************************************************************)
THEOREM SuppressedHoldsNoSlot == Spec => []SuppressedTakesNoSlot
<1>1. IInv => SuppressedTakesNoSlot
  <2> SUFFICES ASSUME IInv, NEW s \in slots, NEW j \in DOMAIN s.parts,
                      NEW r \in ToSet(recent),
                      r.frame = [post |-> s.parts[j], index |-> j]
               PROVE  FALSE
    BY DEF SuppressedTakesNoSlot
  <2>1. PICK i \in DOMAIN recent : r = recent[i]
    BY DEF ToSet
  <2>2. recent[i].frame.post = s.parts[j] /\ recent[i].frame.index = j
    BY <2>1
  <2> QED
    BY <2>2 DEF IInv, NotSuppressed
<1> QED
  BY IngressInvariant, <1>1, PTL

(***************************************************************************)
(* quarantine(): after a conflict nothing is put together under the key    *)
(* until the slot would have expired, unless the deque dropped the key.    *)
(***************************************************************************)
THEOREM QuarantineIsKept == Spec => []QuarantineHolds
<1>1. IInv => QuarantineHolds
  BY DEF IInv
<1> QED
  BY IngressInvariant, <1>1, PTL
=============================================================================
