------------------------- MODULE AirtimePolicyProofs -------------------------
(***************************************************************************)
(* For every capacity, refill rate, gap and set of airtimes: the airtime   *)
(* budget over every interval, and that record_transmit never disables the *)
(* policy that has just allowed the datagram.                              *)
(***************************************************************************)
EXTENDS AirtimePolicy, TLAPS

\* The tokens that the policy still holds and the airtime already sent in the
\* window are covered by one bucket and the time up to the last refill.  A
\* window may open up to Denominator - 1 ticks after the last refill and still
\* see the token those ticks count towards.
Covered(p, w) ==
  /\ w.start - p.last_refill <= Denominator - 1
  /\ (w.spent + p.tokens) * Denominator
       <= Capacity * Denominator + (p.last_refill - w.start) + Denominator - 1

\* The inductive invariant.
IInv ==
  /\ TypeOK
  /\ policy.clock_started => policy.last_refill <= now
  /\ ~policy.clock_started => window.spent = 0
  /\ window.start <= now
  /\ window.spent = 0 \/ Covered(policy, window)

-----------------------------------------------------------------------------
LEMMA DivFacts ==
  ASSUME NEW a \in Nat
  PROVE  /\ a \div Denominator \in Nat
         /\ (a \div Denominator) * Denominator <= a
         /\ a \div Denominator = 0 => a < Denominator
         /\ a < Denominator => a \div Denominator = 0
<1> DEFINE q == a \div Denominator
<1>1. Denominator \in Nat /\ Denominator > 0
  BY PolicyAssumption
<1>2. q \in Int /\ q * Denominator <= a /\ a < (q + 1) * Denominator
  BY <1>1
<1>3. q >= 0
  BY <1>1
<1>4. a < Denominator => q = 0
  BY <1>1
<1> QED BY <1>1, <1>2, <1>3, <1>4

LEMMA SaturatingAddTick ==
  ASSUME NEW t \in Ticks, NEW d \in Nat
  PROVE  SaturatingAdd(t, d) \in Ticks
BY PolicyAssumption DEF SaturatingAdd, Ticks

\* What refill does to a policy whose clock is not ahead of the caller.
LEMMA RefillFacts ==
  ASSUME NEW p \in Policies, NEW t \in Ticks, ~Regressed(p, t)
  PROVE  LET r == Refill(p, t) IN
         /\ r \in Policies
         /\ r.clock_started /\ r.valid = p.valid
         /\ r.next_transmit = p.next_transmit
         /\ r.last_refill <= t /\ t - r.last_refill < Denominator
         /\ p.clock_started => r.last_refill >= p.last_refill
         /\ p.clock_started =>
              (r.tokens - p.tokens) * Denominator <= r.last_refill - p.last_refill
         /\ Refill(r, t) = r
<1> DEFINE r == Refill(p, t)
           added == (t - p.last_refill) \div Denominator
<1>0. /\ p.tokens \in 0 .. Capacity /\ p.last_refill \in Ticks
      /\ p.clock_started \in BOOLEAN /\ t \in Nat /\ t <= MaxTick
      /\ Ticks \subseteq Nat
      /\ Denominator \in Nat /\ Denominator > 0 /\ Capacity \in Nat /\ MaxTick \in Nat
  BY PolicyAssumption DEF Policies, Ticks
<1>1. ASSUME NEW q \in Policies, q.clock_started, q.last_refill <= t,
             t - q.last_refill < Denominator
      PROVE  Refill(q, t) = q
  <2>1. t - q.last_refill \in Nat
    <3>1. q.last_refill \in Nat
      BY <1>0, <1>1 DEF Policies
    <3> QED BY <1>0, <1>1, <3>1
  <2>2. (t - q.last_refill) \div Denominator = 0
    BY <1>1, <2>1, DivFacts
  <2> QED BY <1>1, <2>2 DEF Refill
<1>2. CASE ~p.clock_started
  <2>1. r = [p EXCEPT !.clock_started = TRUE, !.last_refill = t]
    BY <1>2 DEF Refill
  <2>2. /\ r \in Policies /\ r.clock_started /\ r.valid = p.valid
        /\ r.next_transmit = p.next_transmit /\ r.last_refill = t
    BY <2>1 DEF Policies
  <2>3. r.last_refill <= t /\ t - r.last_refill < Denominator
    BY <1>0, <2>2
  <2> HIDE DEF r
  <2>4. Refill(r, t) = r
    BY <1>1, <2>2, <2>3
  <2> QED BY <1>2, <2>2, <2>3, <2>4 DEF r
<1>3. CASE p.clock_started
  <2>0. p.last_refill <= t /\ t - p.last_refill \in Nat
    <3>1. p.last_refill \in Nat /\ ~(t < p.last_refill)
      BY <1>0, <1>3 DEF Regressed
    <3> QED BY <1>0, <3>1
  <2>1. /\ added \in Nat /\ added * Denominator <= t - p.last_refill
        /\ added = 0 => t - p.last_refill < Denominator
    BY <2>0, DivFacts
  <2> HIDE DEF added
  <2>2. CASE added > 0
    <3>1. r = [p EXCEPT !.tokens = Least(Capacity, SaturatingAdd(p.tokens, added)),
                        !.last_refill = t]
      BY <1>3, <2>2 DEF Refill, added
    <3> DEFINE k == Least(Capacity, SaturatingAdd(p.tokens, added))
    <3>2. k \in 0 .. Capacity
      BY <1>0, <2>1 DEF Least, SaturatingAdd
    <3>3. k - p.tokens <= added
      BY <1>0, <2>1 DEF Least, SaturatingAdd
    <3> HIDE DEF k
    <3>4. /\ r \in Policies /\ r.clock_started /\ r.valid = p.valid
          /\ r.next_transmit = p.next_transmit /\ r.last_refill = t
          /\ r.tokens = k
      BY <1>3, <3>1, <3>2 DEF Policies, k
    <3> HIDE DEF r
    <3>5. (r.tokens - p.tokens) * Denominator <= r.last_refill - p.last_refill
      <4>1. (k - p.tokens) * Denominator <= added * Denominator
        BY <1>0, <2>1, <3>2, <3>3
      <4>2. (k - p.tokens) * Denominator \in Int /\ added * Denominator \in Int
        BY <1>0, <2>1, <3>2
      <4> QED BY <1>0, <2>0, <2>1, <3>4, <4>1, <4>2
    <3>6. /\ r.last_refill <= t /\ t - r.last_refill < Denominator
          /\ r.last_refill >= p.last_refill
      BY <1>0, <2>0, <3>4
    <3>7. Refill(r, t) = r
      BY <1>1, <3>4, <3>6
    <3> QED BY <3>4, <3>5, <3>6, <3>7 DEF r
  <2>3. CASE ~(added > 0)
    <3>1. r = p /\ added = 0
      BY <1>3, <2>1, <2>3 DEF Refill, added
    <3>2. (p.tokens - p.tokens) * Denominator = 0
      BY <1>0
    <3>3. Refill(p, t) = p
      BY <1>1, <1>3, <2>0, <2>1, <3>1
    <3>4. p.last_refill - p.last_refill = 0 /\ p.last_refill >= p.last_refill
      <4>1. p.last_refill \in Nat
        BY <1>0
      <4> QED BY <4>1
    <3>5. /\ p.last_refill <= t /\ t - p.last_refill < Denominator
          /\ (p.tokens - p.tokens) * Denominator <= p.last_refill - p.last_refill
      BY <2>0, <2>1, <3>1, <3>2, <3>4
    <3> HIDE DEF r
    <3>6. Refill(r, t) = r
      BY <3>1, <3>3
    <3> QED BY <1>3, <3>1, <3>4, <3>5, <3>6 DEF r
  <2> QED BY <2>2, <2>3
<1> QED BY <1>0, <1>2, <1>3

-----------------------------------------------------------------------------
(* What one call does to the policy. *)

\* A due evaluation of a valid policy whose clock is not ahead refills it.
LEMMA EvaluateFacts ==
  ASSUME IInv, policy.valid
  PROVE  /\ ~Regressed(policy, now)
         /\ Evaluation.policy = Refill(policy, now)
         /\ Evaluation.decision =
              Answer(Refill(policy, now), now, request.airtime)
<1>1. ~Regressed(policy, now)
  <2>1. policy.clock_started => policy.last_refill <= now
    BY DEF IInv
  <2>2. now \in Nat /\ policy.last_refill \in Nat
    BY PolicyAssumption DEF IInv, TypeOK, Policies, Ticks
  <2> QED BY <2>1, <2>2 DEF Regressed
<1> QED BY <1>1 DEF Evaluation, Evaluate

LEMMA AnswerFacts ==
  ASSUME NEW p, NEW t, NEW a,
         Answer(p, t, a).status = "Allowed"
  PROVE  /\ ~(a = 0 \/ a > Capacity)
         /\ ~(a \in 1 .. Capacity /\ t < p.next_transmit)
         /\ ~(a \in 1 .. Capacity /\ t >= p.next_transmit /\ p.tokens < a)
BY DEF Answer, Decision

LEMMA AllowedFacts ==
  ASSUME IInv, request # NoRequest, Evaluation.decision.status = "Allowed"
  PROVE  /\ policy.valid
         /\ request.airtime \in 1 .. Capacity
         /\ request.airtime <= Refill(policy, now).tokens
         /\ Record(Evaluation.policy, now, request.airtime)
              = [Refill(policy, now) EXCEPT
                   !.tokens = @ - request.airtime,
                   !.next_transmit = SaturatingAdd(now, MinimumGap)]
<1>1. policy.valid
  BY DEF Evaluation, Evaluate, Decision
<1> DEFINE r == Refill(policy, now)
           a == request.airtime
<1>2. /\ policy \in Policies /\ now \in Ticks /\ now \in Nat
      /\ Capacity \in Nat
  BY PolicyAssumption DEF IInv, TypeOK, Ticks
<1>3. /\ r \in Policies /\ r.valid = policy.valid /\ Refill(r, now) = r
      /\ r.last_refill <= now
  BY <1>1, <1>2, EvaluateFacts, RefillFacts
<1>4. Answer(r, now, a).status = "Allowed" /\ Evaluation.policy = r
  BY <1>1, EvaluateFacts
<1> HIDE DEF r
<1>5. a \in Nat /\ r.next_transmit \in Nat /\ r.tokens \in Nat
      /\ r.last_refill \in Nat
  <2>1. request \in Requests
    BY DEF IInv, TypeOK
  <2>2. a \in Nat
    BY <2>1, PolicyAssumption DEF Requests
  <2>3. \A t \in Ticks : t \in Nat
    BY PolicyAssumption DEF Ticks
  <2>4. \A k \in 0 .. Capacity : k \in Nat
    BY <1>2
  <2>5. r.tokens \in 0 .. Capacity /\ r.last_refill \in Ticks /\ r.next_transmit \in Ticks
    BY <1>3 DEF Policies
  <2> QED BY <2>2, <2>3, <2>4, <2>5
<1>6. ~(a = 0 \/ a > Capacity)
  BY <1>4, AnswerFacts
<1>7. a \in 1 .. Capacity
  BY <1>2, <1>5, <1>6
<1>8. a <= r.tokens
  <2>1. /\ ~(a \in 1 .. Capacity /\ now < r.next_transmit)
        /\ ~(a \in 1 .. Capacity /\ now >= r.next_transmit /\ r.tokens < a)
    BY <1>4, AnswerFacts
  <2> QED BY <1>2, <1>5, <1>7, <2>1
<1>9. ~Regressed(r, now)
  BY <1>2, <1>3, <1>5 DEF Regressed
<1>10. Evaluate(r, now, a) = [policy |-> r, decision |-> Answer(r, now, a)]
  BY <1>1, <1>3, <1>9 DEF Evaluate
<1>11. Record(r, now, a)
        = [r EXCEPT !.tokens = @ - a, !.next_transmit = SaturatingAdd(now, MinimumGap)]
  BY <1>1, <1>3, <1>4, <1>10 DEF Record
<1> QED BY <1>1, <1>4, <1>7, <1>8, <1>11 DEF r

-----------------------------------------------------------------------------
\* A refill keeps what the window may still spend covered.
LEMMA RefillCovered ==
  ASSUME IInv, policy.valid
  PROVE  LET r == Refill(policy, now) IN
         /\ r \in Policies /\ r.clock_started /\ r.last_refill <= now
         /\ r.valid = policy.valid
         /\ Covered(r, window)
<1> DEFINE r == Refill(policy, now)
           D == Denominator
<1>1. /\ policy \in Policies /\ now \in Ticks /\ now \in Nat
      /\ D \in Nat /\ D > 0 /\ Capacity \in Nat
      /\ window.start \in Nat /\ window.spent \in Nat /\ window.start <= now
      /\ Ticks \subseteq Nat
  BY PolicyAssumption DEF IInv, TypeOK, Ticks
<1>2. /\ r \in Policies
      /\ r.clock_started /\ r.valid = policy.valid
      /\ r.last_refill <= now /\ now - r.last_refill < D
      /\ policy.clock_started => r.last_refill >= policy.last_refill
      /\ policy.clock_started =>
           (r.tokens - policy.tokens) * D <= r.last_refill - policy.last_refill
  BY <1>1, EvaluateFacts, RefillFacts
<1> HIDE DEF r
<1>3. /\ r.tokens \in Nat /\ r.tokens <= Capacity /\ r.last_refill \in Nat
      /\ policy.tokens \in Nat /\ policy.last_refill \in Nat
  <2>1. /\ r.tokens \in 0 .. Capacity /\ r.last_refill \in Ticks
        /\ policy.tokens \in 0 .. Capacity /\ policy.last_refill \in Ticks
    BY <1>1, <1>2 DEF Policies
  <2>2. \A t \in Ticks : t \in Nat
    BY PolicyAssumption DEF Ticks
  <2>3. \A k \in 0 .. Capacity : k \in Nat /\ k <= Capacity
    BY <1>1
  <2> QED BY <2>1, <2>2, <2>3
<1>4. window.start - r.last_refill <= D - 1
  BY <1>1, <1>2, <1>3
<1>5. (window.spent + r.tokens) * D
        <= Capacity * D + (r.last_refill - window.start) + D - 1
  <2>1. CASE window.spent = 0
    <3>1. r.tokens * D <= Capacity * D
      BY <1>1, <1>3
    <3>2. r.tokens * D \in Int /\ Capacity * D \in Int
      BY <1>1, <1>3
    <3>3. window.spent + r.tokens = r.tokens
      BY <1>3, <2>1
    <3> QED BY <1>1, <1>3, <1>4, <3>1, <3>2, <3>3
  <2>2. CASE window.spent # 0
    <3>1. policy.clock_started /\ Covered(policy, window)
      BY <2>2 DEF IInv
    <3>2. (window.spent + policy.tokens) * D
            <= Capacity * D + (policy.last_refill - window.start) + D - 1
      BY <3>1 DEF Covered
    <3>3. (r.tokens - policy.tokens) * D <= r.last_refill - policy.last_refill
      BY <1>2, <3>1
    <3>4. (window.spent + r.tokens) * D
            = (window.spent + policy.tokens) * D + (r.tokens - policy.tokens) * D
      BY <1>1, <1>3
    <3>5. /\ (window.spent + policy.tokens) * D \in Int
          /\ (r.tokens - policy.tokens) * D \in Int /\ Capacity * D \in Int
      BY <1>1, <1>3
    <3> QED BY <1>1, <1>3, <3>2, <3>3, <3>4, <3>5
  <2> QED BY <2>1, <2>2
<1> QED BY <1>2, <1>4, <1>5 DEF Covered, r

-----------------------------------------------------------------------------
LEMMA InitIInv == Init => IInv
<1> SUFFICES ASSUME Init PROVE IInv
  OBVIOUS
<1>1. now \in Ticks /\ now \in Nat /\ 0 \in Ticks /\ Capacity \in 0 .. Capacity
  BY PolicyAssumption DEF Init, Ticks
<1>2. policy \in Policies
  BY <1>1 DEF Init, Policies
<1>3. window \in [start : Ticks, spent : Nat]
  BY <1>1 DEF Init
<1>4. TypeOK
  BY <1>1, <1>2, <1>3 DEF Init, TypeOK
<1> QED BY <1>1, <1>4 DEF Init, IInv

\* An evaluation that sends nothing.
LEMMA EvaluateStep ==
  ASSUME IInv, request' \in Requests \cup {NoRequest},
         policy' = Evaluation.policy, UNCHANGED <<now, window>>
  PROVE  IInv' /\ policy'.valid = policy.valid
<1>1. CASE policy.valid
  <2>1. policy' = Refill(policy, now)
    BY <1>1, EvaluateFacts
  <2>2. /\ policy' \in Policies /\ policy'.clock_started
        /\ policy'.last_refill <= now /\ policy'.valid = policy.valid
        /\ Covered(policy', window)
    BY <1>1, <2>1, RefillCovered
  <2> QED BY <2>2 DEF IInv, TypeOK
<1>2. CASE ~policy.valid
  <2>1. policy' = policy
    BY <1>2 DEF Evaluation, Evaluate
  <2> QED BY <2>1 DEF IInv, TypeOK
<1> QED BY <1>1, <1>2

LEMMA AcceptedStep ==
  ASSUME IInv, PumpAccepted
  PROVE  IInv' /\ policy'.valid
<1> DEFINE r == Refill(policy, now)
           a == request.airtime
<1>1. /\ policy.valid /\ a \in 1 .. Capacity /\ a <= r.tokens
      /\ policy' = [r EXCEPT !.tokens = @ - a,
                             !.next_transmit = SaturatingAdd(now, MinimumGap)]
  BY AllowedFacts DEF PumpAccepted
<1>2. /\ r \in Policies /\ r.clock_started /\ r.last_refill <= now
      /\ r.valid = policy.valid /\ Covered(r, window)
  BY <1>1, RefillCovered
<1> HIDE DEF r
<1>3. /\ r.tokens \in 0 .. Capacity /\ r.last_refill \in Ticks
      /\ now \in Ticks /\ window \in [start : Ticks, spent : Nat]
      /\ window.start <= now
  BY <1>2 DEF IInv, TypeOK, Policies
<1>4. Capacity \in Nat /\ MinimumGap \in Nat
  BY PolicyAssumption DEF Ticks
<1>5. r.tokens - a \in 0 .. Capacity
  BY <1>1, <1>3, <1>4
<1>6. SaturatingAdd(now, MinimumGap) \in Ticks
  BY <1>3, <1>4, SaturatingAddTick
<1>7. /\ policy' \in Policies /\ policy'.clock_started /\ policy'.valid
      /\ policy'.last_refill = r.last_refill /\ policy'.tokens = r.tokens - a
  BY <1>1, <1>2, <1>5, <1>6 DEF Policies
<1>8. /\ window' \in [start : Ticks, spent : Nat]
      /\ window'.start = window.start /\ window'.spent = window.spent + a
  BY <1>1, <1>3, <1>4 DEF PumpAccepted
<1>9. window'.spent + policy'.tokens = window.spent + r.tokens
  BY <1>1, <1>3, <1>4, <1>7, <1>8
<1>10. Covered(policy', window')
  BY <1>2, <1>7, <1>8, <1>9 DEF Covered
<1>11. TypeOK'
  BY <1>3, <1>7, <1>8 DEF PumpAccepted, IInv, TypeOK
<1> QED BY <1>2, <1>3, <1>7, <1>8, <1>10, <1>11 DEF IInv, PumpAccepted

LEMMA NextIInv == IInv /\ [Next]_vars => IInv'
<1> SUFFICES ASSUME IInv, [Next]_vars PROVE IInv'
  OBVIOUS
<1> USE DEF IInv, TypeOK
<1>1. CASE \E a \in Airtimes : Request(a)
  <2>1. request' \in Requests
    BY <1>1 DEF Request, Requests, DeferralCap
  <2> QED BY <1>1, <2>1 DEF Request
<1>2. CASE Abandon
  BY <1>2 DEF Abandon
<1>3. CASE PumpDeferred
  <2>1. Evaluation.decision.not_before \in Ticks /\ request \in Requests
    <3>1. policy.valid /\ request \in Requests
      BY <1>3 DEF PumpDeferred, Evaluation, Evaluate, Decision
    <3> DEFINE r == Refill(policy, now)
               a == request.airtime
    <3>2. r \in Policies /\ now \in Ticks
      BY <3>1, RefillCovered
    <3>3. Answer(r, now, a).status = "Deferred"
          /\ Evaluation.decision = Answer(r, now, a)
      BY <1>3, <3>1, EvaluateFacts DEF PumpDeferred
    <3> HIDE DEF r
    <3>4. r.next_transmit \in Ticks /\ r.tokens \in Nat /\ a \in Nat
      <4>1. r.next_transmit \in Ticks /\ r.tokens \in 0 .. Capacity
        BY <3>2 DEF Policies
      <4>2. a \in Nat
        BY <3>1, PolicyAssumption DEF Requests
      <4> QED BY <4>1, <4>2, PolicyAssumption
    <3>5. r.tokens < a => TokensDue(r, now, a) \in Ticks
      <4> SUFFICES ASSUME r.tokens < a PROVE TokensDue(r, now, a) \in Ticks
        OBVIOUS
      <4>1. a - r.tokens \in Nat /\ Denominator \in Nat
        BY <3>4, PolicyAssumption
      <4>2. (a - r.tokens) * Denominator \in Nat
        BY <4>1
      <4> QED BY <3>2, <4>2, SaturatingAddTick DEF TokensDue
    <3>6. Answer(r, now, a).not_before \in Ticks
      BY <3>3, <3>4, <3>5 DEF Answer, Decision
    <3> QED BY <3>1, <3>3, <3>6
  <2>2. request' \in Requests
    <3>1. Least(DeferralCap, request.deferrals + 1) \in 0 .. DeferralCap
      BY <2>1 DEF Requests, Least, DeferralCap
    <3> QED BY <1>3, <2>1, <3>1 DEF PumpDeferred, Requests
  <2> QED BY <1>3, <2>2, EvaluateStep DEF PumpDeferred
<1>4. CASE PumpRefused
  BY <1>4, EvaluateStep DEF PumpRefused
<1>5. CASE PumpNotAccepted
  BY <1>5, EvaluateStep DEF PumpNotAccepted
<1>6. CASE PumpAccepted
  BY <1>6, AcceptedStep
<1>7. CASE \E t \in Ticks, a \in Airtimes : EvaluateInThePast(t, a)
  <2>1. policy' = [policy EXCEPT !.valid = FALSE]
    BY <1>7 DEF EvaluateInThePast, Evaluate
  <2>2. /\ policy' \in Policies /\ policy'.clock_started = policy.clock_started
        /\ policy'.last_refill = policy.last_refill
        /\ policy'.tokens = policy.tokens
    BY <2>1 DEF Policies
  <2> QED BY <1>7, <2>2 DEF EvaluateInThePast, Covered
<1>8. CASE AdvanceClock
  <2>1. now \in Nat /\ now' \in Ticks /\ now' \in Nat /\ now <= now'
    BY <1>8, PolicyAssumption DEF AdvanceClock, Ticks
  <2>2. policy.last_refill \in Nat /\ window.start \in Nat
    BY PolicyAssumption DEF Policies, Ticks
  <2> QED BY <1>8, <2>1, <2>2 DEF AdvanceClock
<1>9. CASE OpenWindow
  <2>1. now <= now
    BY PolicyAssumption DEF Ticks
  <2> QED BY <1>9, <2>1 DEF OpenWindow
<1>10. CASE UNCHANGED vars
  BY <1>10 DEF vars
<1> QED BY <1>1, <1>2, <1>3, <1>4, <1>5, <1>6, <1>7, <1>8, <1>9, <1>10 DEF Next

LEMMA Invariance == Spec => []IInv
BY InitIInv, NextIInv, PTL DEF Spec

-----------------------------------------------------------------------------
\* Every field of Japan920RadioPolicy keeps its type: the bucket is never
\* overdrawn and never above its capacity.
THEOREM TypeCorrect == Spec => []TypeOK
<1>1. IInv => TypeOK
  BY DEF IInv
<1> QED BY <1>1, Invariance, PTL

\* In every interval the airtime recorded by record_transmit is at most one
\* bucket plus the interval's length divided by refill_denominator, rounded up.
THEOREM BudgetHolds == Spec => []AirtimeBudget
<1>1. IInv => AirtimeBudget
  <2> SUFFICES ASSUME IInv PROVE AirtimeBudget
    OBVIOUS
  <2> DEFINE D == Denominator
             C == Capacity * D
  <2>1. /\ now \in Nat /\ window.start \in Nat /\ window.start <= now
        /\ window.spent \in Nat /\ policy.last_refill \in Nat /\ policy.tokens \in Nat
    <3>1. /\ now \in Ticks /\ window.start \in Ticks /\ window.start <= now
          /\ window.spent \in Nat
          /\ policy.last_refill \in Ticks /\ policy.tokens \in 0 .. Capacity
      BY DEF IInv, TypeOK, Policies
    <3> QED BY <3>1, PolicyAssumption DEF Ticks
  <2>2. D \in Nat /\ D > 0 /\ Capacity \in Nat
    BY PolicyAssumption
  <2>3. C \in Nat
    BY <2>2
  <2>4. CASE window.spent = 0
    <3>1. 0 * D = 0
      BY <2>2
    <3> HIDE DEF C
    <3>2. 0 * D <= C + (now - window.start) + D - 1
      BY <2>1, <2>2, <2>3, <3>1
    <3> QED BY <2>4, <3>2 DEF AirtimeBudget, C
  <2>5. CASE window.spent # 0
    <3>1. Covered(policy, window) /\ policy.last_refill <= now
      BY <2>5 DEF IInv
    <3>2. window.spent * D <= (window.spent + policy.tokens) * D
      BY <2>1, <2>2
    <3>3. window.spent * D \in Int /\ (window.spent + policy.tokens) * D \in Int
      BY <2>1, <2>2
    <3>4. (window.spent + policy.tokens) * D
            <= C + (policy.last_refill - window.start) + D - 1
      BY <3>1 DEF Covered
    <3> HIDE DEF C
    <3>5. window.spent * D <= C + (now - window.start) + D - 1
      BY <2>1, <2>2, <2>3, <3>1, <3>2, <3>3, <3>4
    <3> QED BY <3>5 DEF AirtimeBudget, C
  <2> QED BY <2>4, <2>5
<1> QED BY <1>1, Invariance, PTL

\* record_transmit never disables a policy that has just answered Allowed;
\* valid_ is cleared only by a tick before the last refill.
THEOREM NeverDisabledByRecord == Spec => OnlyRegressionDisables
<1>1. IInv /\ [Next]_vars =>
        [policy.valid /\ ~policy'.valid
           => \E t \in Ticks, a \in Airtimes : EvaluateInThePast(t, a)]_vars
  <2> SUFFICES ASSUME IInv, Next, policy.valid, ~policy'.valid
               PROVE  \E t \in Ticks, a \in Airtimes : EvaluateInThePast(t, a)
    BY DEF vars
  <2>1. ASSUME policy' = Evaluation.policy PROVE FALSE
    BY <2>1, EvaluateFacts, RefillCovered
  <2>2. ~PumpAccepted
    BY AcceptedStep
  <2> QED BY <2>1, <2>2 DEF Next, Request, Abandon, PumpDeferred, PumpRefused,
        PumpNotAccepted, AdvanceClock, OpenWindow
<1> QED BY <1>1, Invariance, PTL DEF Spec, OnlyRegressionDisables
-----------------------------------------------------------------------------
(* The promise of not_before_tick. *)

LEMMA Numbers ==
  /\ Denominator \in Nat /\ Denominator > 0
  /\ Capacity \in Nat /\ MaxTick \in Nat /\ Capacity <= MaxTick
  /\ \A t \in Ticks : t \in Nat /\ t <= MaxTick
  /\ \A k \in 0 .. Capacity : k \in Nat /\ k <= Capacity
  /\ \A x \in Airtimes : x \in Nat
BY PolicyAssumption DEF Ticks

\* When the request is due its tokens are there.
Funded ==
  \/ policy.tokens >= request.airtime
  \/ policy.tokens * Denominator + (request.due - policy.last_refill)
       >= request.airtime * Denominator

\* The first deferral waits for the gap, which nothing but a transmission
\* moves; the second one for the tokens, which nothing else takes.  Only the
\* last tick, at which waiting ends, breaks the promise.
Promise ==
  request # NoRequest /\ request.deferrals >= 1 =>
    /\ policy.clock_started
    /\ request.due >= policy.next_transmit
    /\ request.deferrals >= 2 => Funded \/ request.due = MaxTick
    /\ request.deferrals >= 3 => now = MaxTick

\* The refill at a due tick brings the tokens that were waited for.
LEMMA RefillFunds ==
  ASSUME IInv, policy.valid, policy.clock_started, request \in Requests,
         request.airtime <= Capacity, Funded, now >= request.due
  PROVE  Refill(policy, now).tokens >= request.airtime
<1> DEFINE added == (now - policy.last_refill) \div Denominator
           D == Denominator
           a == request.airtime
           k == policy.tokens
           l == policy.last_refill
<1>1. /\ D \in Nat /\ D > 0 /\ Capacity \in Nat /\ MaxTick \in Nat
      /\ Capacity <= MaxTick
      /\ a \in Nat /\ k \in Nat /\ k <= Capacity /\ l \in Nat /\ now \in Nat
      /\ request.due \in Nat /\ l <= now
  <2>1. /\ a \in Airtimes /\ k \in 0 .. Capacity /\ l \in Ticks /\ now \in Ticks
        /\ request.due \in Ticks /\ l <= now
    BY DEF IInv, TypeOK, Policies, Requests
  <2> QED BY <2>1, Numbers
<1>2. /\ added \in Nat /\ now - l \in Nat /\ now - l < (added + 1) * D
  <2>1. now - l \in Nat
    BY <1>1
  <2>2. added \in Nat
    BY <2>1, DivFacts
  <2>3. now - l < (added + 1) * D
    BY <1>1, <2>1
  <2> QED BY <2>1, <2>2, <2>3
<1> HIDE DEF added
<1>3. k + added >= a
  <2>1. CASE k >= a
    BY <1>1, <1>2, <2>1
  <2>2. CASE k * D + (request.due - l) >= a * D
    <3> SUFFICES ASSUME k + added + 1 <= a PROVE FALSE
      BY <1>1, <1>2
    <3>1. (k + (added + 1)) * D <= a * D
      BY <1>1, <1>2
    <3>2. (k + (added + 1)) * D = k * D + (added + 1) * D
      BY <1>1, <1>2
    <3>3. k * D \in Int /\ (added + 1) * D \in Int /\ a * D \in Int
      BY <1>1, <1>2
    <3> QED BY <1>1, <1>2, <2>2, <3>1, <3>2, <3>3
  <2> QED BY <2>1, <2>2 DEF Funded
<1>4. CASE added > 0
  <2>1. Refill(policy, now).tokens = Least(Capacity, SaturatingAdd(k, added))
    <3>1. Refill(policy, now)
            = [policy EXCEPT !.tokens = Least(Capacity, SaturatingAdd(k, added)),
                             !.last_refill = now]
      BY <1>4 DEF Refill, added
    <3> QED BY <3>1 DEF IInv, TypeOK, Policies
  <2>2. Least(Capacity, SaturatingAdd(k, added)) >= a
    BY <1>1, <1>2, <1>3 DEF Least, SaturatingAdd
  <2> QED BY <2>1, <2>2
<1>5. CASE ~(added > 0)
  <2>1. Refill(policy, now) = policy
    BY <1>5 DEF Refill, added
  <2>2. k >= a
    BY <1>1, <1>2, <1>3, <1>5
  <2> QED BY <2>1, <2>2
<1> QED BY <1>4, <1>5

LEMMA DeferredFacts ==
  ASSUME NEW p, NEW t, NEW a, Answer(p, t, a).status = "Deferred"
  PROVE  /\ a \in 1 .. Capacity
         /\ \/ t < p.next_transmit /\ Answer(p, t, a).not_before = p.next_transmit
            \/ /\ t >= p.next_transmit /\ p.tokens < a
               /\ Answer(p, t, a).not_before = TokensDue(p, t, a)
BY DEF Answer, Decision

LEMMA DeferredKeeps ==
  ASSUME IInv, Promise, PumpDeferred
  PROVE  Promise'
<1> DEFINE D == Denominator
           a == request.airtime
           n == Evaluation.decision.not_before
<1>1. policy.valid /\ request \in Requests /\ now >= request.due
  BY DEF IInv, TypeOK, PumpDeferred, Evaluation, Evaluate, Decision
<1>2. PICK r : r = Refill(policy, now)
  OBVIOUS
<1>3. Answer(r, now, a).status = "Deferred" /\ n = Answer(r, now, a).not_before
      /\ policy' = r
  BY <1>1, <1>2, EvaluateFacts DEF PumpDeferred
<1>4. /\ r \in Policies /\ r.clock_started /\ r.last_refill <= now
      /\ r.next_transmit = policy.next_transmit
  <2>1. ~Regressed(policy, now) /\ policy \in Policies /\ now \in Ticks
    BY <1>1, EvaluateFacts DEF IInv, TypeOK
  <2> QED BY <1>2, <2>1, RefillFacts
<1>5. /\ D \in Nat /\ D > 0 /\ Capacity \in Nat /\ MaxTick \in Nat
      /\ a \in Nat /\ r.tokens \in Nat /\ r.last_refill \in Nat /\ now \in Nat
      /\ now <= MaxTick /\ request.due \in Nat
      /\ r.next_transmit \in Nat /\ request.deferrals \in 0 .. 3
  <2>1. /\ a \in Airtimes /\ r.tokens \in 0 .. Capacity /\ r.last_refill \in Ticks
        /\ now \in Ticks /\ request.due \in Ticks /\ r.next_transmit \in Ticks
        /\ request.deferrals \in 0 .. 3
    BY <1>1, <1>4 DEF IInv, TypeOK, Policies, Requests, DeferralCap
  <2> QED BY <2>1, Numbers
<1>6. /\ request' = [request EXCEPT !.due = n,
                                    !.deferrals = Least(DeferralCap, @ + 1)]
      /\ now' = now
  BY DEF PumpDeferred
<1>7. /\ request'.due = n /\ request'.airtime = a
      /\ request'.deferrals = Least(DeferralCap, request.deferrals + 1)
  <2> HIDE DEF n
  <2> QED BY <1>1, <1>6 DEF Requests
<1>8. \/ now < r.next_transmit /\ n = r.next_transmit
      \/ now >= r.next_transmit /\ r.tokens < a /\ n = TokensDue(r, now, a)
  BY <1>3, DeferredFacts
<1>9. a <= Capacity
  <2>1. a \in 1 .. Capacity
    BY <1>3, DeferredFacts
  <2> QED BY <1>5, <2>1
<1> HIDE DEF n
\* A deferral for the tokens funds the request.
<1>10. ASSUME now >= r.next_transmit, r.tokens < a, n = TokensDue(r, now, a)
       PROVE  n >= r.next_transmit /\ (Funded' \/ n = MaxTick)
  <2> DEFINE w == (a - r.tokens) * D
  <2>1. w \in Nat /\ r.tokens * D + w = a * D
    <3>1. a - r.tokens \in Nat
      BY <1>5, <1>10
    <3> QED BY <1>5, <3>1
  <2>2. n = IF now > MaxTick - w THEN MaxTick ELSE now + w
    BY <1>10 DEF TokensDue, SaturatingAdd
  <2>3. r.tokens * D \in Int /\ a * D \in Int
    BY <1>5
  <2> HIDE DEF w
  <2>4. n = MaxTick \/ n = now + w
    BY <2>2
  <2>5. n >= r.next_transmit
    BY <1>5, <1>10, <2>1, <2>4
  <2>6. ASSUME n = now + w PROVE Funded'
    <3>1. r.tokens * D + (n - r.last_refill) >= a * D
      BY <1>4, <1>5, <2>1, <2>3, <2>6
    <3> QED BY <1>3, <1>7, <3>1 DEF Funded
  <2> QED BY <2>4, <2>5, <2>6
<1>11. n >= r.next_transmit
  BY <1>5, <1>8, <1>10
<1>12. ASSUME request.deferrals >= 1
       PROVE  Funded' \/ n = MaxTick
  <2>1. request # NoRequest /\ request.due >= policy.next_transmit
    BY <1>12 DEF PumpDeferred, Promise
  <2>2. ~(now < r.next_transmit)
    BY <1>1, <1>4, <1>5, <2>1
  <2> QED BY <1>8, <1>10, <2>2
<1>13. ASSUME request.deferrals >= 2
       PROVE  now = MaxTick
  <2>1. /\ request.due >= policy.next_transmit /\ policy.clock_started
        /\ Funded \/ request.due = MaxTick
    BY <1>5, <1>13 DEF PumpDeferred, Promise
  <2>2. ~(now < r.next_transmit)
    BY <1>1, <1>4, <1>5, <2>1
  <2>3. r.tokens < a
    BY <1>8, <2>2
  <2>4. ~Funded
    <3> SUFFICES ASSUME Funded PROVE FALSE
      OBVIOUS
    <3>1. r.tokens >= a
      BY <1>1, <1>2, <1>9, <2>1, RefillFunds
    <3> QED BY <1>5, <2>3, <3>1
  <2> QED BY <1>1, <1>5, <2>1, <2>4
<1>14. /\ request'.deferrals >= 2 => request.deferrals >= 1
       /\ request'.deferrals >= 3 => request.deferrals >= 2
  BY <1>5, <1>7 DEF Least, DeferralCap
<1> QED BY <1>3, <1>4, <1>6, <1>7, <1>11, <1>12, <1>13, <1>14 DEF Promise

LEMMA NextPromise == IInv /\ Promise /\ [Next]_vars => Promise'
<1> SUFFICES ASSUME IInv, Promise, [Next]_vars PROVE Promise'
  OBVIOUS
<1>1. CASE \E a \in Airtimes : Request(a)
  <2>1. PICK a \in Airtimes : request' = [airtime |-> a, due |-> now, deferrals |-> 0]
    BY <1>1 DEF Request
  <2>2. request'.deferrals = 0
    BY <2>1
  <2> QED BY <2>2 DEF Promise
<1>2. CASE Abandon \/ PumpRefused \/ PumpAccepted
  BY <1>2 DEF Abandon, PumpRefused, PumpAccepted, Promise, NoRequest
<1>3. CASE PumpDeferred
  BY <1>3, DeferredKeeps
<1>4. CASE PumpNotAccepted
  <2>1. /\ policy.valid /\ now' = now /\ request' = request
        /\ policy' = Evaluation.policy /\ now >= request.due
        /\ request # NoRequest /\ Evaluation.decision.status = "Allowed"
    BY <1>4, AllowedFacts DEF PumpNotAccepted
  <2>2. PICK r : r = Refill(policy, now)
    OBVIOUS
  <2>3. policy' = r /\ r.tokens >= request.airtime
    <3>1. policy' = r /\ request.airtime <= r.tokens
      BY <2>1, <2>2, EvaluateFacts, AllowedFacts
    <3>2. r \in Policies /\ request \in Requests
      BY <2>1, <2>2, RefillCovered DEF IInv, TypeOK
    <3>3. r.tokens \in Nat /\ request.airtime \in Nat
      <4>1. r.tokens \in 0 .. Capacity /\ request.airtime \in Airtimes
        BY <3>2 DEF Policies, Requests
      <4> QED BY <4>1, Numbers
    <3> QED BY <3>1, <3>3
  <2>4. r.clock_started /\ r.next_transmit = policy.next_transmit
    <3>1. ~Regressed(policy, now) /\ policy \in Policies /\ now \in Ticks
      BY <2>1, EvaluateFacts DEF IInv, TypeOK
    <3> QED BY <2>2, <3>1, RefillFacts
  <2>5. Funded'
    BY <2>1, <2>3 DEF Funded
  <2> QED BY <2>1, <2>3, <2>4, <2>5 DEF Promise
<1>5. CASE \E t \in Ticks, a \in Airtimes : EvaluateInThePast(t, a)
  <2>1. policy' = [policy EXCEPT !.valid = FALSE] /\ now' = now /\ request' = request
    BY <1>5 DEF EvaluateInThePast, Evaluate
  <2>2. /\ policy'.clock_started = policy.clock_started
        /\ policy'.last_refill = policy.last_refill
        /\ policy'.tokens = policy.tokens
        /\ policy'.next_transmit = policy.next_transmit
    BY <2>1 DEF IInv, TypeOK, Policies
  <2> QED BY <2>1, <2>2 DEF Promise, Funded
<1>6. CASE AdvanceClock
  <2>1. policy' = policy /\ request' = request /\ now # MaxTick
    BY <1>6, PolicyAssumption DEF AdvanceClock, Ticks, IInv, TypeOK
  <2> QED BY <2>1 DEF Promise, Funded
<1>7. CASE OpenWindow \/ UNCHANGED vars
  BY <1>7 DEF OpenWindow, vars, Promise, Funded
<1> QED BY <1>1, <1>2, <1>3, <1>4, <1>5, <1>6, <1>7 DEF Next

\* evaluate_transmit keeps the promise of not_before_tick: a datagram that is
\* evaluated again no earlier than told is deferred once for the gap and once
\* for the tokens, until the clock ends.
THEOREM PromiseKept == Spec => []AtMostTwoDeferrals
<1>1. Init => Promise
  BY DEF Init, Promise
<1>2. IInv /\ Promise => AtMostTwoDeferrals
  <2> SUFFICES ASSUME IInv, Promise, now < MaxTick
               PROVE  request.deferrals <= 2
    BY DEF AtMostTwoDeferrals
  <2>1. now # MaxTick
    BY PolicyAssumption DEF IInv, TypeOK, Ticks
  <2>2. CASE request = NoRequest
    BY <2>2 DEF NoRequest
  <2>3. CASE request # NoRequest
    <3>1. request.deferrals \in 0 .. 3
      BY <2>3 DEF IInv, TypeOK, Requests, DeferralCap
    <3>2. ~(request.deferrals >= 3)
      BY <2>1, <2>3, <3>1 DEF Promise
    <3> QED BY <3>1, <3>2
  <2> QED BY <2>2, <2>3
<1> QED BY <1>1, <1>2, NextPromise, Invariance, PTL DEF Spec
=============================================================================
