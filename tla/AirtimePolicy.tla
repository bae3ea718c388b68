---------------------------- MODULE AirtimePolicy ----------------------------
(***************************************************************************)
(* adapters/radio/japan_920_radio_policy: a token bucket of calculated     *)
(* airtime (6,000 ms, refilled by elapsed / 10) with a minimum gap between *)
(* transmissions.  Its client is the scheduler, which evaluates the same   *)
(* datagram again until it is allowed, and records it, at the same tick,   *)
(* once the transport has accepted it.                                     *)
(*                                                                         *)
(* record_transmit evaluates a second time and disables the policy for     *)
(* good when that second answer is not Allowed; the model performs both    *)
(* evaluations.                                                            *)
(***************************************************************************)
EXTENDS Integers

CONSTANTS
  Airtimes,      \* the values estimated_airtime_ms returns; 0 is an error
  Capacity,      \* bucket_capacity_ms
  Denominator,   \* refill_denominator
  MinimumGap,    \* minimum_gap_ms
  MaxTick        \* numeric_limits<RadioTick>::max()

Ticks == 0 .. MaxTick

ASSUME PolicyAssumption ==
  /\ MaxTick \in Nat
  /\ Airtimes \subseteq Nat
  /\ Capacity \in 1 .. MaxTick
  /\ Denominator \in Nat \ {0}
  /\ MinimumGap \in Ticks \ {0}

VARIABLES
  now,       \* steady clock
  policy,    \* the fields of Japan920RadioPolicy
  request,   \* the datagram at the scheduler's front and when it is due
  \* History read by the properties only:
  window     \* an interval opened at some tick and the airtime sent in it

vars == <<now, policy, request, window>>

\* The history stops counting deferrals here.
DeferralCap == 3

NoRequest == [airtime |-> -1, due |-> 0, deferrals |-> 0]

Requests == [airtime : Airtimes, due : Ticks, deferrals : 0 .. DeferralCap]

Policies ==
  [tokens : 0 .. Capacity, last_refill : Ticks, next_transmit : Ticks,
   clock_started : BOOLEAN, valid : BOOLEAN]

TypeOK ==
  /\ now \in Ticks
  /\ policy \in Policies
  /\ request \in Requests \cup {NoRequest}
  /\ window \in [start : Ticks, spent : Nat]

Init ==
  /\ now \in Ticks
  /\ policy = [tokens |-> Capacity, last_refill |-> 0, next_transmit |-> 0,
               clock_started |-> FALSE, valid |-> TRUE]
  /\ request = NoRequest
  /\ window = [start |-> now, spent |-> 0]

-----------------------------------------------------------------------------
SaturatingAdd(left, right) ==
  IF left > MaxTick - right THEN MaxTick ELSE left + right

Least(a, b) == IF a < b THEN a ELSE b

\* Whole tokens only; the remainder of the division is lost when at least
\* one token was added and kept otherwise.
Mutant_Refill(p, tick) ==
  IF ~p.clock_started
  THEN [p EXCEPT !.clock_started = TRUE, !.last_refill = tick]
  ELSE LET added == (tick - p.last_refill) \div Denominator IN
       IF added > 0
       THEN [p EXCEPT !.tokens = Least(Capacity, SaturatingAdd(p.tokens, added))]
       ELSE p
Mutant_RefillUncapped(p, tick) ==
  IF ~p.clock_started
  THEN [p EXCEPT !.clock_started = TRUE, !.last_refill = tick]
  ELSE LET added == (tick - p.last_refill) \div Denominator IN
       IF added > 0
       THEN [p EXCEPT !.tokens = SaturatingAdd(p.tokens, added),
                      !.last_refill = tick]
       ELSE p
Refill(p, tick) ==
  IF ~p.clock_started
  THEN [p EXCEPT !.clock_started = TRUE, !.last_refill = tick]
  ELSE LET added == (tick - p.last_refill) \div Denominator IN
       IF added > 0
       THEN [p EXCEPT !.tokens = Least(Capacity, SaturatingAdd(p.tokens, added)),
                      !.last_refill = tick]
       ELSE p

Regressed(p, tick) == p.clock_started /\ tick < p.last_refill

Decision(s, t) == [status |-> s, not_before |-> t]

\* The tick at which the missing tokens will have been added.
Mutant_TokensDue(p, tick, airtime) == SaturatingAdd(tick, airtime - p.tokens)
TokensDue(p, tick, airtime) ==
  SaturatingAdd(tick, (airtime - p.tokens) * Denominator)

\* The answer of evaluate_transmit, given the policy after refill.
Answer(p, tick, airtime) ==
  CASE airtime = 0 \/ airtime > Capacity -> Decision("Invalid", 0)
    [] airtime \in 1 .. Capacity /\ tick < p.next_transmit ->
         Decision("Deferred", p.next_transmit)
    [] airtime \in 1 .. Capacity /\ tick >= p.next_transmit
         /\ p.tokens < airtime ->
         Decision("Deferred", TokensDue(p, tick, airtime))
    [] OTHER -> Decision("Allowed", tick)

\* evaluate_transmit: the policy it leaves behind and its answer.
Evaluate(p, tick, airtime) ==
  IF ~p.valid
  THEN [policy |-> p, decision |-> Decision("Invalid", 0)]
  ELSE IF Regressed(p, tick)
  THEN [policy |-> [p EXCEPT !.valid = FALSE], decision |-> Decision("Locked", 0)]
  ELSE [policy |-> Refill(p, tick),
        decision |-> Answer(Refill(p, tick), tick, airtime)]

\* record_transmit.
Mutant_RecordChargesFirst(p, tick, airtime) ==
  LET charged == [p EXCEPT !.tokens = @ - airtime,
                           !.next_transmit = SaturatingAdd(tick, MinimumGap)]
      e == Evaluate(charged, tick, airtime)
  IN IF e.decision.status # "Allowed" THEN [e.policy EXCEPT !.valid = FALSE]
     ELSE e.policy
Record(p, tick, airtime) ==
  LET e == Evaluate(p, tick, airtime) IN
  IF ~p.valid THEN p
  ELSE IF e.decision.status # "Allowed" THEN [e.policy EXCEPT !.valid = FALSE]
  ELSE [e.policy EXCEPT !.tokens = @ - airtime,
                        !.next_transmit = SaturatingAdd(tick, MinimumGap)]

-----------------------------------------------------------------------------
\* A datagram reaches the front of the scheduler.
Request(airtime) ==
  /\ request = NoRequest
  /\ request' = [airtime |-> airtime, due |-> now, deferrals |-> 0]
  /\ UNCHANGED <<now, policy, window>>

\* Its post is dropped (deadline, closed transport, cancel_all).
Abandon ==
  /\ request # NoRequest
  /\ request' = NoRequest
  /\ UNCHANGED <<now, policy, window>>

Evaluation == Evaluate(policy, now, request.airtime)

PumpDeferred ==
  /\ request # NoRequest /\ now >= request.due
  /\ Evaluation.decision.status = "Deferred"
  /\ policy' = Evaluation.policy
  /\ request' = [request EXCEPT !.due = Evaluation.decision.not_before,
                                !.deferrals = Least(DeferralCap, @ + 1)]
  /\ UNCHANGED <<now, window>>

PumpRefused ==
  /\ request # NoRequest /\ now >= request.due
  /\ Evaluation.decision.status \in {"Locked", "Invalid"}
  /\ policy' = Evaluation.policy
  /\ request' = NoRequest
  /\ UNCHANGED <<now, window>>

\* Allowed, but the transport does not take the datagram.
PumpNotAccepted ==
  /\ request # NoRequest /\ now >= request.due
  /\ Evaluation.decision.status = "Allowed"
  /\ policy' = Evaluation.policy
  /\ UNCHANGED <<now, request, window>>

PumpAccepted ==
  /\ request # NoRequest /\ now >= request.due
  /\ Evaluation.decision.status = "Allowed"
  /\ policy' = Record(Evaluation.policy, now, request.airtime)
  /\ request' = NoRequest
  /\ window' = [window EXCEPT !.spent = @ + request.airtime]
  /\ UNCHANGED now

\* A call with a tick before the last refill; the steady clock of the program
\* never makes one.
EvaluateInThePast(tick, airtime) ==
  /\ policy.valid /\ Regressed(policy, tick)
  /\ policy' = Evaluate(policy, tick, airtime).policy
  /\ UNCHANGED <<now, request, window>>

AdvanceClock ==
  /\ \E t \in Ticks : t > now /\ now' = t
  /\ UNCHANGED <<policy, request, window>>

\* Start observing: the properties hold for every interval.
OpenWindow ==
  /\ window' = [start |-> now, spent |-> 0]
  /\ UNCHANGED <<now, policy, request>>

Next ==
  \/ \E a \in Airtimes : Request(a)
  \/ Abandon
  \/ PumpDeferred
  \/ PumpRefused
  \/ PumpNotAccepted
  \/ PumpAccepted
  \/ \E t \in Ticks, a \in Airtimes : EvaluateInThePast(t, a)
  \/ AdvanceClock
  \/ OpenWindow

Spec == Init /\ [][Next]_vars

-----------------------------------------------------------------------------
\* The long-term budget: over any interval the airtime sent is at most one
\* full bucket plus elapsed / Denominator, rounded up.
AirtimeBudget ==
  window.spent * Denominator
    <= Capacity * Denominator + (now - window.start) + Denominator - 1

\* The second evaluation, inside record_transmit, never contradicts the one
\* that allowed the datagram: only a clock that runs backwards disables the
\* policy.
OnlyRegressionDisables ==
  [][policy.valid /\ ~policy'.valid
       => \E t \in Ticks, a \in Airtimes : EvaluateInThePast(t, a)]_vars

\* not_before_tick is a promise: a datagram that is evaluated again no earlier
\* than told is deferred once for the gap and once for the tokens, never more.
AtMostTwoDeferrals == now < MaxTick => request.deferrals <= 2

\* "calculated-airtime budget of 6 seconds per 60 seconds": in an interval no
\* longer than it takes to fill the bucket, at most one bucket is sent.
BudgetPerPeriod ==
  now - window.start <= Capacity * Denominator => window.spent <= Capacity
=============================================================================
