------------------------------- MODULE Backoff -------------------------------
(***************************************************************************)
(* Backoff of walastack-runtime (scheduler.rs): the delay before a retry.  *)
(* A delay is a natural number of nanoseconds; the code computes it in     *)
(* f64, which is the integer here, cast back and capped.  A factor is a    *)
(* natural number, a jitter is a number of parts of JitterUnit.            *)
(***************************************************************************)
EXTENDS Integers

CONSTANTS
    IndexBits,     \* width of retry_index, 32 in the code
    MaxNanos,      \* the largest Duration
    JitterUnit     \* jitter_fraction() is k / JitterUnit for a k below it

ASSUME BackoffAssumption ==
    IndexBits \in Nat \ {0} /\ MaxNanos \in Nat /\ JitterUnit \in Nat \ {0}

Least(x, y) == IF x <= y THEN x ELSE y

\* The powers of x: a recursive function, up to the one that is wanted.
Power(x, n) ==
    LET to[i \in 0 .. n] == IF i = 0 THEN 1 ELSE x * to[i - 1]
    IN  to[n]

\* A delay that neither shrinks nor exceeds what a Duration holds.
IsBackoff(backoff) ==
    /\ backoff.base \in 0 .. MaxNanos
    /\ \/ backoff.kind = "Linear" /\ backoff.step \in Nat
       \/ /\ backoff.kind \in {"Exponential", "ExponentialWithJitter"}
          /\ backoff.factor \in Nat \ {0} /\ backoff.max \in 0 .. MaxNanos
          /\ backoff.kind = "ExponentialWithJitter" => backoff.jitter \in Nat

\* `retry_index as i32`
FitsSigned(index) == index < Power(2, IndexBits - 1)
Signed(index) ==
    IF FitsSigned(index) THEN index ELSE index - Power(2, IndexBits)

\* factor.powi(exponent) times base; a zero factor to a negative power is
\* infinite, and what is not finite becomes max.
Scaled(base, factor, exponent, max) ==
    IF exponent >= 0 THEN base * Power(factor, exponent)
    ELSE IF factor = 0 THEN max
    ELSE base \div Power(factor, -exponent)

ExponentialDelay(base, factor, index, max) ==
    Least(Scaled(base, factor, Signed(index), max), max)

\* apply_jitter: any of the delays it may return.
Jittered(delay, jitter) ==
    {Least(delay + (delay * k * Least(jitter, JitterUnit)) \div (JitterUnit * JitterUnit),
           MaxNanos) : k \in 0 .. JitterUnit - 1}

\* Backoff::delay_for: the delays before attempt index + 2.
DelayFor(backoff, index) ==
    CASE backoff.kind = "Linear" ->
            {Least(backoff.base + Least(backoff.step * index, MaxNanos), MaxNanos)}
      [] backoff.kind = "Exponential" ->
            {ExponentialDelay(backoff.base, backoff.factor, index, backoff.max)}
      [] backoff.kind = "ExponentialWithJitter" ->
            Jittered(ExponentialDelay(backoff.base, backoff.factor, index, backoff.max),
                     backoff.jitter)
=============================================================================
