-------------------------------- MODULE Retry --------------------------------
(***************************************************************************)
(* The delays of the retry package. A time.Duration is a signed integer    *)
(* of fixed width: an integer product that leaves the range wraps around.  *)
(* A float64 keeps as many leading bits of a number as its significand has *)
(* and is rounded to the nearest, ties to even. Neither overflow to an     *)
(* infinity, which lies above every limit, nor underflow shows here.       *)
(***************************************************************************)
EXTENDS Integers

CONSTANTS
    MaxDuration,  \* maxDuration, 2^63 - 1 in the code
    Significand   \* the integers below it are float64s, 2^53 in the code

ASSUME RetryAssumption == MaxDuration \in Nat

ASSUME FloatAssumption == Significand \in Nat \ {0} /\ Significand % 2 = 0

Duration == -(MaxDuration + 1) .. MaxDuration

\* The value of an int64 computation whose exact result is n.
Wrap(n) == ((n + MaxDuration + 1) % (2 * (MaxDuration + 1))) - (MaxDuration + 1)

ClampDuration(delay) == IF delay < 0 THEN 0 ELSE delay

AtLeastOne(attempt) == IF attempt < 1 THEN 1 ELSE attempt

\* The cap max, or none.
Limit(max) == IF max > 0 THEN max ELSE MaxDuration

Constant(delay) == ClampDuration(delay)

\* Mutant: the product is capped after it has been computed.
LinearMultipliesFirst(s, max, attempt) ==
    LET product == Wrap(AtLeastOne(attempt) * ClampDuration(s))
    IN  IF product > Limit(max) THEN Limit(max) ELSE ClampDuration(product)

Linear(s, max, attempt) ==
    LET n == AtLeastOne(attempt)
    IN  IF s <= 0 THEN 0
        ELSE IF n > Limit(max) \div s THEN Limit(max)
        ELSE Wrap(n * s)

Power(base) ==
    LET power[n \in Nat] == IF n = 0 THEN 1 ELSE base * power[n - 1]
    IN  power

\* The float64s next to n are the multiples of u.
IsUnit(u, n) == n < Significand * u /\ (u = 1 \/ Significand * u <= 2 * n)

Unit(n) == Power(2)[CHOOSE k \in 0 .. n : IsUnit(Power(2)[k], n)]

\* The multiple of u nearest to n, the even one of two.
RoundTo(u, n) ==
    LET q == n \div u
        r == 2 * (n % u)
    IN  IF r < u \/ (r = u /\ q % 2 = 0) THEN q * u ELSE (q + 1) * u

\* The float64 nearest to n. That of n / 2^k is Float(n) / 2^k.
Float(n) == RoundTo(Unit(n), n)

\* durationFromBackoffFloat: the conversion of a float64 drops its fraction, and
\* delay is the float64 without it; the limit is rounded to be compared with it.
FromFloat(delay, limit) ==
    IF delay >= Float(limit) THEN limit ELSE IF delay <= 0 THEN 0 ELSE delay

\* A multiplier is given in quarters.
AtLeastWhole(multiplier) == IF multiplier < 4 THEN 4 ELSE multiplier

\* The initial delay is rounded, the power is (math.Pow, taken to return the
\* float64 nearest to it), and so is their product.
Exponential(initial, multiplier, max, attempt) ==
    LET n == AtLeastOne(attempt) - 1
        factor == Float(Power(AtLeastWhole(multiplier))[n])
        delay == Float(Float(initial) * factor)
    IN  IF initial <= 0 THEN 0
        ELSE FromFloat(delay \div Power(4)[n], Limit(max))

-----------------------------------------------------------------------------
(* Jitter: the delays it may turn base into. A fraction is given in quarters, and *)
(* the product with the random factor may be any number of quarters between.      *)

Quarters(fraction) == IF fraction < 0 THEN 0 ELSE IF fraction > 4 THEN 4 ELSE fraction

Jittered(base, low, high) ==
    IF base <= 0 THEN {0}
    ELSE {FromFloat(Float(product) \div 4, MaxDuration) :
             product \in Float(base) * low .. Float(base) * high}

Full(base) == Jittered(base, 0, 4)
Symmetric(base, fraction) ==
    Jittered(base, 4 - Quarters(fraction), 4 + Quarters(fraction))

-----------------------------------------------------------------------------
(* configPolicy *)

\* A backoff is a record [kind, step, factor, max], factor in quarters, where kind
\* "func" stands for a function of the application that returns step.
Delay(backoff, attempt) ==
    CASE backoff.kind = "none"        -> 0
      [] backoff.kind = "func"        -> ClampDuration(backoff.step)
      [] backoff.kind = "constant"    -> Constant(backoff.step)
      [] backoff.kind = "linear"      -> Linear(backoff.step, backoff.max, attempt)
      [] backoff.kind = "exponential" ->
             Exponential(backoff.step, backoff.factor, backoff.max, attempt)

\* A jitter is a record [kind, fraction].
Apply(jitter, base) ==
    CASE jitter.kind = "none"      -> {ClampDuration(base)}
      [] jitter.kind = "full"      -> Full(base)
      [] jitter.kind = "symmetric" -> Symmetric(base, jitter.fraction)

\* NextDelay grants another attempt, if the error is retryable.
Grants(policy, attempt) ==
    policy.maxAttempts >= 2 /\ AtLeastOne(attempt) < policy.maxAttempts

NextDelays(policy, attempt) == Apply(policy.jitter, Delay(policy.backoff, attempt))
=============================================================================
