--------------------------------- MODULE Backoff ---------------------------------
(***************************************************************************)
(* The sleeps of ExponentialBackoffRetry in resilience/retry.py: the       *)
(* attempts of one call with _parse_retry_after() and _compute_delay, in   *)
(* units of time small enough for the jitter.  A number beyond the range   *)
(* of a float cannot be converted to one.                                  *)
(***************************************************************************)
EXTENDS Integers

CONSTANTS
    max_attempts,
    base_delay_seconds,
    max_delay_seconds,
    max_retry_after_seconds,
    FloatExponent,  \* 2^FloatExponent is the first power a float cannot hold
    Headers         \* Retry-After headers of the exceptions

(* A Retry-After header: none, one that does not parse, seconds, or a date *)
(* so many seconds from now.                                               *)
NoHeader == [form |-> "none", seconds |-> 0]
BadHeader == [form |-> "malformed", seconds |-> 0]

ASSUME BackoffAssumption ==
    /\ max_attempts \in Nat \ {0}
    /\ base_delay_seconds \in Nat /\ max_delay_seconds \in Nat
    /\ max_retry_after_seconds \in Nat
    /\ FloatExponent \in Nat \ {0}
    /\ \A h \in Headers : h \in {NoHeader, BadHeader}
                          \/ (h.form \in {"seconds", "date"} /\ h.seconds \in Int)

VARIABLES
    attempt,
    header,     \* of the last exception that was slept after
    delay,      \* of the last sleep
    outcome,    \* "none" while there are attempts to make
    h_slept     \* all sleeps together

backoffVars == <<attempt, header, delay, outcome, h_slept>>

Lesser(a, b) == IF a <= b THEN a ELSE b
Greater(a, b) == IF a >= b THEN a ELSE b

ParseRetryAfter(h) ==
    IF h.form \in {"none", "malformed"} \/ h.seconds < 0 THEN 0
    ELSE Lesser(h.seconds, max_retry_after_seconds)

(* An OverflowError is raised for a product with too large an integer and  *)
(* for too large an integer in a header.                                   *)
Overflows(n, h) ==
    \/ n - 1 >= FloatExponent
    \/ h.form = "seconds" /\ h.seconds >= 2 ^ FloatExponent

Exponential(n) == Lesser(base_delay_seconds * 2 ^ (n - 1), max_delay_seconds)

Hasty_WithoutJitter(n, h) == Lesser(Exponential(n), ParseRetryAfter(h))
WithoutJitter(n, h) == Greater(Exponential(n), ParseRetryAfter(h))

(* What _compute_delay may return.                                         *)
ComputeDelay(n, h) ==
    LET d == WithoutJitter(n, h) IN d .. d + d \div 2

-----------------------------------------------------------------------------
BackoffInit ==
    /\ attempt = 1 /\ header = NoHeader /\ delay = 0
    /\ outcome = "none" /\ h_slept = 0

(* fn() returns, or raises what is not retried, or for the last time.      *)
Finish ==
    /\ outcome = "none"
    /\ outcome' \in {"returned", "raised"}
    /\ UNCHANGED <<attempt, header, delay, h_slept>>

Sleep(h) ==
    /\ outcome = "none" /\ attempt < max_attempts
    /\ ~Overflows(attempt, h)
    /\ delay' \in ComputeDelay(attempt, h)
    /\ header' = h
    /\ h_slept' = h_slept + delay'
    /\ attempt' = attempt + 1
    /\ UNCHANGED outcome

(* The delay cannot be computed, or _check_budget refuses the sleep: that  *)
(* is raised in place of the exception.                                    *)
Abandon(h) ==
    /\ outcome = "none" /\ attempt < max_attempts
    /\ outcome' = IF Overflows(attempt, h) THEN "OverflowError" ELSE "no budget"
    /\ UNCHANGED <<attempt, header, delay, h_slept>>

BackoffNext == Finish \/ \E h \in Headers : Sleep(h) \/ Abandon(h)

BackoffSpec == BackoffInit /\ [][BackoffNext]_backoffVars

-----------------------------------------------------------------------------
(* A sleep is no shorter than the server asked for, as far as the limit on *)
(* that goes, nor than any earlier one needed to be, and no longer than    *)
(* half as much again as the greater of the limits; so all of them         *)
(* together are bounded too.                                               *)
SleepIsBounded ==
    LET longest == Greater(max_delay_seconds, max_retry_after_seconds)
    IN  /\ attempt > 1 =>
              /\ header.form \in {"seconds", "date"} =>
                    delay >= header.seconds \/ delay >= max_retry_after_seconds
              /\ \A n \in 1 .. attempt - 1 : delay >= Exponential(n)
              /\ 2 * delay <= 3 * longest
        /\ 2 * h_slept <= 3 * ((attempt - 1) * longest)
=============================================================================
