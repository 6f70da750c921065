------------------------------- MODULE Backoff -------------------------------
(***************************************************************************)
(* The arithmetic of delays, which each store does for itself: in memory   *)
(* with durations, in PostgreSQL with whole seconds and with a number of   *)
(* attempts computed beforehand, so that POWER stays within its range.     *)
(*                                                                         *)
(* Durations are in milliseconds, a base is a fraction <<p, q>>. Powers    *)
(* are exact here; in floating point a logarithm that should be whole may  *)
(* come out a little larger, and then one attempt more is counted.         *)
(***************************************************************************)
EXTENDS Integers

CONSTANTS
  Bases,        \* backoff bases tried
  Durations,    \* maximal delays tried
  Extras,       \* jitters and times-to-run tried; BackoffDelay takes negative ones
  MostAttempts  \* bound: the attempts tried, and the largest exponent

ASSUME BasesAssumption == Bases \subseteq (Nat \ {0}) \X (Nat \ {0})
ASSUME DurationsAssumption == Durations \subseteq Nat
ASSUME ExtrasAssumption == Extras \subseteq Int
ASSUME MostAttemptsAssumption == MostAttempts \in Nat

VARIABLE asked   \* the settings and the attempts a delay is computed for

Least(a, b) == IF a < b THEN a ELSE b
Greatest(a, b) == IF a < b THEN b ELSE a

Pow(b, k) == LET f[i \in Nat] == IF i = 0 THEN 1 ELSE b * f[i - 1] IN f[k]

\* base^k seconds, in milliseconds; k may be negative.
Power(base, k) ==
  IF k >= 0 THEN (1000 * Pow(base[1], k)) \div Pow(base[2], k)
            ELSE (1000 * Pow(base[2], -k)) \div Pow(base[1], -k)

\* int32(d.Seconds()), as a duration.
Truncated(d) == (d \div 1000) * 1000

-----------------------------------------------------------------------------
\* math.MaxInt32 where every number of attempts is fine.
NoClamp == 2147483647
ASSUME NoClampAssumption == MostAttempts <= NoClamp

\* base^k seconds are at least d.
Reaches(base, k, d) ==
  IF k >= 0 THEN 1000 * Pow(base[1], k) >= d * Pow(base[2], k)
            ELSE 1000 * Pow(base[2], -k) >= d * Pow(base[1], -k)

\* The bound is large enough for the exponents that matter: the largest reaches
\* every maximal delay, the smallest reaches none.
ASSUME ReachAssumption ==
  \A base \in Bases, d \in Durations :
    base[1] > base[2] /\ d > 0 =>
      Reaches(base, MostAttempts, d) /\ ~Reaches(base, -MostAttempts, d)

\* Mutant: rounded down, the power stops short of the maximal delay.
ClampDown(base, maxDelay) ==
  IF base[1] <= base[2] THEN NoClamp
  ELSE IF maxDelay <= 0 THEN 0
  ELSE CHOOSE k \in (-MostAttempts)..MostAttempts :
         ~Reaches(base, k, maxDelay) /\ Reaches(base, k + 1, maxDelay)

\* The logarithm of the maximal delay, rounded up: the first power of the base
\* that reaches it. For less than a second it is not positive.
ClampMaxAttempts(base, maxDelay) ==
  IF base[1] <= base[2] THEN NoClamp
  ELSE IF maxDelay <= 0 THEN 0
  ELSE CHOOSE k \in (-MostAttempts)..MostAttempts :
         Reaches(base, k, maxDelay) /\ ~Reaches(base, k - 1, maxDelay)

\* The store's own, of whole seconds.
PgClampMaxAttempts(base, maxDelay) == ClampMaxAttempts(base, Truncated(maxDelay))

\* A Retry with BackoffDelay: updateOne, and the backoff query, for jitters of
\* whole seconds. A fraction of a second is left to the type that the server
\* gives the parameter $4 beside the integer 0.
MemoryRetryDelay(base, maxDelay, jitter, n) ==
  Least(Power(base, n), maxDelay) + jitter
PgRetryDelay(base, maxDelay, jitter, n) ==
  Greatest(jitter, 0)
    + Least(Power(base, Least(n, ClampMaxAttempts(base, maxDelay))), maxDelay)

\* The lease a poll gives: for the time-to-run and the delay of the attempt.
MemoryLease(base, maxDelay, ttr, n) ==
  Least(Power(base, n), maxDelay) + ttr

\* Mutant: the maximal delay limits the lease and not the delay.
PgLeaseLimited(base, maxDelay, ttr, n) ==
  Least(Truncated(maxDelay),
        Greatest(Truncated(ttr), 0)
          + Power(base, Least(n, PgClampMaxAttempts(base, maxDelay))))

PgLease(base, maxDelay, ttr, n) ==
  Greatest(Truncated(ttr), 0)
    + Least(Truncated(maxDelay),
            Power(base, Least(n, PgClampMaxAttempts(base, maxDelay))))

-----------------------------------------------------------------------------
\* A ticket is tried as often as the bound allows, then another one with other
\* settings. The extra time is the jitter of a retry or the time-to-run of a poll.

InitBackoff == asked = [base |-> <<1, 1>>, maxDelay |-> 0, extra |-> 0, attempts |-> 0]

Configure ==
  /\ asked.attempts = MostAttempts
  /\ \E base \in Bases, maxDelay \in Durations, extra \in Extras :
       asked' = [base |-> base, maxDelay |-> maxDelay, extra |-> extra, attempts |-> 0]

Attempt ==
  /\ asked.attempts < MostAttempts
  /\ asked' = [asked EXCEPT !.attempts = @ + 1]

NextBackoff == Configure \/ Attempt

BackoffSpec == InitBackoff /\ [][NextBackoff]_asked

-----------------------------------------------------------------------------
(* Properties. *)

\* Both stores delay a retried ticket equally, at every attempt, for every
\* base and every maximal delay, also one below a second: the clamped exponent
\* never falls short of the maximal delay. Only of a negative jitter PostgreSQL
\* makes none, by GREATEST($4, 0), where updateOne adds it; the property says
\* what the delay in memory is without it.
RetryDelaysAgree ==
  asked.extra % 1000 = 0 =>
    PgRetryDelay(asked.base, asked.maxDelay, asked.extra, asked.attempts)
      = MemoryRetryDelay(asked.base, asked.maxDelay, Greatest(asked.extra, 0), asked.attempts)

\* Whole seconds are enough for a lease: although PostgreSQL drops the
\* milliseconds of the time-to-run, nobody else gets the ticket before it has
\* passed, if the delays of the attempts reach a second; and no lease is longer
\* than the one the in-memory store gives.
LeaseLongEnough ==
  LET lease == PgLease(asked.base, asked.maxDelay, asked.extra, asked.attempts)
  IN  asked.base[1] >= asked.base[2] /\ asked.maxDelay >= 1000 /\ asked.extra >= 0 =>
        /\ asked.extra <= lease
        /\ lease <= MemoryLease(asked.base, asked.maxDelay, asked.extra, asked.attempts)
=============================================================================
