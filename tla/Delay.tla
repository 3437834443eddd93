------------------------------- MODULE Delay --------------------------------
(***************************************************************************)
(* How long a response takes: the delay before it and the pauses between   *)
(* the chunks of its body, with the widths of an int and of a Duration.    *)
(*                                                                         *)
(* Both have 64 bits: Half = 2^63, and Millisecond = 10^6 (small even      *)
(* numbers in TLC).  Durations are in nanoseconds.  A body is its length,  *)
(* and of its chunks only their number matters; RequestFlow has their      *)
(* contents, and how a client that leaves cuts a delay or a pause.         *)
(***************************************************************************)
EXTENDS Integers

CONSTANTS
    Half,           \* half the range of a Go int
    Millisecond,    \* time.Millisecond
    Definitions,    \* [fixed, distribution, lower, upper, chunks, total]
    Lengths         \* of bodies

\* chunks is 0 without a chunkedDribbleDelay.  The parameters of a "lognormal"
\* distribution are left out: unless sigma is 0, any number may be drawn.
ASSUME DelayAssumption ==
    /\ Half \in Nat \ {0}
    /\ Millisecond \in Nat \ {0}
    /\ Definitions \subseteq
          [fixed : (-Half)..(Half - 1), distribution : {"none", "uniform", "lognormal"},
           lower : (-Half)..(Half - 1), upper : (-Half)..(Half - 1),
           chunks : 0..(Half - 1), total : (-Half)..(Half - 1)]
    /\ Lengths \subseteq 0..(Half - 1)

Wrap(x) == ((x + Half) % (2 * Half)) - Half
Truncated(a, b) == IF a < 0 THEN -((-a) \div b) ELSE a \div b

\* What a mapping document is accepted with.
Accepted(d) ==
    /\ d.fixed >= 0
    /\ d.distribution = "uniform" => 0 <= d.lower /\ d.lower <= d.upper
    /\ d.total >= 0

milliseconds(value) == Wrap(value * Millisecond)

\* The numbers rand.Intn(n) draws from; it panics for those below 1.
Intn(n) == 0..(n - 1)

\* How many numbers a uniform distribution draws from.
UniformChoices(d) == Wrap(d.upper - d.lower + 1)

Uniform(d) ==
    IF d.upper <= d.lower
    THEN {milliseconds(d.lower)}
    ELSE {milliseconds(Wrap(d.lower + k)) : k \in Intn(UniformChoices(d))}

\* The draw panics in rand.Intn.
Panics(d) ==
    /\ d.fixed = 0
    /\ d.distribution = "uniform"
    /\ d.lower < d.upper
    /\ UniformChoices(d) <= 0

\* A float64 beyond the range of a Duration converts to its least value or to
\* its greatest, as the platform likes.
Lognormal == {milliseconds(k) : k \in {-Half} \cup 0..(Half - 1)}

\* The results InitialDuration may have.
InitialDuration(d) ==
    CASE d.fixed > 0 -> {milliseconds(d.fixed)}
      [] d.fixed = 0 /\ d.distribution = "uniform" -> Uniform(d)
      [] d.fixed = 0 /\ d.distribution = "lognormal" -> Lognormal
      [] OTHER -> {0}

\* Seeded bug: as many pauses as chunks are reckoned with.
IntervalPerChunk(d) ==
    IF d.chunks <= 1 THEN 0 ELSE Truncated(milliseconds(d.total), d.chunks)

\* The interval of ChunkedInterval.
Interval(d) ==
    IF d.chunks <= 1 THEN 0 ELSE Truncated(milliseconds(d.total), d.chunks - 1)

\* The number of writes of writeResponseBody: splitBody makes no more chunks
\* than there are bytes.
Writes(d, bytes) ==
    CASE bytes = 0 -> 0
      [] bytes = 1 \/ (bytes > 1 /\ d.chunks <= 1) -> 1
      [] OTHER -> IF d.chunks >= bytes THEN bytes ELSE d.chunks

\* delay.Sleep: a duration that is not positive is over at once.
Slept(duration) == IF duration <= 0 THEN 0 ELSE duration

\* The time writeResponseBody sleeps: after each chunk but the last.
Pauses(d, bytes) ==
    IF Writes(d, bytes) = 0 THEN 0 ELSE (Writes(d, bytes) - 1) * Slept(Interval(d))

-----------------------------------------------------------------------------
(* Properties.  The times that the definition asks for have no width.      *)
Shortest(d) == (IF d.fixed > 0 THEN d.fixed ELSE d.lower) * Millisecond
Longest(d) == (IF d.fixed > 0 THEN d.fixed ELSE d.upper) * Millisecond
Total(d) == d.total * Millisecond
Fits(duration) == duration < Half

\* A response is never delayed longer than its definition says, and not shorter
\* either as long as the longest delay is a Duration: one that is not wraps
\* around, to a shorter delay or to none.
DelayedAsDefined(d) ==
    ~ Panics(d) /\ (d.fixed > 0 \/ d.distribution = "uniform") =>
        \A drawn \in InitialDuration(d) :
            /\ Slept(drawn) <= Longest(d)
            /\ Fits(Longest(d)) => Shortest(d) <= drawn

\* The choice of a delay panics only for the one interval that has more numbers
\* than an int counts.
PanicsAtLimitOnly(d) == Panics(d) => d.fixed = 0 /\ d.lower = 0 /\ d.upper = Half - 1

\* A dribble never takes longer than its totalDuration; and when the body has a
\* byte for every chunk, it takes all of it but for what the division of
\* ChunkedInterval leaves.
DribbleTakesTotal(d, bytes) ==
    /\ Pauses(d, bytes) <= Total(d)
    /\ d.chunks \in 2..bytes /\ Fits(Total(d)) => Total(d) - Pauses(d, bytes) < d.chunks - 1

\* All of this holds of what a mapping document is accepted with.
TimedAsDefined(d, bytes) ==
    Accepted(d) => DelayedAsDefined(d) /\ PanicsAtLimitOnly(d) /\ DribbleTakesTotal(d, bytes)
=============================================================================
