------------------------------ MODULE Detector ------------------------------
(***************************************************************************)
(* What the metrics observer makes of a reading: AnomalyDetector compares  *)
(* it with fixed thresholds or with the readings before it, TrendPredictor *)
(* fits a line.  Readings and times are integers; quotients and roots are  *)
(* multiplied out.                                                         *)
(***************************************************************************)
EXTENDS Integers, Sequences, SequencesExt

\* The sums of the first n terms of a series.
Sums(f) ==
    LET sum[n \in 0..Len(f)] == IF n = 0 THEN 0 ELSE sum[n - 1] + f[n]
    IN  sum

Total(f) == Sums(f)[Len(f)]

\* A deque of size readings after one more.
Recorded(window, reading, size) ==
    LET longer == Append(window, reading) IN
    IF Len(longer) > size THEN Tail(longer) ELSE longer

\* The highest severity whose threshold is reached.
Severest(Reached(_), critical, warning) ==
    IF Reached(critical) THEN "critical" ELSE IF Reached(warning) THEN "warning" ELSE "none"

StaticSeverity(reading, critical, warning) ==
    Severest(LAMBDA threshold : reading >= threshold, critical, warning)

\* n squared times the sum of the squared deviations from the mean, by n.
Spread(base) ==
    Len(base) * Total([i \in DOMAIN base |-> base[i] * base[i]]) - Total(base) * Total(base)

Abs(x) == IF x < 0 THEN -x ELSE x

\* |z| >= threshold; without spread the deviation is taken to be 1/100, and a
\* baseline of zeros is never left.
Deviates(reading, base, threshold) ==
    LET n == Len(base)
        off == n * reading - Total(base)
    IN  IF Spread(base) = 0
        THEN Total(base) # 0 /\ off # 0 /\ 100 * Abs(off) >= threshold * n
        ELSE off * off * (n - 1) >= threshold * threshold * n * Spread(base)

\* The last reading of a window, against those before it.
DynamicSeverity(window, atLeast) ==
    LET base == Front(window)
        reading == window[Len(window)]
    IN  IF Len(base) < atLeast THEN "none"
        ELSE Severest(LAMBDA threshold : Deviates(reading, base, threshold), 3, 2)

\* n squared times the covariance of two series.
Covariance(f, g) ==
    Len(f) * Total([i \in DOMAIN f |-> f[i] * g[i]]) - Total(f) * Total(g)

\* At least five readings lie close to a rising line (its R2 is at least 0.7)
\* that reaches the threshold within the look-ahead.
TrendBreach(times, readings, threshold, lookAhead) ==
    LET xy == Covariance(times, readings)
        xx == Covariance(times, times)
        yy == Covariance(readings, readings)
        left == threshold - readings[Len(readings)]
    IN  /\ Len(readings) >= 5
        /\ xx # 0 /\ yy # 0 /\ 10 * xy * xy >= 7 * xx * yy
        /\ xy > 0
        /\ left >= 0 /\ left * xx <= lookAhead * xy

-----------------------------------------------------------------------------
(* What the two algorithms are meant to compute.                           *)

\* statistics.stdev, by its definition: the sum of squares of n times the
\* deviations from the mean.
SquaredDeviations(base) ==
    Total([i \in DOMAIN base |->
        (Len(base) * base[i] - Total(base)) * (Len(base) * base[i] - Total(base))])

\* The z-score is that of the definition, and it is the readings that all agree
\* that have none.
ScoreIsMeant(reading, base, threshold) ==
    LET n == Len(base)
        off == n * reading - Total(base)
    IN  /\ Spread(base) = 0 <=> \A i, j \in DOMAIN base : base[i] = base[j]
        /\ Spread(base) # 0 =>
              (Deviates(reading, base, threshold)
                 <=> off * off * (n - 1) >= threshold * threshold * SquaredDeviations(base))

\* Once n readings agree any other is reported, unless they are all 0.
LevelIsWatched(reading, n, level, threshold) ==
    Deviates(reading, [i \in 1..n |-> level], threshold) <=> level # 0 /\ reading # level

\* Readings on a line, of any slope, at times that are not all the same, are
\* announced exactly if there are enough of them and the line rises to the
\* threshold within the look-ahead.
LineIsFollowed(times, start, slope, threshold, lookAhead) ==
    LET readings == [i \in DOMAIN times |-> start + slope * times[i]]
        left == threshold - readings[Len(times)]
    IN  (\E i, j \in DOMAIN times : times[i] # times[j]) =>
            (TrendBreach(times, readings, threshold, lookAhead)
               <=> Len(times) >= 5 /\ slope > 0 /\ left \in 0..(lookAhead * slope))
=============================================================================
