---------------------------- MODULE MCDetection ----------------------------
(***************************************************************************)
(* Detection for TLC, and the two algorithms in it over small inputs.      *)
(***************************************************************************)
EXTENDS Detection, Debate

LOCAL INSTANCE Detector

CONSTANTS trend, down, r1, r2

Ranks == [a \in {trend, down} |-> IF a = trend THEN 1 ELSE 3]

Sources == <<{trend, down}>>

-----------------------------------------------------------------------------

\* The z-score that is computed is the one that is meant.
ASSUME ScoreAssumption ==
    \A base \in [1..3 -> 0..3], reading \in 0..4, threshold \in {2, 3} :
        ScoreIsMeant(reading, base, threshold)

\* One reading that leaves a level is reported, unless the level is 0.
ASSUME LevelAssumption ==
    \A reading, level \in 0..3, n \in 1..4 : LevelIsWatched(reading, n, level, 3)

Level(n, x) == [i \in 1..n |-> x]

\* A level that shifts for good is critical twice, a warning once, and then
\* part of the baseline: a dynamic threshold does not report what lasts.
ASSUME ShiftIsAbsorbed ==
    \A old \in 1..3, new \in 0..4 :
        old # new =>
            [n \in 1..4 |-> DynamicSeverity(Level(12 - n, old) \o Level(n, new), 3)]
                = <<"critical", "critical", "warning", "none">>

\* A series that was zero is not reported, however far it goes.
ASSUME ZeroIsNeverLeft ==
    \A reading \in 0..9 : DynamicSeverity(Append(Level(11, 0), reading), 3) = "none"

\* A steady rise that reaches the threshold in time is announced, a steady
\* fall never is.
ASSUME TrendAssumption ==
    \A n \in 4..5 : \A times \in [1..n -> 0..2], slope \in -1..2, threshold \in 0..6 :
        LineIsFollowed(times, 1, slope, threshold, 2)

Hypotheses == {Failure} \union {Hypothesis(c, n) : c \in {"network", "unknown"}, n \in {1, 50, 59, 95}}

\* However many alternatives fail, a debate ends as it promises.
ASSUME DebateAssumption ==
    \A initial, first, second \in Hypotheses :
        initial.confidence < Threshold =>
            \A alternatives \in {<<>>, <<first>>, <<first, second>>} :
                IsSettled(<<initial>> \o alternatives, Diagnosis(initial, alternatives))

\* When all have failed, the failure is returned with some confidence.
ASSUME FailureIsBoosted == Diagnosis(Failure, <<Failure, Failure>>).confidence = 10

ASSUME HeuristicIsNotDebated == \A m \in {"cpu_usage", "http_health"} : Heuristic(m).confidence >= Threshold
=============================================================================
