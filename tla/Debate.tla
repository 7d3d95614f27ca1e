------------------------------- MODULE Debate -------------------------------
(***************************************************************************)
(* How HypothesisGenerator and DebateEngine come to a diagnosis.  What a   *)
(* model answers is arbitrary; what is made of it is not.                  *)
(***************************************************************************)
EXTENDS Integers, Sequences

Hypothesis(category, confidence) == [category |-> category, confidence |-> confidence]

\* A backend that raises leaves a diagnosis without a category.
Failure == Hypothesis("none", 0)

\* Without an API key a diagnosis is read off the metric.
Heuristic(metric) ==
    Hypothesis(
        CASE metric \in {"cpu_usage", "memory_usage"} -> "resource_exhaustion"
          [] metric \in {"error_rate", "latency_p99"} -> "application_error"
          [] metric = "http_health" -> "network"
          [] OTHER -> "unknown",
        60)

Threshold == 60

\* The collected context has none of the keys the rubric looks for, so that
\* every hypothesis gets the partial credit of the three criteria.
Rubric(hypothesis) == 20 + 15 + 15

Beats(h, g) ==
    \/ Rubric(h) > Rubric(g)
    \/ Rubric(h) = Rubric(g) /\ h.confidence > g.confidence

\* The first of the best; the sort is stable.
Winner(candidates) ==
    candidates[CHOOSE i \in DOMAIN candidates :
        /\ \A j \in DOMAIN candidates : ~Beats(candidates[j], candidates[i])
        /\ \A j \in 1..(i - 1) : Beats(candidates[i], candidates[j])]

AtMost(x, bound) == IF x > bound THEN bound ELSE x

\* The first candidate is the initial one; agreement with it adds to the
\* confidence, also when it is the initial one that wins.
Resolve(candidates) ==
    LET winner == Winner(candidates) IN
    IF winner.category = candidates[1].category
    THEN [winner EXCEPT !.confidence = AtMost(@ + 10, 100)]
    ELSE winner

Diagnosis(initial, alternatives) ==
    IF initial.confidence < Threshold THEN Resolve(<<initial>> \o alternatives) ELSE initial

-----------------------------------------------------------------------------

\* What a debate promises: one of the candidates, none surer than it, by at
\* most ten points surer than it was, and not beyond 100 unless it was.
IsSettled(candidates, outcome) ==
    \E i \in 1..Len(candidates) :
        /\ outcome.category = candidates[i].category
        /\ \A j \in 1..Len(candidates) : candidates[j].confidence <= candidates[i].confidence
        /\ outcome.confidence <= candidates[i].confidence + 10
        /\ candidates[i].confidence <= 100
              => outcome.confidence \in candidates[i].confidence..100
=============================================================================
