---------------------------- MODULE SafetyAgent ----------------------------
(***************************************************************************)
(* agents/safety/src: a review request is judged by the rate limiter, then *)
(* by the policy, and the decision published.  The limiter's history is in *)
(* memory; it counts an approval before the approval is published.         *)
(***************************************************************************)
EXTENDS Integers, Sequences, FiniteSets

CONSTANTS
    Incidents,          \* correlation ids
    Vetted,             \* incidents whose action the policy hands to a human
    Key,                \* Key[i]: the fingerprint of that action, type and target
    Limit,              \* limit_per_hour
    Cooldown, Window,   \* cooldown_mins and the hour, in ticks of the clock
    MaxClock,           \* how far the clock runs (bound)
    MaxFaults,          \* failed calls, lost acks, expiries, crashes (bound)
    TimezoneImported    \* does the code import what it stamps its times with?

VARIABLES
    clock,
    reviews,        \* review requests of each incident still to be answered
    decisions,      \* decisions of each incident and kind still to be handled
    history,        \* RateLimiter.action_history
    run,            \* starts of the agent so far
    granted,        \* history: every approval counted
    setbacks,       \* history: incidents a message on which was lost for good
    faults

Statuses == {"approved", "rejected", "pending_human_approval"}

agentVars == <<clock, history, run, granted>>

Init ==
    /\ clock = 0
    /\ reviews = [i \in Incidents |-> 0]
    /\ decisions = [i \in Incidents |-> [s \in Statuses |-> 0]]
    /\ history = {}
    /\ run = 0
    /\ granted = <<>>

Fault == faults < MaxFaults /\ faults' = faults + 1

Tick == clock < MaxClock /\ clock' = clock + 1 /\ UNCHANGED <<history, run, granted>>

-----------------------------------------------------------------------------

\* What is left of the history once it is pruned.
Recent == {h \in history : h.at > clock - Window}

Alike(i) == {h \in Recent : h.key = Key[i]}

\* Mutant of Allowed: the limit is checked and the cooldown is not.
AllowedInWindow(i) == Cardinality(Alike(i)) < Limit

Allowed(i) ==
    /\ Cardinality(Alike(i)) < Limit
    /\ \A h \in Alike(i) : clock - h.at >= Cooldown

Verdict(i) ==
    IF ~Allowed(i) THEN "rejected"
    ELSE IF i \in Vetted THEN "pending_human_approval" ELSE "approved"

\* Mutant of Evaluate: an approval is not counted.
Uncounted(i) == history' = Recent /\ UNCHANGED granted

\* RateLimiter.check prunes; RateLimiter.record counts an approval.
Evaluate(i) ==
    IF Verdict(i) = "approved"
    THEN /\ history' = Recent \union {[key |-> Key[i], at |-> clock]}
         /\ granted' = Append(granted, [incident |-> i, key |-> Key[i],
                                        at |-> clock, run |-> run])
    ELSE history' = Recent /\ UNCHANGED granted

Decided(i) == decisions' = [decisions EXCEPT ![i][Verdict(i)] = @ + 1]

HandleReview(i) ==
    /\ TimezoneImported
    /\ reviews[i] > 0
    /\ Evaluate(i)
    /\ Decided(i)
    /\ reviews' = [reviews EXCEPT ![i] = @ - 1]
    /\ UNCHANGED <<clock, run, setbacks, faults>>

\* The publish fails, or its confirmation or the acknowledgement is lost: the
\* request is delivered once more.
ReviewUnconfirmed(i) ==
    /\ TimezoneImported
    /\ reviews[i] > 0
    /\ Fault
    /\ Evaluate(i)
    /\ Decided(i) \/ UNCHANGED decisions
    /\ UNCHANGED <<clock, reviews, run, setbacks>>

\* The request has waited for longer than its TTL.
ReviewExpires(i) ==
    /\ reviews[i] > 0
    /\ Fault
    /\ reviews' = [reviews EXCEPT ![i] = @ - 1]
    /\ setbacks' = setbacks \union {i}
    /\ UNCHANGED <<clock, decisions, history, run, granted>>

Restart ==
    /\ Fault
    /\ history' = {}
    /\ run' = run + 1
    /\ UNCHANGED <<clock, reviews, decisions, granted, setbacks>>

Next ==
    \/ Restart
    \/ \E i \in Incidents :
          HandleReview(i) \/ ReviewUnconfirmed(i) \/ ReviewExpires(i)

-----------------------------------------------------------------------------

\* Every variable keeps its type.
TypeOK ==
    /\ clock \in Nat
    /\ reviews \in [Incidents -> Nat]
    /\ decisions \in [Incidents -> [Statuses -> Nat]]
    /\ \A h \in history : h.at \in Nat
    /\ run \in Nat
    /\ granted \in Seq([incident : Incidents, key : {Key[i] : i \in Incidents},
                        at : Nat, run : Nat])

Promise == INSTANCE RateLimit WITH Keys <- {Key[i] : i \in Incidents}

\* However requests are redelivered, repeated or fail to be answered, one run
\* of the agent never approves the same action on the same target more often
\* than the limiter allows.
KeepsRateLimit == Promise!Spec
=============================================================================
