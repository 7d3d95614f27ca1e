---------------------------- MODULE Remediation ----------------------------
(***************************************************************************)
(* Remediator and SafetyAgent over agents.safety.reviews and               *)
(* agents.safety.decisions: from a diagnosis to the report on its repair.  *)
(***************************************************************************)
EXTENDS Integers, Sequences, FiniteSets

CONSTANTS
    Incidents, Matched, Vetted, Key,
    Limit, Cooldown, Window, MaxClock, MaxFaults, TimezoneImported

ASSUME RateAssumption ==
    /\ {Limit, Cooldown} \subseteq Nat \ {0}
    /\ Window \in Nat
    /\ Cooldown <= Window

ASSUME BoundsAssumption == {MaxClock, MaxFaults} \subseteq Nat

ASSUME IncidentAssumption == Matched \subseteq Incidents /\ Vetted \subseteq Matched

ASSUME SwitchAssumption == TimezoneImported \in BOOLEAN

VARIABLES
    clock, history, run, granted,
    reviews, decisions, setbacks, faults,
    diagnoses, active, task, executions, reports

Safety == INSTANCE SafetyAgent

Agent == INSTANCE Remediator

safetyVars == <<clock, history, run, granted>>

agentVars == <<diagnoses, active, task, executions, reports>>

vars == <<safetyVars, reviews, decisions, setbacks, faults, agentVars>>

Init ==
    /\ Safety!Init
    /\ Agent!Init
    /\ setbacks = {}
    /\ faults = 0

Next ==
    \/ Safety!Tick /\ UNCHANGED <<reviews, decisions, setbacks, faults, agentVars>>
    \/ Safety!Next /\ UNCHANGED agentVars
    \/ Agent!Next /\ UNCHANGED safetyVars

\* JetStream delivers to an agent that is up while anything is due to it, and
\* what the agent awaits comes to an end.
Fairness ==
    /\ WF_vars((\E i \in Incidents : Safety!HandleReview(i)) /\ UNCHANGED agentVars)
    /\ WF_vars((\E i \in Incidents : Agent!Proceed(i)) /\ UNCHANGED safetyVars)

Spec == Init /\ [][Next]_vars /\ Fairness

-----------------------------------------------------------------------------

\* Every variable of both agents keeps its type.
TypeOK ==
    /\ Safety!TypeOK
    /\ Agent!TypeOK
    /\ setbacks \subseteq Incidents
    /\ faults \in Nat

\* An action that the policy hands to a human is never run by the remediator,
\* whatever is redelivered or answered twice: nothing but an approval of
\* Safety's makes it run one.
VettedNeverRun == \A i \in Vetted : executions[i] = 0

Grants(i) == Cardinality({n \in DOMAIN granted : granted[n].incident = i})

\* An action runs as often as it was approved and counted against the rate
\* limit, and beyond that only when a fault has had a message handled again.
ExecutionsAreGranted ==
    \A i \in Incidents : executions[i] <= Grants(i) + faults

\* An approval is used up without the action ever having run only if its
\* entry was gone: the remediator crashed, or a message expired or came twice
\* and the second answer was a rejection.
ApprovalsAreUsed ==
    [][\A i \in Incidents :
         decisions'[i]["approved"] < decisions[i]["approved"]
            => executions[i] > 0 \/ i \in setbacks']_vars

\* The rate limiter keeps its promise in each run of the Safety agent.
KeepsRateLimit == Safety!KeepsRateLimit

\* What the remediator proposes and no human must decide on is reported on in
\* the end, although neither agent answers its message atomically with what
\* it changes, unless the limiter rejects it or a message about it is lost.
ProposedIsReported ==
    \A i \in Matched \ Vetted :
        i \in active ~> reports[i] # "none" \/ i \in setbacks
=============================================================================
