----------------------------- MODULE Detection -----------------------------
(***************************************************************************)
(* From a condition in the services to its diagnosis: an Observer, the     *)
(* Diagnoser, and the orchestrator, which writes a row of its own for each *)
(* anomaly into the table that the Diagnoser correlates with.              *)
(***************************************************************************)
EXTENDS Naturals, Sequences

CONSTANTS Alerts, Severity, Batches, Lasting, Trends, Silence, Backlog, Rows, Window, MaxFaults

ASSUME WindowAssumption == Silence \in Nat \ {0} /\ Window \in Nat

ASSUME BoundsAssumption == MaxFaults \in Nat /\ Backlog \in Nat \ {0}

ASSUME BatchAssumption == Batches \in Seq(SUBSET Alerts) \ {<<>>}

ASSUME AlertAssumption ==
    /\ Severity \in [Alerts -> 0..3]
    /\ Trends \subseteq Alerts /\ Lasting \subseteq Alerts
    /\ \A a \in Alerts : \E n \in DOMAIN Batches : a \in Batches[n]

VARIABLES age, cycle, todo, queue, theirs, rows, busy, faults

Observers == INSTANCE Observer

RCAEngine == INSTANCE Diagnoser

observerVars == <<age, cycle, todo>>

diagnoserVars == <<rows, busy>>

vars == <<observerVars, queue, theirs, diagnoserVars, faults>>

Init ==
    /\ Observers!Init
    /\ RCAEngine!Init
    /\ queue = <<>>
    /\ theirs = {}
    /\ faults = 0

\* The orchestrator's handler inserts a row, and commits its next status later.
OrchestratorInserts(a) ==
    /\ a \in theirs
    /\ theirs' = theirs \ {a}
    /\ RCAEngine!Insert(RCAEngine!NewRow("orchestrator", a, Severity[a]))
    /\ UNCHANGED <<observerVars, queue, busy, faults>>

OrchestratorUpdates(r) ==
    /\ RCAEngine!Exists(r) /\ rows[r].owner = "orchestrator" /\ rows[r].status = "detecting"
    /\ rows' = [rows EXCEPT ![r] = RCAEngine!Diagnosed(@)]
    /\ UNCHANGED <<observerVars, queue, theirs, busy, faults>>

Aged(row, n) == [row EXCEPT !.age = n]

\* A row that is older than the window is found by no query any more; it is
\* kept only while the diagnoser's handler is at work on it.
Older(r) ==
    IF ~RCAEngine!Exists(r) THEN rows[r]
    ELSE IF rows[r].age < Window THEN Aged(rows[r], rows[r].age + 1)
    ELSE IF RCAEngine!WorksOn(r) THEN Aged(rows[r], Window + 1)
    ELSE RCAEngine!NoRow

Tick ==
    /\ UNCHANGED <<cycle, todo, queue, theirs, busy, faults>>
    /\ age' = Observers!Expire
    /\ rows' = [r \in Rows |-> Older(r)]

Next ==
    \/ Observers!Next /\ UNCHANGED diagnoserVars
    \/ RCAEngine!Next /\ UNCHANGED <<observerVars, theirs>>
    \/ \E a \in Alerts : OrchestratorInserts(a)
    \/ \E r \in Rows : OrchestratorUpdates(r)
    \/ Tick

\* Time passes, JetStream delivers, and what the agents await comes to an end.
Fairness ==
    /\ WF_vars(Tick)
    /\ WF_vars(UNCHANGED diagnoserVars /\ Observers!Work)
    /\ WF_vars(UNCHANGED <<observerVars, theirs>> /\ RCAEngine!Work)

Spec == Init /\ [][Next]_vars /\ Fairness

-----------------------------------------------------------------------------

\* Every variable of the observers, of the diagnoser and of the incidents table
\* keeps its type.
TypeOK ==
    /\ Observers!TypeOK
    /\ RCAEngine!TypeOK
    /\ queue \in Seq(Alerts) /\ Len(queue) <= Backlog
    /\ theirs \subseteq Alerts
    /\ faults \in 0..MaxFaults

Incidents == {r \in Rows : RCAEngine!Exists(r)}

\* The diagnoser keeps at most one incident that its query can find: what
\* comes within the window of another anomaly joins its incident.
OneIncidentPerWindow ==
    \A r, s \in Incidents :
        /\ rows[r].owner = "diagnoser" /\ rows[r].age <= Window
        /\ rows[s].owner = "diagnoser" /\ rows[s].age <= Window
        => r = s

\* A diagnosis is published for a row that records it, and again only after a
\* fault, however often anomalies of the incident come and are redelivered.
DiagnosesAreOnRecord ==
    \A r \in Incidents :
        /\ rows[r].published > 0 => rows[r].status = "diagnosing"
        /\ rows[r].published <= 1 + faults

TakenUp(a) ==
    \E r \in Incidents : a \in rows[r].alerts /\ rows[r].status = "diagnosing"

\* A condition that lasts is announced and joins an incident under diagnosis,
\* again and again, although an alert that could not be published is silenced
\* like one that was, and an anomaly that could not be handled is acknowledged.
LastingConditionIsTakenUp == \A a \in Lasting : []<>TakenUp(a)

-----------------------------------------------------------------------------

\* docs/agents/diagnoser.md: the diagnoser persists a diagnosis and publishes
\* the result.
LastingConditionIsDiagnosed ==
    \A a \in Lasting :
        <>(\E r \in Incidents : a \in rows[r].alerts /\ rows[r].published > 0)
=============================================================================
