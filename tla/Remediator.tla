---------------------------- MODULE Remediator ----------------------------
(***************************************************************************)
(* agents/remediator/src: a diagnosis is answered with the proposal of an  *)
(* action, and the decision on it with the action, its verification and a  *)
(* report.  Decisions are handled one at a time (`task`); diagnoses come   *)
(* in between, whenever a decision is awaiting something.                  *)
(***************************************************************************)
EXTENDS Integers, Sequences

CONSTANTS
    Incidents,
    Matched,            \* incidents whose diagnosis a runbook matches
    TimezoneImported, MaxFaults

VARIABLES
    diagnoses,      \* incidents whose diagnosis is still to be handled
    reviews, decisions,
    active,         \* keys of active_remediations
    task,           \* what the handler of decisions is at
    executions,     \* history: how often the action of each has been run
    reports,        \* history: the last result published for each
    setbacks,       \* history: incidents a message on which was lost for good
    faults

remediatorVars == <<diagnoses, active, task, executions, reports>>

Statuses == {"approved", "rejected", "pending_human_approval"}

Results == {"success", "failed_verification", "failed_execution"}

Idle == [at |-> "idle"]

Verifying(i) == [at |-> "verify", incident |-> i]

Reporting(i, result) == [at |-> "report", incident |-> i, result |-> result]

Tasks ==
    {Idle} \union [at : {"verify"}, incident : Incidents]
        \union [at : {"report"}, incident : Incidents, result : Results]

Init ==
    /\ diagnoses = Incidents
    /\ active = {}
    /\ task = Idle
    /\ executions = [i \in Incidents |-> 0]
    /\ reports = [i \in Incidents |-> "none"]

Fault == faults < MaxFaults /\ faults' = faults + 1

Setback(i) == setbacks' = setbacks \union {i}

-----------------------------------------------------------------------------
(* _handle_diagnosis.                                                      *)

DropDiagnosis(i) ==
    /\ i \in diagnoses \ Matched
    /\ diagnoses' = diagnoses \ {i}
    /\ UNCHANGED <<reviews, decisions, active, task, executions, reports, setbacks, faults>>

Matching(i) == i \in diagnoses \intersect Matched

Requested(i) == reviews' = [reviews EXCEPT ![i] = @ + 1]

\* Unless timezone is imported the message is never built: the handler raises
\* NameError after it has stored the entry, and the diagnosis is redelivered.
Propose(i) ==
    /\ Matching(i)
    /\ active' = active \union {i}
    /\ IF TimezoneImported
       THEN Requested(i) /\ diagnoses' = diagnoses \ {i}
       ELSE UNCHANGED <<reviews, diagnoses>>
    /\ UNCHANGED <<decisions, task, executions, reports, setbacks, faults>>

\* Mutant of ProposalUnconfirmed: the entry is stored only once the review is requested.
StoredAfterwards(i) ==
    /\ TimezoneImported
    /\ Matching(i)
    /\ Fault
    /\ Requested(i) \/ UNCHANGED reviews
    /\ UNCHANGED <<diagnoses, decisions, active, task, executions, reports, setbacks>>

\* The publish fails, or its confirmation or the acknowledgement is lost.
ProposalUnconfirmed(i) ==
    /\ TimezoneImported
    /\ Matching(i)
    /\ Fault
    /\ active' = active \union {i}
    /\ Requested(i) \/ UNCHANGED reviews
    /\ UNCHANGED <<diagnoses, decisions, task, executions, reports, setbacks>>

DiagnosisExpires(i) ==
    /\ i \in diagnoses
    /\ Fault
    /\ diagnoses' = diagnoses \ {i}
    /\ Setback(i)
    /\ UNCHANGED <<reviews, decisions, active, task, executions, reports>>

-----------------------------------------------------------------------------
(* _handle_safety_decision.                                                *)

Pending(i, status) == task = Idle /\ decisions[i][status] > 0

Handled(i, status) == decisions' = [decisions EXCEPT ![i][status] = @ - 1]

\* Nothing is known of the incident, or not any more.
IgnoreDecision(i, status) ==
    /\ Pending(i, status)
    /\ i \notin active
    /\ Handled(i, status)
    /\ UNCHANGED <<diagnoses, reviews, active, task, executions, reports, setbacks, faults>>

HandleRejected(i) ==
    /\ Pending(i, "rejected")
    /\ i \in active
    /\ active' = active \ {i}
    /\ Setback(i)
    /\ Handled(i, "rejected")
    /\ UNCHANGED <<diagnoses, reviews, task, executions, reports, faults>>

\* Mutant of HandlePending: the action is run without waiting for the human.
RunPending(i) ==
    /\ Pending(i, "pending_human_approval")
    /\ i \in active
    /\ executions' = [executions EXCEPT ![i] = @ + 1]
    /\ task' = Verifying(i)
    /\ Handled(i, "pending_human_approval")
    /\ UNCHANGED <<diagnoses, reviews, active, reports, setbacks, faults>>

\* The entry stays.
HandlePending(i) ==
    /\ Pending(i, "pending_human_approval")
    /\ i \in active
    /\ Handled(i, "pending_human_approval")
    /\ UNCHANGED <<diagnoses, reviews, active, task, executions, reports, setbacks, faults>>

\* The action is run; if it cannot be, that is what is reported.
Execute(i) ==
    /\ Pending(i, "approved")
    /\ i \in active
    /\ executions' = [executions EXCEPT ![i] = @ + 1]
    /\ task' \in {Verifying(i), Reporting(i, "failed_execution")}
    /\ UNCHANGED <<diagnoses, reviews, decisions, active, reports, setbacks, faults>>

\* Mutant of Verify: not to be late after the wait, the decision is
\* acknowledged before the report too.
VerifyAcked(i) ==
    /\ task = Verifying(i)
    /\ task' \in {Reporting(i, r) : r \in {"success", "failed_verification"}}
    /\ Handled(i, "approved")
    /\ UNCHANGED <<diagnoses, reviews, active, executions, reports, setbacks, faults>>

\* After the wait, and the rollback if the checks fail.
Verify(i) ==
    /\ task = Verifying(i)
    /\ task' \in {Reporting(i, r) : r \in {"success", "failed_verification"}}
    /\ UNCHANGED <<diagnoses, reviews, decisions, active, executions, reports, setbacks, faults>>

Reported(i) == reports' = [reports EXCEPT ![i] = task.result]

AtReport(i) == \E r \in Results : task = Reporting(i, r)

Report(i) ==
    /\ TimezoneImported
    /\ AtReport(i)
    /\ Reported(i)
    /\ active' = active \ {i}
    /\ task' = Idle
    /\ Handled(i, "approved")
    /\ UNCHANGED <<diagnoses, reviews, executions, setbacks, faults>>

\* Mutant of ReportUnconfirmed: the failure is logged and the decision acknowledged.
ReportSwallowed(i) ==
    /\ AtReport(i)
    /\ Fault
    /\ task' = Idle
    /\ Handled(i, "approved")
    /\ UNCHANGED <<diagnoses, reviews, active, executions, reports, setbacks>>

\* The publish fails or goes unconfirmed: the entry stays and the decision is
\* delivered once more.
ReportUnconfirmed(i) ==
    /\ TimezoneImported
    /\ AtReport(i)
    /\ Fault
    /\ Reported(i) \/ UNCHANGED reports
    /\ task' = Idle
    /\ UNCHANGED <<diagnoses, reviews, decisions, active, executions, setbacks>>

\* The acknowledgement is lost, or AckWait expires before it.
DecisionRedelivered(i, status) ==
    /\ decisions[i][status] > 0
    /\ Fault
    /\ decisions' = [decisions EXCEPT ![i][status] = @ + 1]
    /\ UNCHANGED <<diagnoses, reviews, active, task, executions, reports, setbacks>>

\* The decision has waited for longer than its TTL.
DecisionExpires(i, status) ==
    /\ Pending(i, status)
    /\ Fault
    /\ Handled(i, status)
    /\ Setback(i)
    /\ UNCHANGED <<diagnoses, reviews, active, task, executions, reports>>

\* active_remediations is in memory; what was not acknowledged is delivered
\* once more.
Restart ==
    /\ Fault
    /\ active' = {}
    /\ setbacks' = setbacks \union active
    /\ task' = Idle
    /\ UNCHANGED <<diagnoses, reviews, decisions, executions, reports>>

Proceed(i) ==
    \/ DropDiagnosis(i) \/ Propose(i)
    \/ \E s \in Statuses : IgnoreDecision(i, s)
    \/ HandleRejected(i) \/ HandlePending(i) \/ Execute(i) \/ Verify(i) \/ Report(i)

Next ==
    \/ Restart
    \/ \E i \in Incidents :
          \/ Proceed(i)
          \/ ProposalUnconfirmed(i) \/ ReportUnconfirmed(i)
          \/ DiagnosisExpires(i)
          \/ \E s \in Statuses : DecisionRedelivered(i, s) \/ DecisionExpires(i, s)

-----------------------------------------------------------------------------

\* Every variable keeps its type.
TypeOK ==
    /\ diagnoses \subseteq Incidents
    /\ active \subseteq Incidents
    /\ task \in Tasks
    /\ executions \in [Incidents -> Nat]
    /\ reports \in [Incidents -> Results \union {"none"}]
=============================================================================
