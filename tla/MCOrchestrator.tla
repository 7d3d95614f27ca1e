--------------------------- MODULE MCOrchestrator ---------------------------
(***************************************************************************)
(* Small instances of Orchestrator for TLC: which messages may be          *)
(* published, how often, and what earlier runs left on record.             *)
(***************************************************************************)
EXTENDS Orchestrator

CONSTANTS i1, i2, i3, a1

Copies(n, kinds) == [m \in Message |-> IF m.kind \in kinds THEN n ELSE 0]

\* A repair that Safety first hands to an operator and then approves itself.
RepairPath == Copies(1, {"anomaly", "diagnosis", "pending_human_approval",
                         "approved", "success"})

\* A repair that an operator decides on, perhaps twice.
DecisionPath == Copies(1, {"anomaly", "diagnosis", "pending_human_approval",
                           "approve", "reject"})

\* Safety rejects what was proposed.
RefusalPath == Copies(1, {"anomaly", "diagnosis", "rejected"})

\* Safety approves at once and the repair succeeds.
AutomaticPath == Copies(1, {"anomaly", "diagnosis", "approved", "success"})

\* i3 comes in while the repairs under review are approved and fail.
FailurePath ==
    [m \in Message |->
        IF m.kind \in IF m.id = i3 THEN {"anomaly"} ELSE {"approved", "failed"}
        THEN 1 ELSE 0]

\* The agent_type each agent sends in its heartbeats.
Reviewers == [a \in Agents |-> "agents.safety"]

NoAgents == [a \in Agents |-> ""]

\* What earlier runs left on record: nothing, or reviews of all but i3.
NothingRecorded == [i \in Incidents |-> NoState]

ReviewsRecorded == [i \in Incidents |-> IF i = i3 THEN NoState ELSE "safety_review"]
=============================================================================
