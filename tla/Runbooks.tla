------------------------------ MODULE Runbooks ------------------------------
(***************************************************************************)
(* agents/remediator: which runbook answers a diagnosis and what its first *)
(* action is, rendered for the service the diagnosis names.  The rest of   *)
(* a runbook's actions are never looked at.                                *)
(***************************************************************************)
EXTENDS Integers

\* No runbook matches: the diagnosis is dropped.
Unmatched == [type |-> "none"]

\* The template "{{diagnosis.root_cause.service}}".
Templated == "root_cause.service"

RestartOf(target, risk, approval) ==
    [type |-> "container_restart", target |-> target, risk |-> risk,
     approval_required |-> approval]

BreakerOf(target) ==
    [type |-> "circuit_breaker", target |-> target, risk |-> "high",
     approval_required |-> TRUE]

\* The files under runbooks/, by root_cause_category.
Runbooks ==
    [database_overload |->
        [confidence |-> 60, action |-> RestartOf("pgbouncer", "medium", TRUE)],
     memory_leak |->
        [confidence |-> 50, action |-> RestartOf(Templated, "low", FALSE)],
     network_partition |->
        [confidence |-> 70, action |-> BreakerOf(Templated)]]

Fits(diagnosis) ==
    /\ diagnosis.category \in DOMAIN Runbooks
    /\ diagnosis.confidence >= Runbooks[diagnosis.category].confidence

Rendered(action, diagnosis) ==
    [action EXCEPT !.target = IF @ = Templated THEN diagnosis.service ELSE @]

\* What the remediator proposes for a diagnosis.
ActionFor(diagnosis) ==
    IF Fits(diagnosis)
    THEN Rendered(Runbooks[diagnosis.category].action, diagnosis)
    ELSE Unmatched
=============================================================================
