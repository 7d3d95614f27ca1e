--------------------------- MODULE MCRemediation ---------------------------
(***************************************************************************)
(* Remediation for TLC: diagnoses as tests/sim_e2e.py publishes them, the  *)
(* runbooks, policy and rate limits of the code.                           *)
(***************************************************************************)
EXTENDS Remediation, SafetyPolicy, Runbooks

CONSTANTS i1, i2, i3, i4

Cause(category, service, confidence) ==
    [category |-> category, service |-> service, confidence |-> confidence]

\* Two leaks in one service, a partition, and one no runbook is sure enough of.
Diagnosis ==
    [i \in Incidents |->
        CASE i \in {i1, i2} -> Cause("memory_leak", "redis", 50)
          [] i = i3 -> Cause("network_partition", "user-svc", 70)
          [] OTHER -> Cause("network_partition", "user-svc", 69)]

Proposed(i) == ActionFor(Diagnosis[i])

Fingerprints ==
    [i \in Incidents |->
        IF i \in {i1, i2} THEN <<"container_restart", "redis">>
        ELSE <<"circuit_breaker", "user-svc">>]

\* The values that Remediation.cfg gives are what the runbooks and the policy
\* make of those diagnoses.
ASSUME InstanceAssumption ==
    /\ Matched = {i \in Incidents : Proposed(i) # Unmatched}
    /\ Vetted = {i \in Matched : NeedsHuman(Proposed(i))}
    /\ \A i \in Matched : Key[i] = FingerprintOf(Proposed(i))
=============================================================================
