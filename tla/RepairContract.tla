--------------------------- MODULE RepairContract ---------------------------
(***************************************************************************)
(* What the orchestrator promises about autonomous repair, without FSMs,   *)
(* database or messages: an incident is resolved only after its repair was *)
(* approved and then reported successful, a resolution is never undone,    *)
(* and it is announced only once it is on record.                          *)
(***************************************************************************)
CONSTANT
    Incidents

VARIABLES
    approved,       \* incidents whose repair Safety or an operator approved
    succeeded,      \* incidents whose repair was reported successful
    resolved,       \* incidents on record as resolved
    announced       \* incidents announced as resolved

vars == <<approved, succeeded, resolved, announced>>

Init ==
    /\ approved = {}
    /\ succeeded = {}
    /\ resolved = {}
    /\ announced = {}

Approve(i) ==
    /\ approved' = approved \union {i}
    /\ UNCHANGED <<succeeded, resolved, announced>>

Succeed(i) ==
    /\ i \in approved
    /\ succeeded' = succeeded \union {i}
    /\ UNCHANGED <<approved, resolved, announced>>

Resolve(i) ==
    /\ i \in approved \intersect succeeded
    /\ resolved' = resolved \union {i}
    /\ UNCHANGED <<approved, succeeded, announced>>

Announce(i) ==
    /\ i \in resolved
    /\ announced' = announced \union {i}
    /\ UNCHANGED <<approved, succeeded, resolved>>

Next ==
    \E i \in Incidents : Approve(i) \/ Succeed(i) \/ Resolve(i) \/ Announce(i)

Spec == Init /\ [][Next]_vars
=============================================================================
