------------------------------ MODULE RateLimit ------------------------------
(***************************************************************************)
(* What the rate limiter of the Safety agent promises of the approvals of  *)
(* one run of the agent: of the same action on the same target there are   *)
(* at most Limit within any Window, and no two closer than Cooldown.       *)
(***************************************************************************)
EXTENDS Integers, Sequences, FiniteSets

CONSTANTS Incidents, Keys, Limit, Cooldown, Window

VARIABLES
    clock,
    run,        \* the present run of the agent
    granted     \* every approval so far: [incident, key, at, run]

vars == <<clock, run, granted>>

Init == clock = 0 /\ run = 0 /\ granted = <<>>

Tick == clock' = clock + 1 /\ UNCHANGED <<run, granted>>

Restart == run' = run + 1 /\ UNCHANGED <<clock, granted>>

Earlier(key) ==
    {n \in DOMAIN granted : granted[n].key = key /\ granted[n].run = run}

Grant(i, key) ==
    /\ \A n \in Earlier(key) : clock - granted[n].at >= Cooldown
    /\ Cardinality({n \in Earlier(key) : granted[n].at > clock - Window}) < Limit
    /\ granted' = Append(granted, [incident |-> i, key |-> key, at |-> clock, run |-> run])
    /\ UNCHANGED <<clock, run>>

Next == Tick \/ Restart \/ \E i \in Incidents, key \in Keys : Grant(i, key)

Spec == Init /\ [][Next]_vars
=============================================================================
