---------------------------- MODULE Subscription ----------------------------
(***************************************************************************)
(* How the notification and the analytics worker consume BUSINESS: by a    *)
(* durable consumer for each subject or, when binding to it fails, by a    *)
(* core subscription that hears only what is published while it is up.     *)
(* Each subject's messages are handled one at a time.                      *)
(***************************************************************************)
EXTENDS Naturals

CONSTANT Events     \* [subject, of]

VARIABLES
    stored,     \* copies of each event the durable consumer still owes
    heard,      \* copies of each event the core subscription has received
    mode,       \* "durable", "core", or "off"
    busy        \* how far the handler of each event has got

subscription == <<stored, heard, mode, busy>>

Positions == {"idle", "work", "ack"}

Init ==
    /\ stored = [e \in Events |-> 0]
    /\ heard = [e \in Events |-> 0]
    /\ mode = "off"
    /\ busy = [e \in Events |-> "idle"]

\* e is published.
Receive(e) ==
    /\ stored' = [stored EXCEPT ![e] = @ + 1]
    /\ heard' = IF mode = "core" THEN [heard EXCEPT ![e] = @ + 1] ELSE heard
    /\ UNCHANGED <<mode, busy>>

Start ==
    /\ mode = "off"
    /\ mode' \in {"durable", "core"}
    /\ UNCHANGED <<stored, heard, busy>>

Stop ==
    /\ mode # "off"
    /\ mode' = "off"
    /\ heard' = [e \in Events |-> 0]
    /\ busy' = [e \in Events |-> "idle"]
    /\ UNCHANGED stored

Take(e, position) ==
    /\ \A f \in Events : f.subject = e.subject => busy[f] = "idle"
    /\ \/ mode = "durable" /\ stored[e] > 0 /\ UNCHANGED heard
       \/ mode = "core" /\ heard[e] > 0 /\ heard' = [heard EXCEPT ![e] = @ - 1]
    /\ busy' = [busy EXCEPT ![e] = position]
    /\ UNCHANGED <<stored, mode>>

\* Mutant of Worked: the message is acknowledged before the work is over.
WorkedAcked(e) ==
    /\ busy[e] = "work"
    /\ stored' = IF mode = "durable" THEN [stored EXCEPT ![e] = @ - 1] ELSE stored
    /\ busy' = [busy EXCEPT ![e] = "ack"]
    /\ UNCHANGED <<heard, mode>>

Worked(e) ==
    /\ busy[e] = "work"
    /\ busy' = [busy EXCEPT ![e] = "ack"]
    /\ UNCHANGED <<stored, heard, mode>>

\* Mutant of Ack: the handler returns without acknowledging.
AckForgotten(e) ==
    /\ busy[e] = "ack"
    /\ busy' = [busy EXCEPT ![e] = "idle"]
    /\ UNCHANGED <<stored, heard, mode>>

\* A message of a core subscription cannot be acknowledged; the error is logged.
Ack(e) ==
    /\ busy[e] = "ack"
    /\ stored' = IF mode = "durable" THEN [stored EXCEPT ![e] = @ - 1] ELSE stored
    /\ busy' = [busy EXCEPT ![e] = "idle"]
    /\ UNCHANGED <<heard, mode>>

\* The handler raises, or its acknowledgement is lost: what is durable is
\* delivered once more.
Raise(e) ==
    /\ busy[e] # "idle"
    /\ busy' = [busy EXCEPT ![e] = "idle"]
    /\ UNCHANGED <<stored, heard, mode>>

\* Every variable keeps its type.
TypeOK ==
    /\ stored \in [Events -> Nat]
    /\ heard \in [Events -> Nat]
    /\ mode \in {"durable", "core", "off"}
    /\ busy \in [Events -> Positions]
=============================================================================
