------------------------------ MODULE Observer ------------------------------
(***************************************************************************)
(* An observer: it polls its sources one after another and announces each  *)
(* alert it finds on agents.observer.anomalies, once in a window of time.  *)
(* The metrics, log, health and synthetic observers differ in their        *)
(* Batches: what one query, or one round of probes, can report.            *)
(***************************************************************************)
EXTENDS Naturals, Sequences

CONSTANTS
    Alerts,     \* fingerprints: metric, service and severity
    Batches,    \* sequence of sets of alerts, in the order they are queried
    Lasting,    \* the alerts whose condition lasts: every query reports them
    Trends,     \* the alerts of TrendPredictor, announced at every poll
    Silence,    \* the deduplication window, in ticks
    Backlog,    \* announcements that wait for the diagnoser (bound)
    MaxFaults   \* failed calls, lost acknowledgements and crashes (bound)

VARIABLES
    age,        \* ticks since each alert was last let through, up to Silence
    cycle,      \* the batch under way, or last handled
    todo,       \* its alerts that are not handled yet
    queue,      \* announcements that the diagnoser has not acknowledged
    theirs,     \* alerts announced that the orchestrator has not handled
    faults

Init ==
    /\ age = [a \in Alerts |-> Silence]
    /\ cycle = Len(Batches)
    /\ todo = {}

Fault == faults < MaxFaults /\ faults' = faults + 1

NextBatch == (cycle % Len(Batches)) + 1

\* What a query of these alerts can report.
Reports(alerts) == {found \in SUBSET alerts : alerts \intersect Lasting \subseteq found}

\* The next source is asked; between two rounds the observer sleeps.
Poll ==
    /\ todo = {}
    /\ cycle' = NextBatch
    /\ todo' \in Reports(Batches[NextBatch])
    /\ UNCHANGED <<age, queue, theirs, faults>>

\* Prometheus or Loki does not answer: the next source is tried.
QueryFails ==
    /\ todo = {}
    /\ cycle' = NextBatch
    /\ Fault
    /\ UNCHANGED <<age, todo, queue, theirs>>

IsDuplicate(a) == a \notin Trends /\ age[a] < Silence

Suppress(a) ==
    /\ a \in todo /\ IsDuplicate(a)
    /\ todo' = todo \ {a}
    /\ UNCHANGED <<age, cycle, queue, theirs, faults>>

LetThrough(a) ==
    /\ a \in todo /\ ~IsDuplicate(a)
    /\ age' = IF a \in Trends THEN age ELSE [age EXCEPT ![a] = 0]
    /\ UNCHANGED cycle

Publish(a) ==
    /\ Len(queue) < Backlog
    /\ queue' = Append(queue, a)
    /\ theirs' = theirs \union {a}

Announce(a) ==
    /\ LetThrough(a)
    /\ todo' = todo \ {a}
    /\ Publish(a)
    /\ UNCHANGED faults

\* The publish raises, whether or not JetStream has stored the message: the
\* alert counts as seen, and the rest of its batch is skipped.
AnnounceFails(a) ==
    /\ LetThrough(a)
    /\ todo' = {}
    /\ Publish(a) \/ UNCHANGED <<queue, theirs>>
    /\ Fault

\* What was let through is remembered in memory only.
ObserverRestarts ==
    /\ Fault
    /\ age' = [a \in Alerts |-> Silence]
    /\ cycle' = Len(Batches)
    /\ todo' = {}
    /\ UNCHANGED <<queue, theirs>>

\* Mutant of Expire: an entry is renewed whenever it is looked at.
NeverExpires == [a \in Alerts |-> IF age[a] + 1 < Silence THEN age[a] + 1 ELSE age[a]]

\* The entries of the window after one more tick.
Expire == [a \in Alerts |-> IF age[a] < Silence THEN age[a] + 1 ELSE age[a]]

Work == Poll \/ \E a \in Alerts : Suppress(a) \/ Announce(a)

Next ==
    \/ Work \/ QueryFails \/ ObserverRestarts
    \/ \E a \in Alerts : AnnounceFails(a)

\* Every variable keeps its type.
TypeOK ==
    /\ age \in [Alerts -> 0..Silence]
    /\ cycle \in DOMAIN Batches
    /\ todo \subseteq Alerts
=============================================================================
