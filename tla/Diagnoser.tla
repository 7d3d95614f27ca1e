----------------------------- MODULE Diagnoser -----------------------------
(***************************************************************************)
(* RCAEngine: each anomaly is correlated into an incident row, and a row   *)
(* that is still detecting is diagnosed.  Anomalies are handled one at a   *)
(* time; what a handler raises is logged and the message acknowledged.     *)
(***************************************************************************)
EXTENDS Naturals, Sequences

CONSTANTS
    Alerts,
    Severity,   \* of each alert, as _severity_val ranks it
    Rows,       \* row ids; a row that no query can reach is used again (bound)
    Window,     \* the correlation window, in ticks
    MaxFaults

VARIABLES
    rows,       \* the incidents table
    busy,       \* the row at which the handler of Head(queue) is, and its next step
    queue,
    faults

NoRow == [status |-> "none"]

Idle == [step |-> "idle"]

Handled == [step |-> "ack"]

Medium == 1

Init ==
    /\ rows = [r \in Rows |-> NoRow]
    /\ busy = Idle

Fault == faults < MaxFaults /\ faults' = faults + 1

\* Mutant of NewRow: a status that is none of the model's.
NewRowOpen(owner, a, severity) ==
    [owner |-> owner, status |-> "open", severity |-> severity,
     alerts |-> {a}, age |-> 0, published |-> 0]

\* "published" is history: how often the row's diagnosis has been published.
NewRow(owner, a, severity) ==
    [owner |-> owner, status |-> "detecting", severity |-> severity,
     alerts |-> {a}, age |-> 0, published |-> 0]

Fresh == CHOOSE r \in Rows : rows[r] = NoRow

Insert(row) == (\E r \in Rows : rows[r] = NoRow) /\ rows' = [rows EXCEPT ![Fresh] = row]

Exists(r) == rows[r].status # "none"

\* Mutant of Open: only incidents without a diagnosis are looked for.
OpenUndiagnosed ==
    {r \in Rows : rows[r].status = "detecting" /\ rows[r].age <= Window}

\* The incidents the query returns.
Open ==
    {r \in Rows : rows[r].status \in {"detecting", "diagnosing"} /\ rows[r].age <= Window}

Newest == {r \in Open : \A s \in Open : rows[r].age <= rows[s].age}

Larger(x, y) == IF x > y THEN x ELSE y

\* The anomaly is attached. The row is written, and its updated_at with it,
\* only if the severity goes up.
Attached(row, a) ==
    [row EXCEPT !.alerts = @ \union {a},
                !.age = IF Severity[a] > row.severity THEN 0 ELSE @,
                !.severity = Larger(Severity[a], @)]

Diagnosed(row) == [row EXCEPT !.status = "diagnosing", !.age = 0]

At(r, step) == [row |-> r, step |-> step]

WorksOn(r) == busy.step \in {"save", "publish"} /\ busy.row = r

Take(a) == busy = Idle /\ queue # <<>> /\ a = Head(queue)

\* A redelivered anomaly finds its row, and is diagnosed only if that is owed.
CorrelateFound(a) ==
    /\ Take(a)
    /\ \E r \in Newest :
          /\ rows' = [rows EXCEPT ![r] = Attached(@, a)]
          /\ busy' = IF rows[r].status = "detecting" THEN At(r, "save") ELSE Handled
    /\ UNCHANGED <<queue, faults>>

CorrelateNew(a) ==
    /\ Take(a)
    /\ Open = {}
    /\ Insert(NewRow("diagnoser", a, Larger(Medium, Severity[a])))
    /\ busy' = At(Fresh, "save")
    /\ UNCHANGED <<queue, faults>>

Correlate(a) == CorrelateFound(a) \/ CorrelateNew(a)

\* The database refuses.
CorrelateFails(a) ==
    /\ Take(a)
    /\ busy' = Handled
    /\ Fault
    /\ UNCHANGED <<rows, queue>>

\* Mutant of Save: the row is saved without its new status.
SaveDiagnosisOnly ==
    /\ busy.step = "save"
    /\ rows' = [rows EXCEPT ![busy.row].age = 0]
    /\ busy' = At(busy.row, "publish")
    /\ UNCHANGED <<queue, faults>>

\* After context, hypotheses and, below the threshold, a debate: none of them
\* fails, each has a fallback.
Save ==
    /\ busy.step = "save"
    /\ rows' = [rows EXCEPT ![busy.row] = Diagnosed(@)]
    /\ busy' = At(busy.row, "publish")
    /\ UNCHANGED <<queue, faults>>

Announced(row) == [row EXCEPT !.published = @ + 1]

Published == rows' = [rows EXCEPT ![busy.row] = Announced(@)]

PublishDiagnosis ==
    /\ busy.step = "publish"
    /\ Published
    /\ busy' = Handled
    /\ UNCHANGED <<queue, faults>>

\* The confirmation is lost: publish tries again, and JetStream stores both.
PublishAgain ==
    /\ busy.step = "publish"
    /\ Published
    /\ Fault
    /\ UNCHANGED <<busy, queue>>

\* The exception is logged; JetStream may have stored the message.
StepFails ==
    /\ \/ busy.step = "save" /\ UNCHANGED rows
       \/ busy.step = "publish" /\ (Published \/ UNCHANGED rows)
    /\ busy' = Handled
    /\ Fault
    /\ UNCHANGED queue

Ack ==
    /\ busy.step = "ack"
    /\ queue' = Tail(queue)
    /\ busy' = Idle
    /\ UNCHANGED <<rows, faults>>

\* The process dies or the acknowledgement comes too late, as it does when the
\* models take longer than ack_wait, or the anomaly was stored twice: it is
\* delivered again.
Redelivered ==
    /\ busy # Idle
    /\ busy' = Idle
    /\ queue' \in {queue, Append(Tail(queue), Head(queue))}
    /\ Fault
    /\ UNCHANGED rows

Work == (\E a \in Alerts : Correlate(a)) \/ Save \/ PublishDiagnosis \/ Ack

Next == Work \/ PublishAgain \/ StepFails \/ Redelivered \/ \E a \in Alerts : CorrelateFails(a)

Row ==
    [owner : {"diagnoser", "orchestrator"}, status : {"detecting", "diagnosing"},
     severity : Nat, alerts : SUBSET Alerts, age : 0..Window + 1, published : Nat]

\* Every variable keeps its type.
TypeOK ==
    /\ rows \in [Rows -> Row \union {NoRow}]
    /\ busy \in {Idle, Handled} \union [row : Rows,
                                step : {"save", "publish"}]
=============================================================================
