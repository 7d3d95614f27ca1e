-------------------------- MODULE Detection_proofs --------------------------
(***************************************************************************)
(* What holds of Detection for any alerts, batches, rows and window: an    *)
(* anomaly within the window of another joins its incident, a diagnosis is *)
(* on record before it is published, a debate keeps the surest of its      *)
(* candidates, and the scores and trends of any series are those meant.    *)
(***************************************************************************)
EXTENDS Detection, Debate, TLAPS, WellFoundedInduction

Works == busy.step \in {"save", "publish"}

\* The handler is about the head of the queue, and about a row that exists.
Shape ==
    /\ busy # RCAEngine!Idle => queue # <<>>
    /\ Works => RCAEngine!Exists(busy.row)

TypeInv == TypeOK /\ Shape

\* A row that is there is a record with an owner, a status and an age.
LEMMA RowFacts ==
    ASSUME RCAEngine!TypeOK, NEW r \in Rows
    PROVE  /\ rows[r] = RCAEngine!NoRow \/ rows[r] \in RCAEngine!Row
           /\ RCAEngine!Exists(r) <=> rows[r] \in RCAEngine!Row
           /\ RCAEngine!Exists(r) <=> rows[r] # RCAEngine!NoRow
  BY DEF RCAEngine!TypeOK, RCAEngine!Row, RCAEngine!NoRow, RCAEngine!Exists

LEMMA BusyFacts ==
    ASSUME RCAEngine!TypeOK
    PROVE  /\ Works => busy.row \in Rows
           /\ busy # RCAEngine!Idle <=> busy.step # "idle"
           /\ busy = RCAEngine!Handled => ~Works
           /\ busy = RCAEngine!Idle => ~Works
           /\ \A r \in Rows : RCAEngine!WorksOn(r) <=> Works /\ busy.row = r
  BY DEF RCAEngine!TypeOK, Works, RCAEngine!Idle, RCAEngine!Handled, RCAEngine!WorksOn

\* A new incident is given a row that is not in use.
LEMMA FreshRow ==
    ASSUME \E r \in Rows : rows[r] = RCAEngine!NoRow
    PROVE  RCAEngine!Fresh \in Rows /\ rows[RCAEngine!Fresh] = RCAEngine!NoRow
  BY DEF RCAEngine!Fresh

LEMMA NextBatchFacts ==
    ASSUME Observers!TypeOK
    PROVE  /\ Observers!NextBatch \in DOMAIN Batches
           /\ Batches[Observers!NextBatch] \subseteq Alerts
           /\ Len(Batches) \in DOMAIN Batches
<1>1. Len(Batches) \in Nat \ {0} /\ DOMAIN Batches = 1..Len(Batches)
  BY BatchAssumption
<1>2. cycle \in Nat
  BY <1>1 DEF Observers!TypeOK
<1>3. cycle % Len(Batches) \in 0..Len(Batches) - 1
  BY <1>1, <1>2
<1>4. Observers!NextBatch \in 1..Len(Batches)
  BY <1>1, <1>3 DEF Observers!NextBatch
<1>5. QED
  BY <1>1, <1>4, BatchAssumption

-----------------------------------------------------------------------------
(* Types.                                                                  *)

QueueOK ==
    /\ queue \in Seq(Alerts) /\ Len(queue) <= Backlog
    /\ theirs \subseteq Alerts
    /\ faults \in 0..MaxFaults

\* What is announced gets behind what waits.
LEMMA PublishTypes ==
    ASSUME QueueOK, NEW a \in Alerts, Observers!Publish(a)
    PROVE  /\ queue' \in Seq(Alerts) /\ Len(queue') <= Backlog /\ theirs' \subseteq Alerts
           /\ queue' # <<>>
  BY BoundsAssumption DEF QueueOK, Observers!Publish

LEMMA ObserverTypes ==
    ASSUME Observers!TypeOK, QueueOK, Observers!Next
    PROVE  Observers!TypeOK' /\ QueueOK' /\ (queue # <<>> => queue' # <<>>)
<1> USE WindowAssumption, BoundsAssumption DEF QueueOK, Observers!Fault
<1>1. CASE Observers!Poll
  <2>1. todo' \subseteq Batches[Observers!NextBatch]
    BY <1>1 DEF Observers!Poll, Observers!Reports
  <2>2. QED
    BY <1>1, <2>1, NextBatchFacts DEF Observers!Poll, Observers!TypeOK
<1>2. ASSUME NEW a \in Alerts, Observers!Suppress(a)
      PROVE  Observers!TypeOK' /\ QueueOK' /\ (queue # <<>> => queue' # <<>>)
  BY <1>2 DEF Observers!Suppress, Observers!TypeOK
<1>3. ASSUME NEW a \in Alerts, Observers!LetThrough(a), todo' \subseteq todo
      PROVE  Observers!TypeOK'
  BY <1>3 DEF Observers!LetThrough, Observers!TypeOK
<1>4. ASSUME NEW a \in Alerts, Observers!Announce(a)
      PROVE  Observers!TypeOK' /\ QueueOK' /\ (queue # <<>> => queue' # <<>>)
  BY <1>3, <1>4, PublishTypes DEF Observers!Announce
<1>5. ASSUME NEW a \in Alerts, Observers!AnnounceFails(a)
      PROVE  Observers!TypeOK' /\ QueueOK' /\ (queue # <<>> => queue' # <<>>)
  <2>1. Observers!TypeOK'
    BY <1>3, <1>5 DEF Observers!AnnounceFails
  <2>2. faults' \in 0..MaxFaults
    BY <1>5 DEF Observers!AnnounceFails
  <2>3. CASE Observers!Publish(a)
    BY <2>1, <2>2, <2>3, PublishTypes
  <2>4. CASE UNCHANGED <<queue, theirs>>
    BY <2>1, <2>2, <2>4
  <2>5. QED
    BY <1>5, <2>3, <2>4 DEF Observers!AnnounceFails
<1>6. CASE Observers!QueryFails
  BY <1>6, NextBatchFacts DEF Observers!QueryFails, Observers!TypeOK
<1>7. CASE Observers!ObserverRestarts
  BY <1>7, NextBatchFacts DEF Observers!ObserverRestarts, Observers!TypeOK
<1>8. QED
  BY <1>1, <1>2, <1>4, <1>5, <1>6, <1>7 DEF Observers!Next, Observers!Work

\* What the handlers, and time, make of a row.
LEMMA AttachedRow ==
    ASSUME NEW row \in RCAEngine!Row, NEW a \in Alerts
    PROVE  /\ RCAEngine!Attached(row, a) \in RCAEngine!Row
           /\ RCAEngine!Attached(row, a).owner = row.owner
           /\ RCAEngine!Attached(row, a).status = row.status
           /\ RCAEngine!Attached(row, a).published = row.published
           /\ RCAEngine!Attached(row, a).age \in {0, row.age}
<1>1. Severity[a] \in Nat /\ row.severity \in Nat /\ 0 \in 0..Window + 1
  BY AlertAssumption, WindowAssumption DEF RCAEngine!Row
<1>2. RCAEngine!Larger(Severity[a], row.severity) \in Nat
  BY <1>1 DEF RCAEngine!Larger
<1>3. QED
  BY <1>1, <1>2 DEF RCAEngine!Attached, RCAEngine!Row

LEMMA DiagnosedRow ==
    ASSUME NEW row \in RCAEngine!Row
    PROVE  /\ RCAEngine!Diagnosed(row) \in RCAEngine!Row
           /\ RCAEngine!Diagnosed(row).owner = row.owner
           /\ RCAEngine!Diagnosed(row).status = "diagnosing"
           /\ RCAEngine!Diagnosed(row).published = row.published
           /\ RCAEngine!Diagnosed(row).age = 0
<1>1. 0 \in 0..Window + 1
  BY WindowAssumption
<1>2. QED
  BY <1>1 DEF RCAEngine!Diagnosed, RCAEngine!Row

LEMMA AnnouncedRow ==
    ASSUME NEW row \in RCAEngine!Row
    PROVE  /\ RCAEngine!Announced(row) \in RCAEngine!Row
           /\ RCAEngine!Announced(row).owner = row.owner
           /\ RCAEngine!Announced(row).status = row.status
           /\ RCAEngine!Announced(row).published = row.published + 1
           /\ RCAEngine!Announced(row).age = row.age
  BY DEF RCAEngine!Announced, RCAEngine!Row

LEMMA AgedRow ==
    ASSUME NEW row \in RCAEngine!Row, NEW n \in 0..Window + 1
    PROVE  /\ Aged(row, n) \in RCAEngine!Row
           /\ Aged(row, n).owner = row.owner
           /\ Aged(row, n).status = row.status
           /\ Aged(row, n).published = row.published
           /\ Aged(row, n).age = n
  BY DEF Aged, RCAEngine!Row

LEMMA NewRowType ==
    ASSUME NEW a \in Alerts, NEW owner \in {"diagnoser", "orchestrator"}, NEW severity \in Nat
    PROVE  RCAEngine!NewRow(owner, a, severity) \in RCAEngine!Row
  BY WindowAssumption DEF RCAEngine!NewRow, RCAEngine!Row

\* A step as the incidents see it.
FoundAt(r, a) ==
    /\ r \in RCAEngine!Newest
    /\ RCAEngine!Take(a)
    /\ rows' = [rows EXCEPT ![r] = RCAEngine!Attached(@, a)]
    /\ busy' = IF rows[r].status = "detecting" THEN RCAEngine!At(r, "save") ELSE RCAEngine!Handled
    /\ UNCHANGED faults

AnnouncedStep ==
    /\ busy.step = "publish"
    /\ RCAEngine!Published
    /\ \/ busy' = RCAEngine!Handled /\ UNCHANGED faults
       \/ busy' \in {busy, RCAEngine!Handled} /\ faults' = faults + 1

\* The handler is through, has failed or is done away with, or works no row.
NoWrite ==
    /\ UNCHANGED rows
    /\ busy' = busy \/ busy' \in {RCAEngine!Idle, RCAEngine!Handled}
    /\ faults' = faults \/ faults' = faults + 1

RowStep ==
    \/ \E r \in Rows, a \in Alerts : FoundAt(r, a)
    \/ \E a \in Alerts : RCAEngine!CorrelateNew(a)
    \/ RCAEngine!Save
    \/ AnnouncedStep
    \/ \E a \in Alerts : OrchestratorInserts(a)
    \/ \E r \in Rows : OrchestratorUpdates(r)
    \/ Tick
    \/ NoWrite

LEMMA StepCases == [Next]_vars => RowStep
<1>1. ASSUME Observers!Next PROVE faults' = faults \/ faults' = faults + 1
  BY <1>1 DEF Observers!Next, Observers!Work, Observers!Poll, Observers!Suppress, Observers!Announce,
      Observers!QueryFails, Observers!ObserverRestarts, Observers!AnnounceFails, Observers!Fault
<1>2. ASSUME RCAEngine!Next PROVE RowStep
  <2>1. ASSUME NEW a \in Alerts, RCAEngine!CorrelateFound(a) PROVE RowStep
    BY <2>1 DEF RowStep, FoundAt, RCAEngine!CorrelateFound, RCAEngine!Newest, RCAEngine!Open
  <2>2. QED
    BY <1>2, <2>1
    DEF RowStep, NoWrite, AnnouncedStep, RCAEngine!Next, RCAEngine!Work, RCAEngine!Correlate,
        RCAEngine!PublishDiagnosis, RCAEngine!PublishAgain, RCAEngine!StepFails, RCAEngine!Ack,
        RCAEngine!Redelivered, RCAEngine!CorrelateFails, RCAEngine!Fault
<1>3. QED
  BY <1>1, <1>2 DEF Next, RowStep, NoWrite, vars, diagnoserVars

\* Of what is written, every row is a row.
RowsOK ==
    /\ RCAEngine!TypeOK
    /\ Works => RCAEngine!Exists(busy.row)

LEMMA WriteTypes ==
    ASSUME RCAEngine!TypeOK, NEW r \in Rows, NEW row \in RCAEngine!Row,
           rows' = [rows EXCEPT ![r] = row]
    PROVE  /\ rows' \in [Rows -> RCAEngine!Row \union {RCAEngine!NoRow}]
           /\ rows'[r] = row
           /\ \A s \in Rows \ {r} : rows'[s] = rows[s]
           /\ \A s \in Rows : RCAEngine!Exists(s) => RCAEngine!Exists(s)'
           /\ RCAEngine!Exists(r)'
<1>1. row.status # "none"
  BY DEF RCAEngine!Row
<1>2. QED
  BY <1>1 DEF RCAEngine!TypeOK, RCAEngine!Exists

LEMMA FoundFacts ==
    ASSUME RowsOK, NEW r \in Rows, NEW a \in Alerts, FoundAt(r, a)
    PROVE  /\ RCAEngine!Exists(r) /\ rows[r] \in RCAEngine!Row
           /\ rows[r].age <= Window /\ r \in RCAEngine!Open
           /\ RCAEngine!Attached(rows[r], a) \in RCAEngine!Row
           /\ rows' = [rows EXCEPT ![r] = RCAEngine!Attached(rows[r], a)]
<1>1. RCAEngine!Exists(r) /\ r \in RCAEngine!Open /\ rows[r].age <= Window
  BY DEF FoundAt, RCAEngine!Newest, RCAEngine!Open, RCAEngine!Exists
<1>2. rows[r] \in RCAEngine!Row
  BY <1>1, RowFacts DEF RowsOK
<1>3. rows' = [rows EXCEPT ![r] = RCAEngine!Attached(rows[r], a)]
  BY DEF FoundAt
<1>4. QED
  BY <1>1, <1>2, <1>3, AttachedRow

LEMMA NewFacts ==
    ASSUME NEW a \in Alerts, RCAEngine!CorrelateNew(a)
    PROVE  \E row \in RCAEngine!Row :
              /\ row.owner = "diagnoser" /\ row.status = "detecting" /\ row.published = 0
              /\ RCAEngine!Open = {} /\ busy = RCAEngine!Idle
              /\ RCAEngine!Fresh \in Rows /\ rows[RCAEngine!Fresh] = RCAEngine!NoRow
              /\ rows' = [rows EXCEPT ![RCAEngine!Fresh] = row]
              /\ busy' = RCAEngine!At(RCAEngine!Fresh, "save")
              /\ UNCHANGED faults
<1>1. RCAEngine!Larger(RCAEngine!Medium, Severity[a]) \in Nat
  BY AlertAssumption DEF RCAEngine!Larger, RCAEngine!Medium
<1> DEFINE row == RCAEngine!NewRow("diagnoser", a, RCAEngine!Larger(RCAEngine!Medium, Severity[a]))
<1>2. row \in RCAEngine!Row
  BY <1>1, NewRowType
<1>3. row.owner = "diagnoser" /\ row.status = "detecting" /\ row.published = 0
  BY DEF RCAEngine!NewRow
<1>4. RCAEngine!Insert(row) /\ UNCHANGED faults
  BY DEF RCAEngine!CorrelateNew
<1> HIDE DEF row
<1>5. RCAEngine!Fresh \in Rows /\ rows[RCAEngine!Fresh] = RCAEngine!NoRow
  BY <1>4, FreshRow DEF RCAEngine!Insert
<1>6. QED
  BY <1>2, <1>3, <1>4, <1>5 DEF RCAEngine!CorrelateNew, RCAEngine!Take, RCAEngine!Insert

LEMMA SaveFacts ==
    ASSUME RowsOK, RCAEngine!Save
    PROVE  /\ busy.row \in Rows /\ rows[busy.row] \in RCAEngine!Row /\ RCAEngine!Exists(busy.row)
           /\ rows' = [rows EXCEPT ![busy.row] = RCAEngine!Diagnosed(rows[busy.row])]
           /\ busy' = RCAEngine!At(busy.row, "publish") /\ UNCHANGED faults
  BY RowFacts, BusyFacts DEF RCAEngine!Save, RowsOK, Works

LEMMA AnnouncedFacts ==
    ASSUME RowsOK, AnnouncedStep
    PROVE  /\ busy.row \in Rows /\ rows[busy.row] \in RCAEngine!Row /\ RCAEngine!Exists(busy.row)
           /\ rows' = [rows EXCEPT ![busy.row] = RCAEngine!Announced(rows[busy.row])]
  BY RowFacts, BusyFacts DEF AnnouncedStep, RCAEngine!Published, RowsOK, Works

LEMMA TheirFacts ==
    ASSUME NEW a \in Alerts, OrchestratorInserts(a)
    PROVE  \E row \in RCAEngine!Row :
              /\ row.owner = "orchestrator" /\ row.status = "detecting" /\ row.published = 0
              /\ RCAEngine!Fresh \in Rows /\ rows[RCAEngine!Fresh] = RCAEngine!NoRow
              /\ rows' = [rows EXCEPT ![RCAEngine!Fresh] = row]
              /\ UNCHANGED <<busy, faults>>
<1> DEFINE row == RCAEngine!NewRow("orchestrator", a, Severity[a])
<1>1. row \in RCAEngine!Row
  BY AlertAssumption, NewRowType
<1>2. row.owner = "orchestrator" /\ row.status = "detecting" /\ row.published = 0
  BY DEF RCAEngine!NewRow
<1>3. RCAEngine!Insert(row) /\ UNCHANGED <<busy, faults>>
  BY DEF OrchestratorInserts
<1> HIDE DEF row
<1>4. RCAEngine!Fresh \in Rows /\ rows[RCAEngine!Fresh] = RCAEngine!NoRow
  BY <1>3, FreshRow DEF RCAEngine!Insert
<1>5. QED
  BY <1>1, <1>2, <1>3, <1>4 DEF RCAEngine!Insert

LEMMA UpdateFacts ==
    ASSUME RowsOK, NEW r \in Rows, OrchestratorUpdates(r)
    PROVE  /\ rows[r] \in RCAEngine!Row /\ rows[r].owner = "orchestrator"
           /\ rows' = [rows EXCEPT ![r] = RCAEngine!Diagnosed(rows[r])]
           /\ UNCHANGED <<busy, faults>>
  BY RowFacts DEF OrchestratorUpdates, RowsOK

\* A tick ages a row by one, up to a tick beyond the window, or removes it.
LEMMA TickFacts ==
    ASSUME RowsOK, Tick
    PROVE  /\ rows' \in [Rows -> RCAEngine!Row \union {RCAEngine!NoRow}]
           /\ UNCHANGED <<busy, faults>>
           /\ \A r \in Rows : RCAEngine!WorksOn(r) => RCAEngine!Exists(r)'
           /\ \A r \in Rows :
                 RCAEngine!Exists(r)' =>
                    /\ RCAEngine!Exists(r)
                    /\ rows'[r].owner = rows[r].owner /\ rows'[r].status = rows[r].status
                    /\ rows'[r].published = rows[r].published
                    /\ rows'[r].age >= rows[r].age
<1>1. rows' = [r \in Rows |-> Older(r)] /\ UNCHANGED <<busy, faults>>
  BY DEF Tick
<1>2. SUFFICES ASSUME NEW r \in Rows
      PROVE  /\ Older(r) \in RCAEngine!Row \union {RCAEngine!NoRow}
             /\ RCAEngine!WorksOn(r) => Older(r).status # "none"
             /\ Older(r).status # "none" =>
                    /\ rows[r].status # "none"
                    /\ Older(r).owner = rows[r].owner /\ Older(r).status = rows[r].status
                    /\ Older(r).published = rows[r].published
                    /\ Older(r).age >= rows[r].age
  BY <1>1 DEF RCAEngine!Exists
<1>3. RCAEngine!NoRow.status = "none"
  BY DEF RCAEngine!NoRow
<1>4. CASE ~RCAEngine!Exists(r)
  <2>1. Older(r) = rows[r]
    BY <1>4 DEF Older
  <2>2. ~RCAEngine!WorksOn(r)
    BY <1>4, BusyFacts DEF RowsOK
  <2>3. QED
    BY <1>4, <2>1, <2>2 DEF RowsOK, RCAEngine!TypeOK, RCAEngine!Exists
<1>5. CASE RCAEngine!Exists(r)
  <2>1. rows[r] \in RCAEngine!Row
    BY <1>5, RowFacts DEF RowsOK
  <2>2. rows[r].age \in 0..Window + 1 /\ rows[r].status # "none"
    BY <2>1 DEF RCAEngine!Row
  <2>3. CASE rows[r].age < Window
    <3>1. Older(r) = Aged(rows[r], rows[r].age + 1)
      BY <1>5, <2>3 DEF Older
    <3>2. rows[r].age + 1 \in 0..Window + 1 /\ rows[r].age + 1 >= rows[r].age
      BY <2>2, <2>3, WindowAssumption
    <3>3. QED
      BY <2>1, <2>2, <3>1, <3>2, AgedRow
  <2>4. CASE ~(rows[r].age < Window) /\ RCAEngine!WorksOn(r)
    <3>1. Older(r) = Aged(rows[r], Window + 1)
      BY <1>5, <2>4 DEF Older
    <3>2. Window + 1 \in 0..Window + 1 /\ Window + 1 >= rows[r].age
      BY <2>2, WindowAssumption
    <3>3. QED
      BY <2>1, <2>2, <3>1, <3>2, AgedRow
  <2>5. CASE ~(rows[r].age < Window) /\ ~RCAEngine!WorksOn(r)
    BY <1>3, <1>5, <2>5 DEF Older
  <2>6. QED
    BY <2>3, <2>4, <2>5
<1>6. QED
  BY <1>4, <1>5

LEMMA RowsStep ==
    ASSUME RowsOK, RowStep
    PROVE  RowsOK'
<1> USE DEF RowsOK, RCAEngine!TypeOK, Works, RCAEngine!At, RCAEngine!Handled, RCAEngine!Idle
<1>1. ASSUME NEW r \in Rows, NEW a \in Alerts, FoundAt(r, a)
      PROVE  RowsOK'
  <2>1. /\ rows' \in [Rows -> RCAEngine!Row \union {RCAEngine!NoRow}]
        /\ RCAEngine!Exists(r)'
    BY <1>1, FoundFacts, WriteTypes
  <2>2. busy' = RCAEngine!At(r, "save") \/ busy' = RCAEngine!Handled
    BY <1>1 DEF FoundAt
  <2>3. QED
    BY <2>1, <2>2 DEF RCAEngine!Exists
<1>2. ASSUME NEW a \in Alerts, RCAEngine!CorrelateNew(a)
      PROVE  RowsOK'
  <2>1. /\ rows' \in [Rows -> RCAEngine!Row \union {RCAEngine!NoRow}]
        /\ RCAEngine!Fresh \in Rows /\ rows'[RCAEngine!Fresh].status # "none"
        /\ busy' = RCAEngine!At(RCAEngine!Fresh, "save")
    BY <1>2, NewFacts, WriteTypes DEF RCAEngine!Exists
  <2>2. QED
    BY <2>1 DEF RCAEngine!Exists
<1>3. CASE RCAEngine!Save
  <2>1. /\ rows' \in [Rows -> RCAEngine!Row \union {RCAEngine!NoRow}]
        /\ busy.row \in Rows /\ RCAEngine!Exists(busy.row)'
        /\ busy' = RCAEngine!At(busy.row, "publish")
    BY <1>3, SaveFacts, DiagnosedRow, WriteTypes
  <2>2. QED
    BY <2>1 DEF RCAEngine!Exists
<1>4. CASE AnnouncedStep
  <2>1. /\ rows' \in [Rows -> RCAEngine!Row \union {RCAEngine!NoRow}]
        /\ busy.row \in Rows /\ rows'[busy.row].status # "none"
    BY <1>4, AnnouncedFacts, AnnouncedRow, WriteTypes DEF RCAEngine!Exists
  <2>2. busy' = busy \/ busy' = RCAEngine!Handled
    BY <1>4 DEF AnnouncedStep
  <2>3. QED
    BY <2>1, <2>2 DEF RCAEngine!Exists
<1>5. ASSUME NEW a \in Alerts, OrchestratorInserts(a)
      PROVE  RowsOK'
  <2>1. /\ rows' \in [Rows -> RCAEngine!Row \union {RCAEngine!NoRow}]
        /\ \A s \in Rows : RCAEngine!Exists(s) => RCAEngine!Exists(s)'
        /\ UNCHANGED busy
    BY <1>5, TheirFacts, WriteTypes
  <2>2. QED
    BY <2>1, BusyFacts DEF RCAEngine!Exists
<1>6. ASSUME NEW r \in Rows, OrchestratorUpdates(r)
      PROVE  RowsOK'
  <2>1. /\ rows' \in [Rows -> RCAEngine!Row \union {RCAEngine!NoRow}]
        /\ \A s \in Rows : RCAEngine!Exists(s) => RCAEngine!Exists(s)'
        /\ UNCHANGED busy
    BY <1>6, UpdateFacts, DiagnosedRow, WriteTypes
  <2>2. QED
    BY <2>1, BusyFacts DEF RCAEngine!Exists
<1>7. CASE Tick
  <2>1. /\ rows' \in [Rows -> RCAEngine!Row \union {RCAEngine!NoRow}]
        /\ \A r \in Rows : RCAEngine!WorksOn(r) => RCAEngine!Exists(r)'
        /\ UNCHANGED busy
    BY <1>7, TickFacts
  <2>2. QED
    BY <2>1, BusyFacts DEF RCAEngine!Exists
<1>8. CASE NoWrite
  BY <1>8 DEF NoWrite, RCAEngine!Exists
<1>9. QED
  BY <1>1, <1>2, <1>3, <1>4, <1>5, <1>6, <1>7, <1>8 DEF RowStep

\* The handler leaves the head of the queue only when it is through with it.
LEMMA DiagnoserQueue ==
    ASSUME QueueOK, Shape, RCAEngine!Next, UNCHANGED theirs
    PROVE  QueueOK' /\ (busy # RCAEngine!Idle => queue # <<>>)'
<1> USE BoundsAssumption DEF QueueOK, RCAEngine!Fault
<1>1. CASE UNCHANGED <<queue, faults>> /\ queue # <<>>
  BY <1>1
<1>2. ASSUME NEW a \in Alerts, RCAEngine!CorrelateFails(a)
      PROVE  QueueOK' /\ queue' # <<>>
  BY <1>2 DEF RCAEngine!CorrelateFails, RCAEngine!Take
<1>3. CASE RCAEngine!PublishAgain \/ RCAEngine!StepFails
  BY <1>3 DEF RCAEngine!PublishAgain, RCAEngine!StepFails, Shape, RCAEngine!Idle
<1>4. CASE RCAEngine!Ack
  BY <1>4 DEF RCAEngine!Ack, Shape, RCAEngine!Idle
<1>5. CASE RCAEngine!Redelivered
  <2>1. queue \in Seq(Alerts) /\ queue # <<>>
    BY <1>5 DEF RCAEngine!Redelivered, Shape
  <2>2. Append(Tail(queue), Head(queue)) \in Seq(Alerts)
        /\ Len(Append(Tail(queue), Head(queue))) = Len(queue)
    BY <2>1
  <2>3. QED
    BY <1>5, <2>1, <2>2 DEF RCAEngine!Redelivered
<1>6. CASE (\E a \in Alerts : RCAEngine!Correlate(a)) \/ RCAEngine!Save \/ RCAEngine!PublishDiagnosis
  BY <1>1, <1>6
  DEF RCAEngine!Correlate, RCAEngine!CorrelateFound, RCAEngine!CorrelateNew, RCAEngine!Take,
      RCAEngine!Save, RCAEngine!PublishDiagnosis, Shape, RCAEngine!Idle
<1>7. QED
  BY <1>2, <1>3, <1>4, <1>5, <1>6 DEF RCAEngine!Next, RCAEngine!Work

LEMMA TypeInvStep ==
    ASSUME TypeInv, [Next]_vars
    PROVE  TypeInv'
<1>1. Observers!TypeOK /\ RCAEngine!TypeOK /\ QueueOK /\ Shape /\ RowsOK
  BY DEF TypeInv, TypeOK, QueueOK, Shape, RowsOK
<1>2. RowsOK'
  BY <1>1, RowsStep, StepCases
<1>3. Observers!TypeOK' /\ QueueOK' /\ (busy # RCAEngine!Idle => queue # <<>>)'
  <2>1. CASE Observers!Next /\ UNCHANGED diagnoserVars
    BY <1>1, <2>1, ObserverTypes DEF Shape, diagnoserVars, RCAEngine!Idle
  <2>2. CASE RCAEngine!Next /\ UNCHANGED <<observerVars, theirs>>
    <3>1. QueueOK' /\ (busy # RCAEngine!Idle => queue # <<>>)'
      BY <1>1, <2>2, DiagnoserQueue
    <3>2. Observers!TypeOK'
      BY <1>1, <2>2 DEF observerVars, Observers!TypeOK
    <3>3. QED
      BY <3>1, <3>2
  <2>3. ASSUME NEW a \in Alerts, OrchestratorInserts(a)
        PROVE  Observers!TypeOK' /\ QueueOK' /\ (busy # RCAEngine!Idle => queue # <<>>)'
    BY <1>1, <2>3 DEF OrchestratorInserts, observerVars, Observers!TypeOK, QueueOK, Shape, RCAEngine!Idle
  <2>4. ASSUME NEW r \in Rows, OrchestratorUpdates(r)
        PROVE  Observers!TypeOK' /\ QueueOK' /\ (busy # RCAEngine!Idle => queue # <<>>)'
    BY <1>1, <2>4 DEF OrchestratorUpdates, observerVars, Observers!TypeOK, QueueOK, Shape, RCAEngine!Idle
  <2>5. CASE Tick
    <3>1. age' \in [Alerts -> 0..Silence]
      BY <1>1, <2>5, WindowAssumption DEF Tick, Observers!Expire, Observers!TypeOK
    <3>2. QED
      BY <1>1, <2>5, <3>1 DEF Tick, Observers!TypeOK, QueueOK, Shape, RCAEngine!Idle
  <2>6. CASE UNCHANGED vars
    BY <1>1, <2>6 DEF vars, observerVars, diagnoserVars, Observers!TypeOK, QueueOK, Shape, RCAEngine!Idle
  <2>7. QED
    BY <2>1, <2>2, <2>3, <2>4, <2>5, <2>6 DEF Next
<1>4. QED
  BY <1>2, <1>3 DEF TypeInv, TypeOK, RowsOK, QueueOK, Shape

LEMMA TypeInvHolds == Spec => []TypeInv
<1>1. Init => TypeInv
  <2>1. Len(Batches) \in DOMAIN Batches
    BY BatchAssumption
  <2>2. QED
    BY <2>1, WindowAssumption, BoundsAssumption
    DEF Init, Observers!Init, RCAEngine!Init, TypeInv, TypeOK, Shape, Works,
        Observers!TypeOK, RCAEngine!TypeOK, RCAEngine!Idle
<1>2. TypeInv /\ [Next]_vars => TypeInv'
  BY TypeInvStep
<1>3. QED
  BY <1>1, <1>2, PTL DEF Spec

\* Every variable of the observers, of the diagnoser and of the incidents table
\* keeps its type.
THEOREM TypesHold == Spec => []TypeOK
<1>1. TypeInv => TypeOK
  BY DEF TypeInv
<1>2. QED
  BY <1>1, TypeInvHolds, PTL

-----------------------------------------------------------------------------
(* One incident within the window.                                         *)

Ours(r) == RCAEngine!Exists(r) /\ rows[r].owner = "diagnoser"

\* Of the diagnoser's incidents, its query can find one at most, and none
\* besides the one its handler is at, which a save brings back into the window.
OneInv ==
    \A r, s \in Rows :
        /\ Ours(r) /\ (rows[r].age <= Window \/ RCAEngine!WorksOn(r))
        /\ Ours(s) /\ rows[s].age <= Window
        => r = s

LEMMA OneStep ==
    ASSUME TypeInv, OneInv, [Next]_vars
    PROVE  OneInv'
<1>0. RowsOK /\ RCAEngine!TypeOK /\ RowsOK' /\ RCAEngine!TypeOK'
  BY TypeInvStep DEF TypeInv, TypeOK, Shape, RowsOK
<1>b. /\ \A r \in Rows : RCAEngine!WorksOn(r) <=> Works /\ busy.row = r
      /\ \A r \in Rows : RCAEngine!WorksOn(r)' <=> Works' /\ busy'.row = r
      /\ busy = RCAEngine!Idle => ~Works
      /\ busy' = RCAEngine!Idle \/ busy' = RCAEngine!Handled => ~Works'
  BY <1>0, BusyFacts DEF RCAEngine!WorksOn, Works, RCAEngine!Idle, RCAEngine!Handled
<1>a. Window \in Nat
  BY WindowAssumption
<1> USE DEF Ours, OneInv
<1>1. ASSUME NEW q \in Rows, NEW a \in Alerts, FoundAt(q, a)
      PROVE  OneInv'
  <2>1. /\ RCAEngine!Exists(q) /\ rows[q].age <= Window
        /\ rows'[q].owner = rows[q].owner /\ RCAEngine!Exists(q)'
        /\ \A s \in Rows \ {q} : rows'[s] = rows[s]
    BY <1>0, <1>1, FoundFacts, WriteTypes, AttachedRow
  <2>2. Works' => busy'.row = q
    BY <1>1 DEF FoundAt, RCAEngine!At, RCAEngine!Handled, Works
  <2>3. QED
    BY <1>b, <2>1, <2>2 DEF RCAEngine!Exists
<1>2. ASSUME NEW a \in Alerts, RCAEngine!CorrelateNew(a)
      PROVE  OneInv'
  <2> DEFINE q == RCAEngine!Fresh
  <2>1. /\ RCAEngine!Open = {} /\ q \in Rows
        /\ \A s \in Rows \ {q} : rows'[s] = rows[s]
        /\ busy' = RCAEngine!At(q, "save")
    BY <1>0, <1>2, NewFacts, WriteTypes
  <2> HIDE DEF q
  <2>2. \A s \in Rows \ {q} : RCAEngine!Exists(s) => ~(rows[s].age <= Window)
    BY <1>0, <2>1, RowFacts DEF RCAEngine!Open, RCAEngine!Row
  <2>3. \A s \in Rows \ {q} : ~RCAEngine!WorksOn(s)'
    BY <1>b, <2>1 DEF RCAEngine!At
  <2>4. \A s \in Rows : Ours(s)' /\ (rows'[s].age <= Window \/ RCAEngine!WorksOn(s)') => s = q
    BY <2>1, <2>2, <2>3 DEF RCAEngine!Exists
  <2>5. QED
    BY <2>4
<1>3. CASE RCAEngine!Save
  <2> DEFINE q == busy.row
  <2>1. /\ q \in Rows /\ rows'[q].owner = rows[q].owner
        /\ RCAEngine!Exists(q) /\ RCAEngine!WorksOn(q)
        /\ \A s \in Rows \ {q} : rows'[s] = rows[s]
        /\ busy' = RCAEngine!At(q, "publish")
    BY <1>0, <1>3, <1>b, SaveFacts, DiagnosedRow, WriteTypes DEF RCAEngine!Save, Works
  <2> HIDE DEF q
  <2>2. \A s \in Rows \ {q} : ~RCAEngine!WorksOn(s)'
    BY <1>b, <2>1 DEF RCAEngine!At
  <2>3. QED
    BY <2>1, <2>2 DEF RCAEngine!Exists
<1>4. CASE AnnouncedStep
  <2> DEFINE q == busy.row
  <2>1. /\ q \in Rows /\ rows'[q].owner = rows[q].owner
        /\ RCAEngine!Exists(q) /\ rows'[q].age = rows[q].age
        /\ \A s \in Rows \ {q} : rows'[s] = rows[s]
    BY <1>0, <1>4, AnnouncedFacts, AnnouncedRow, WriteTypes
  <2>2. busy' = busy \/ busy' = RCAEngine!Handled
    BY <1>4 DEF AnnouncedStep
  <2> HIDE DEF q
  <2>3. \A s \in Rows : RCAEngine!WorksOn(s)' => RCAEngine!WorksOn(s)
    BY <1>b, <2>2 DEF Works
  <2>4. QED
    BY <2>1, <2>3 DEF RCAEngine!Exists
<1>5. ASSUME NEW a \in Alerts, OrchestratorInserts(a)
      PROVE  OneInv'
  <2> DEFINE q == RCAEngine!Fresh
  <2>1. /\ q \in Rows /\ rows'[q].owner = "orchestrator"
        /\ \A s \in Rows \ {q} : rows'[s] = rows[s]
        /\ UNCHANGED busy
    BY <1>0, <1>5, TheirFacts, WriteTypes
  <2> HIDE DEF q
  <2>2. QED
    BY <2>1 DEF RCAEngine!Exists, RCAEngine!WorksOn
<1>6. ASSUME NEW q \in Rows, OrchestratorUpdates(q)
      PROVE  OneInv'
  <2>1. /\ rows'[q].owner = "orchestrator"
        /\ \A s \in Rows \ {q} : rows'[s] = rows[s]
        /\ UNCHANGED busy
    BY <1>0, <1>6, UpdateFacts, DiagnosedRow, WriteTypes
  <2>2. QED
    BY <2>1 DEF RCAEngine!Exists, RCAEngine!WorksOn
<1>7. CASE Tick
  <2>1. /\ UNCHANGED busy
        /\ \A r \in Rows :
                 RCAEngine!Exists(r)' =>
                    /\ RCAEngine!Exists(r) /\ rows'[r].owner = rows[r].owner
                    /\ rows'[r].age >= rows[r].age
    BY <1>0, <1>7, TickFacts
  <2>2. \A r \in Rows : RCAEngine!Exists(r)' => rows[r].age \in Nat /\ rows'[r].age \in Nat
    <3>1. \A r \in Rows : RCAEngine!Exists(r)' => rows'[r] \in RCAEngine!Row
      BY <1>0 DEF RCAEngine!TypeOK, RCAEngine!Exists, RCAEngine!NoRow
    <3>2. QED
      BY <1>0, <2>1, <3>1, RowFacts DEF RCAEngine!Row
  <2>3. \A r \in Rows : Ours(r)' => Ours(r) /\ (rows'[r].age <= Window => rows[r].age <= Window)
    BY <1>a, <2>1, <2>2
  <2>4. \A r \in Rows : RCAEngine!WorksOn(r)' => RCAEngine!WorksOn(r)
    BY <2>1 DEF RCAEngine!WorksOn
  <2>5. QED
    BY <2>3, <2>4
<1>8. CASE NoWrite
  <2>1. \A r \in Rows : RCAEngine!WorksOn(r)' => RCAEngine!WorksOn(r)
    BY <1>8, <1>b DEF NoWrite, Works
  <2>2. QED
    BY <1>8, <2>1 DEF NoWrite, RCAEngine!Exists
<1>9. QED
  BY <1>1, <1>2, <1>3, <1>4, <1>5, <1>6, <1>7, <1>8, StepCases DEF RowStep

\* What comes within the window of another anomaly joins its incident.
THEOREM IncidentsAreShared == Spec => []OneIncidentPerWindow
<1>1. Init => OneInv
  BY DEF Init, RCAEngine!Init, OneInv, Ours, RCAEngine!Exists, RCAEngine!NoRow
<1>2. TypeInv /\ OneInv /\ [Next]_vars => OneInv'
  BY OneStep
<1>3. OneInv => OneIncidentPerWindow
  BY DEF OneInv, Ours, OneIncidentPerWindow, Incidents
<1>4. QED
  BY <1>1, <1>2, <1>3, TypeInvHolds, PTL DEF Spec

-----------------------------------------------------------------------------
(* Diagnoses on record.                                                    *)

\* A diagnosis is on record from before it is published until its row is gone;
\* before the handler is through it was published by faults only.
DiagnosisInv ==
    \A r \in Rows :
        /\ RCAEngine!Exists(r) =>
              /\ rows[r].status = "detecting" => rows[r].published = 0
              /\ rows[r].published <= 1 + faults
        /\ RCAEngine!WorksOn(r) /\ busy.step = "save" => rows[r].published = 0
        /\ RCAEngine!WorksOn(r) /\ busy.step = "publish" =>
              rows[r].status = "diagnosing" /\ rows[r].published <= faults

LEMMA DiagnosisStep ==
    ASSUME TypeInv, DiagnosisInv, [Next]_vars
    PROVE  DiagnosisInv'
<1>0. RowsOK /\ RCAEngine!TypeOK /\ RowsOK' /\ RCAEngine!TypeOK' /\ faults \in Nat /\ faults' \in Nat
  BY TypeInvStep, BoundsAssumption DEF TypeInv, TypeOK, Shape, RowsOK
<1>b. /\ \A r \in Rows : RCAEngine!WorksOn(r) <=> Works /\ busy.row = r
      /\ \A r \in Rows : RCAEngine!WorksOn(r)' <=> Works' /\ busy'.row = r
      /\ busy = RCAEngine!Idle => ~Works
      /\ busy' = RCAEngine!Idle \/ busy' = RCAEngine!Handled => ~Works'
  BY <1>0, BusyFacts DEF RCAEngine!WorksOn, Works, RCAEngine!Idle, RCAEngine!Handled
<1>p. \A r \in Rows : RCAEngine!Exists(r) =>
         rows[r].published \in Nat /\ rows[r].status \in {"detecting", "diagnosing"}
  BY <1>0, RowFacts DEF RCAEngine!Row
<1> USE DEF DiagnosisInv
<1>1. ASSUME NEW q \in Rows, NEW a \in Alerts, FoundAt(q, a)
      PROVE  DiagnosisInv'
  <2>1. /\ RCAEngine!Exists(q)
        /\ rows'[q].status = rows[q].status /\ rows'[q].published = rows[q].published
        /\ \A s \in Rows \ {q} : rows'[s] = rows[s]
    BY <1>0, <1>1, FoundFacts, WriteTypes, AttachedRow
  <2>2. /\ Works' => busy'.row = q /\ busy'.step = "save" /\ rows[q].status = "detecting"
        /\ UNCHANGED faults
    BY <1>1 DEF FoundAt, RCAEngine!At, RCAEngine!Handled, Works
  <2>3. QED
    BY <1>b, <2>1, <2>2 DEF RCAEngine!Exists
<1>2. ASSUME NEW a \in Alerts, RCAEngine!CorrelateNew(a)
      PROVE  DiagnosisInv'
  <2> DEFINE q == RCAEngine!Fresh
  <2>1. /\ q \in Rows /\ rows'[q].published = 0
        /\ \A s \in Rows \ {q} : rows'[s] = rows[s]
        /\ busy' = RCAEngine!At(q, "save") /\ UNCHANGED faults
    BY <1>0, <1>2, NewFacts, WriteTypes
  <2> HIDE DEF q
  <2>2. busy'.row = q /\ busy'.step = "save"
    BY <2>1 DEF RCAEngine!At
  <2>3. QED
    BY <1>0, <1>b, <2>1, <2>2 DEF RCAEngine!Exists
<1>3. CASE RCAEngine!Save
  <2> DEFINE q == busy.row
  <2>1. /\ q \in Rows /\ rows'[q].status = "diagnosing" /\ rows'[q].published = rows[q].published
        /\ RCAEngine!WorksOn(q) /\ busy.step = "save"
        /\ \A s \in Rows \ {q} : rows'[s] = rows[s]
        /\ busy' = RCAEngine!At(q, "publish") /\ UNCHANGED faults
    BY <1>0, <1>3, <1>b, SaveFacts, DiagnosedRow, WriteTypes DEF RCAEngine!Save, Works
  <2> HIDE DEF q
  <2>2. busy'.row = q /\ busy'.step = "publish" /\ rows[q].published = 0
    BY <2>1 DEF RCAEngine!At
  <2>3. QED
    BY <1>0, <1>b, <2>1, <2>2 DEF RCAEngine!Exists
<1>4. CASE AnnouncedStep
  <2>0. PICK q \in Rows : q = busy.row
    BY <1>0, <1>4, AnnouncedFacts
  <2>1. /\ q \in Rows /\ RCAEngine!WorksOn(q) /\ busy.step = "publish"
        /\ rows'[q].status = rows[q].status /\ rows'[q].published = rows[q].published + 1
        /\ RCAEngine!Exists(q)
        /\ \A s \in Rows \ {q} : rows'[s] = rows[s]
    BY <1>0, <1>4, <1>b, <2>0, AnnouncedFacts, AnnouncedRow, WriteTypes DEF AnnouncedStep, Works
  <2>2. rows[q].status = "diagnosing" /\ rows[q].published \in Nat /\ rows[q].published <= faults
    BY <1>p, <2>1
  <2>3. \/ ~Works' /\ faults' = faults
        \/ (busy' = busy \/ ~Works') /\ faults' = faults + 1
    BY <1>4, <1>b DEF AnnouncedStep
  <2>4. \A s \in Rows : RCAEngine!WorksOn(s)' =>
           RCAEngine!WorksOn(s) /\ busy'.step = "publish" /\ faults' = faults + 1
    BY <1>b, <2>1, <2>3 DEF Works
  <2>5. rows'[q].published <= 1 + faults /\ faults' \in {faults, faults + 1}
    BY <1>0, <2>1, <2>2, <2>3
  <2>6. ASSUME NEW s \in Rows \ {q}
        PROVE  /\ RCAEngine!Exists(s)' =>
                     /\ rows'[s].status = "detecting" => rows'[s].published = 0
                     /\ rows'[s].published <= 1 + faults'
               /\ ~RCAEngine!WorksOn(s)'
    <3>1. ~RCAEngine!WorksOn(s)'
      BY <1>b, <2>1, <2>4
    <3>2. RCAEngine!Exists(s)' => RCAEngine!Exists(s) /\ rows[s].published \in Nat
      BY <1>p, <2>1 DEF RCAEngine!Exists
    <3>3. QED
      BY <1>0, <2>1, <2>5, <3>1, <3>2
  <2>7. /\ rows'[q].status # "detecting" /\ rows'[q].published <= 1 + faults'
        /\ RCAEngine!WorksOn(q)' => /\ busy'.step = "publish" /\ rows'[q].status = "diagnosing"
                                    /\ rows'[q].published <= faults'
    BY <1>0, <2>1, <2>2, <2>4, <2>5
  <2>8. QED
    BY <2>1, <2>6, <2>7
<1>5. ASSUME NEW a \in Alerts, OrchestratorInserts(a)
      PROVE  DiagnosisInv'
  <2> DEFINE q == RCAEngine!Fresh
  <2>1. /\ q \in Rows /\ rows'[q].published = 0 /\ rows[q] = RCAEngine!NoRow
        /\ \A s \in Rows \ {q} : rows'[s] = rows[s]
        /\ UNCHANGED <<busy, faults>>
    BY <1>0, <1>5, TheirFacts, WriteTypes
  <2> HIDE DEF q
  <2>2. ~RCAEngine!WorksOn(q)
    BY <1>0, <1>b, <2>1 DEF RowsOK, RCAEngine!Exists, RCAEngine!NoRow
  <2>3. QED
    BY <1>0, <2>1, <2>2 DEF RCAEngine!Exists, RCAEngine!WorksOn
<1>6. ASSUME NEW q \in Rows, OrchestratorUpdates(q)
      PROVE  DiagnosisInv'
  <2>1. /\ rows'[q].status = "diagnosing" /\ rows'[q].published = rows[q].published
        /\ RCAEngine!Exists(q)
        /\ \A s \in Rows \ {q} : rows'[s] = rows[s]
        /\ UNCHANGED <<busy, faults>>
    BY <1>0, <1>6, UpdateFacts, DiagnosedRow, WriteTypes DEF OrchestratorUpdates
  <2>2. QED
    BY <2>1 DEF RCAEngine!Exists, RCAEngine!WorksOn
<1>7. CASE Tick
  <2>1. /\ UNCHANGED <<busy, faults>>
        /\ \A r \in Rows :
                 RCAEngine!Exists(r)' =>
                    /\ RCAEngine!Exists(r) /\ rows'[r].status = rows[r].status
                    /\ rows'[r].published = rows[r].published
        /\ \A r \in Rows : RCAEngine!WorksOn(r) => RCAEngine!Exists(r)'
    BY <1>0, <1>7, TickFacts
  <2>2. QED
    BY <2>1 DEF RCAEngine!WorksOn
<1>8. CASE NoWrite
  <2>1. \A r \in Rows : RCAEngine!WorksOn(r)' => busy' = busy
    BY <1>8, <1>b DEF NoWrite
  <2>2. faults' \in {faults, faults + 1} /\ UNCHANGED rows
    BY <1>8 DEF NoWrite
  <2>3. SUFFICES ASSUME NEW r \in Rows
        PROVE  /\ RCAEngine!Exists(r)' =>
                    /\ rows'[r].status = "detecting" => rows'[r].published = 0
                    /\ rows'[r].published <= 1 + faults'
               /\ RCAEngine!WorksOn(r)' /\ busy'.step = "save" => rows'[r].published = 0
               /\ RCAEngine!WorksOn(r)' /\ busy'.step = "publish" =>
                    rows'[r].status = "diagnosing" /\ rows'[r].published <= faults'
    OBVIOUS
  <2>4. RCAEngine!WorksOn(r)' => RCAEngine!WorksOn(r) /\ RCAEngine!Exists(r)
    BY <1>0, <1>b, <2>1 DEF RCAEngine!WorksOn, RowsOK
  <2>5. QED
    BY <1>0, <1>p, <2>1, <2>2, <2>4 DEF RCAEngine!Exists
<1>9. QED
  BY <1>1, <1>2, <1>3, <1>4, <1>5, <1>6, <1>7, <1>8, StepCases DEF RowStep

\* A diagnosis is on record before it is published, and published again only
\* after a fault.
THEOREM DiagnosesStayOnRecord == Spec => []DiagnosesAreOnRecord
<1>1. Init => DiagnosisInv
  BY DEF Init, RCAEngine!Init, DiagnosisInv, RCAEngine!Exists, RCAEngine!NoRow,
      RCAEngine!WorksOn, RCAEngine!Idle
<1>2. TypeInv /\ DiagnosisInv /\ [Next]_vars => DiagnosisInv'
  BY DiagnosisStep
<1>3. TypeInv /\ DiagnosisInv => DiagnosesAreOnRecord
  <2>1. SUFFICES ASSUME TypeInv, DiagnosisInv, NEW r \in Rows, RCAEngine!Exists(r)
        PROVE  /\ rows[r].published > 0 => rows[r].status = "diagnosing"
               /\ rows[r].published <= 1 + faults
    BY DEF DiagnosesAreOnRecord, Incidents
  <2>2. rows[r] \in RCAEngine!Row
    BY <2>1, RowFacts DEF TypeInv, TypeOK
  <2>3. QED
    BY <2>1, <2>2 DEF DiagnosisInv, RCAEngine!Row
<1>4. QED
  BY <1>1, <1>2, <1>3, TypeInvHolds, PTL DEF Spec

-----------------------------------------------------------------------------
(* Debates, of any number of candidates.                                  *)

\* Every number is reached from 0 by steps of one.
LEMMA SetInduction ==
    ASSUME NEW S \in SUBSET Nat, 0 \in S, \A n \in S : n + 1 \in S
    PROVE  S = Nat
<1> DEFINE R == {ss \in Nat \X Nat : ss[1] < ss[2]}
           T == Nat \ S
<1>1. IsWellFoundedOn(R, Nat)
  BY NatLessThanWellFounded DEF OpToRel
<1>2. ASSUME T # {}
      PROVE  FALSE
  <2>1. PICK m \in T : \A n \in T : ~ (<<n, m>> \in R)
    <3> HIDE DEF R
    <3>1. QED
      BY <1>1, <1>2, WFMin
  <2>2. m # 0 /\ m - 1 \in Nat /\ <<m - 1, m>> \in R /\ (m - 1) + 1 = m
    OBVIOUS
  <2>3. QED
    BY <2>1, <2>2
<1>3. QED
  BY <1>2

\* The first of the surest.
First(candidates, i) ==
    /\ \A j \in 1..Len(candidates) : candidates[j].confidence <= candidates[i].confidence
    /\ \A j \in 1..(i - 1) : candidates[j].confidence < candidates[i].confidence

\* What a backend can answer, the confidence being what int() makes of it.
Hypotheses(categories) == [category : categories, confidence : Int]

\* Some candidate is the first of the surest, however many there are.
LEMMA FirstExists ==
    ASSUME NEW categories, NEW candidates \in Seq(Hypotheses(categories)), candidates # <<>>
    PROVE  \E i \in 1..Len(candidates) : First(candidates, i)
<1> DEFINE c(j) == candidates[j].confidence
           n == Len(candidates)
           FirstOf(i, m) == /\ \A j \in 1..m : c(j) <= c(i)
                            /\ \A j \in 1..(i - 1) : c(j) < c(i)
           S == {m \in Nat : m \in 1..n => \E i \in 1..m : FirstOf(i, m)}
<1>1. n \in Nat \ {0} /\ \A j \in 1..n : c(j) \in Int
  <2>1. n \in Nat \ {0} /\ \A j \in 1..n : candidates[j] \in Hypotheses(categories)
    OBVIOUS
  <2>2. \A h \in Hypotheses(categories) : h.confidence \in Int
    BY DEF Hypotheses
  <2>3. QED
    BY <2>1, <2>2
<1> HIDE DEF c, n
<1>2. 0 \in S
  OBVIOUS
<1>3. ASSUME NEW m \in S
      PROVE  m + 1 \in S
  <2>1. SUFFICES ASSUME m + 1 \in 1..n
        PROVE  \E i \in 1..(m + 1) : FirstOf(i, m + 1)
    OBVIOUS
  <2>2. CASE m = 0
    <3>1. FirstOf(1, 1)
      BY <1>1
    <3>2. QED
      BY <2>2, <3>1
  <2>3. CASE m # 0
    <3>1. PICK i \in 1..m : FirstOf(i, m)
      BY <1>3, <2>1, <2>3, <1>1
    <3>2. CASE c(m + 1) > c(i)
      <4>1. FirstOf(m + 1, m + 1)
        BY <1>1, <2>1, <3>1, <3>2
      <4>2. QED
        BY <4>1
    <3>3. CASE ~(c(m + 1) > c(i))
      <4>1. FirstOf(i, m + 1)
        BY <1>1, <2>1, <3>1, <3>3
      <4>2. QED
        BY <4>1
    <3>4. QED
      BY <3>2, <3>3
  <2>4. QED
    BY <2>2, <2>3
<1>4. n \in S
  <2>1. S = Nat
    <3> HIDE DEF S
    <3>1. S \in SUBSET Nat
      BY DEF S
    <3>2. QED
      BY <1>2, <1>3, <3>1, SetInduction
  <2>2. QED
    BY <1>1, <2>1
<1>5. PICK i \in 1..n : FirstOf(i, n)
  BY <1>1, <1>4
<1>6. QED
  BY <1>5 DEF First, c, n

\* So Winner chooses, and chooses that one: the rubric never tells two apart.
LEMMA WinnerIsFirst ==
    ASSUME NEW categories, NEW candidates \in Seq(Hypotheses(categories)), candidates # <<>>
    PROVE  \E i \in 1..Len(candidates) :
              Winner(candidates) = candidates[i] /\ First(candidates, i)
<1> DEFINE Q(i) == /\ \A j \in DOMAIN candidates : ~Beats(candidates[j], candidates[i])
                   /\ \A j \in 1..(i - 1) : Beats(candidates[i], candidates[j])
<1>1. \A i \in 1..Len(candidates) : Q(i) <=> First(candidates, i)
  <2>1. DOMAIN candidates = 1..Len(candidates) /\ Len(candidates) \in Nat
        /\ \A j \in 1..Len(candidates) : candidates[j] \in Hypotheses(categories)
    OBVIOUS
  <2>2. \A h, g \in Hypotheses(categories) :
           /\ h.confidence \in Int
           /\ Beats(h, g) <=> h.confidence > g.confidence
    BY DEF Beats, Rubric, Hypotheses
  <2>3. QED
    BY <2>1, <2>2 DEF First
<1>2. \E i \in DOMAIN candidates : Q(i)
  BY <1>1, FirstExists
<1>3. Winner(candidates) = candidates[CHOOSE i \in DOMAIN candidates : Q(i)]
  BY DEF Winner
<1>4. QED
  <2> HIDE DEF Q
  <2>1. (CHOOSE i \in DOMAIN candidates : Q(i)) \in DOMAIN candidates
        /\ Q(CHOOSE i \in DOMAIN candidates : Q(i))
    BY <1>2
  <2>2. QED
    BY <1>1, <1>3, <2>1, DOMAIN candidates = 1..Len(candidates)

\* DebateEngine.resolve returns one of the candidates, however many there are
\* and whatever they say: none was surer, and at most ten points are added.
THEOREM DebatesAreSettled ==
    ASSUME NEW categories, NEW initial \in Hypotheses(categories),
           NEW alternatives \in Seq(Hypotheses(categories)), initial.confidence < Threshold
    PROVE  IsSettled(<<initial>> \o alternatives, Diagnosis(initial, alternatives))
<1> DEFINE candidates == <<initial>> \o alternatives
<1>1. candidates \in Seq(Hypotheses(categories)) /\ candidates # <<>>
  OBVIOUS
<1>2. Diagnosis(initial, alternatives) = Resolve(candidates)
  BY DEF Diagnosis
<1> HIDE DEF candidates
<1>3. PICK i \in 1..Len(candidates) :
         Winner(candidates) = candidates[i] /\ First(candidates, i)
  BY <1>1, WinnerIsFirst
<1>4. candidates[i] \in Hypotheses(categories)
  BY <1>1
<1> DEFINE h == candidates[i]
           outcome == Resolve(candidates)
<1>5. /\ outcome.category = h.category
      /\ outcome.confidence = h.confidence
         \/ outcome.confidence = AtMost(h.confidence + 10, 100)
  BY <1>3, <1>4 DEF Resolve, Hypotheses
<1>6. /\ outcome.confidence <= h.confidence + 10
      /\ h.confidence <= 100 => outcome.confidence \in h.confidence..100
  BY <1>4, <1>5 DEF AtMost, Hypotheses
<1>7. QED
  BY <1>2, <1>3, <1>5, <1>6 DEF IsSettled, First, candidates

-----------------------------------------------------------------------------
(* Readings: the sums behind the z-score and the fitted line.              *)

Series == INSTANCE Detector

\* A series of n integers.
IsSeries(f, n) == n \in Nat /\ f \in [1..n -> Int]

LEMMA SeriesLength ==
    ASSUME NEW f, NEW n, IsSeries(f, n)
    PROVE  Len(f) = n /\ DOMAIN f = 1..n /\ \A i \in 1..n : f[i] \in Int
<1>1. DOMAIN f = 1..n /\ \A i \in 1..n : f[i] \in Int
  BY DEF IsSeries
<1>2. f \in Seq(Int)
  BY DEF IsSeries
<1>3. QED
  BY <1>1, <1>2 DEF IsSeries

\* The sums of a series are defined, term by term.
LEMMA SumsOf ==
    ASSUME NEW f, NEW N, IsSeries(f, N)
    PROVE  /\ Series!Sums(f) \in [0..N -> Int]
           /\ Series!Sums(f)[0] = 0
           /\ \A n \in 1..N : Series!Sums(f)[n] = Series!Sums(f)[n - 1] + f[n]
           /\ Series!Total(f) = Series!Sums(f)[N] /\ Series!Total(f) \in Int
<1> DEFINE AreSums(g, m) == /\ g \in [0..m -> Int] /\ g[0] = 0
                            /\ \A n \in 1..m : g[n] = g[n - 1] + f[n]
           S == {m \in Nat : m > N \/ \E g : AreSums(g, m)}
           R == Series!Sums(f)
           P(r) == r = [n \in 0..N |-> IF n = 0 THEN 0 ELSE r[n - 1] + f[n]]
<1>1. N \in Nat /\ Len(f) = N /\ \A n \in 1..N : f[n] \in Int
  BY SeriesLength DEF IsSeries
<1>2. 0 \in S
  <2>1. AreSums([n \in {0} |-> 0], 0)
    OBVIOUS
  <2>2. QED
    BY <2>1
<1>3. ASSUME NEW m \in S, m + 1 <= N
      PROVE  \E g : AreSums(g, m + 1)
  <2>1. PICK g : AreSums(g, m)
    BY <1>1, <1>3
  <2> DEFINE h == [n \in 0..m + 1 |-> IF n = m + 1 THEN g[m] + f[m + 1] ELSE g[n]]
  <2>2. f[m + 1] \in Int /\ g[m] \in Int
    BY <1>1, <1>3, <2>1
  <2>3. h \in [0..m + 1 -> Int] /\ h[0] = 0
    BY <2>1, <2>2
  <2>4. \A n \in 1..m + 1 : h[n] = h[n - 1] + f[n]
    BY <2>1
  <2>5. AreSums(h, m + 1)
    BY <2>3, <2>4
  <2>6. QED
    <3> HIDE DEF h, AreSums
    <3>1. QED
      BY <2>5
<1>4. N \in S
  <2>1. \A m \in S : m + 1 \in S
    <3> HIDE DEF AreSums
    <3>1. QED
      BY <1>1, <1>3
  <2>2. S = Nat
    <3> HIDE DEF S
    <3>1. S \in SUBSET Nat
      BY DEF S
    <3>2. QED
      BY <1>2, <2>1, <3>1, SetInduction
  <2>3. QED
    BY <1>1, <2>2
<1>5. PICK g : AreSums(g, N)
  <2> HIDE DEF AreSums
  <2>1. QED
    BY <1>1, <1>4
<1>6. P(g)
  BY <1>1, <1>5
<1>7. P(R)
  <2>1. R = CHOOSE r : P(r)
    BY <1>1 DEF Series!Sums
  <2> HIDE DEF R, P
  <2>2. QED
    BY <1>6, <2>1
<1>8. R = g
  <2> DEFINE E == {m \in Nat : m \in 0..N => R[m] = g[m]}
  <2> HIDE DEF R
  <2>1. 0 \in E
    BY <1>1, <1>5, <1>7
  <2>2. ASSUME NEW m \in E PROVE m + 1 \in E
    BY <1>1, <1>5, <1>7
  <2>3. E = Nat
    <3> HIDE DEF E
    <3>1. E \in SUBSET Nat
      BY DEF E
    <3>2. QED
      BY <2>1, <2>2, <3>1, SetInduction
  <2>4. \A m \in 0..N : R[m] = g[m]
    BY <1>1, <2>3
  <2>5. QED
    BY <1>1, <1>5, <1>7, <2>4
<1>9. QED
  BY <1>1, <1>5, <1>8 DEF Series!Total

LEMMA Distributes ==
    ASSUME NEW A \in Int, NEW B \in Int, NEW C \in Int, NEW n \in Int,
           NEW x \in Int, NEW y \in Int, NEW f \in Int, NEW g \in Int
    PROVE  (A * x + B * y + C * n) + (A * f + B * g + C)
              = A * (x + f) + B * (y + g) + C * (n + 1)
  OBVIOUS

\* The series h is A times f and B times g and C.
Combines(h, N, A, f, B, g, C) == \A i \in 1..N : h[i] = A * f[i] + B * g[i] + C

\* Sums are linear.
LEMMA SumsAreLinear ==
    ASSUME NEW N, NEW f, IsSeries(f, N), NEW g, IsSeries(g, N), NEW h, IsSeries(h, N),
           NEW A \in Int, NEW B \in Int, NEW C \in Int, Combines(h, N, A, f, B, g, C)
    PROVE  Series!Total(h) = A * Series!Total(f) + B * Series!Total(g) + C * N
<1> DEFINE F == Series!Sums(f)
           G == Series!Sums(g)
           H == Series!Sums(h)
           E == {n \in Nat : n \in 0..N => H[n] = A * F[n] + B * G[n] + C * n}
<1>1. /\ N \in Nat
      /\ F \in [0..N -> Int] /\ F[0] = 0 /\ \A n \in 1..N : F[n] = F[n - 1] + f[n]
      /\ G \in [0..N -> Int] /\ G[0] = 0 /\ \A n \in 1..N : G[n] = G[n - 1] + g[n]
      /\ H \in [0..N -> Int] /\ H[0] = 0 /\ \A n \in 1..N : H[n] = H[n - 1] + h[n]
      /\ Series!Total(f) = F[N] /\ Series!Total(g) = G[N] /\ Series!Total(h) = H[N]
  BY SumsOf DEF IsSeries
<1> HIDE DEF F, G, H
<1>2. 0 \in E
  BY <1>1
<1>3. ASSUME NEW n \in E PROVE n + 1 \in E
  <2>1. SUFFICES ASSUME n + 1 \in 0..N
        PROVE  H[n + 1] = A * F[n + 1] + B * G[n + 1] + C * (n + 1)
    OBVIOUS
  <2>2. /\ n \in Nat /\ n \in 0..N /\ n + 1 \in 1..N /\ (n + 1) - 1 = n
        /\ H[n] = A * F[n] + B * G[n] + C * n
    BY <1>1, <2>1
  <2>3. /\ F[n] \in Int /\ G[n] \in Int /\ f[n + 1] \in Int /\ g[n + 1] \in Int
        /\ F[n + 1] = F[n] + f[n + 1] /\ G[n + 1] = G[n] + g[n + 1]
        /\ H[n + 1] = H[n] + h[n + 1] /\ h[n + 1] = A * f[n + 1] + B * g[n + 1] + C
    BY <1>1, <2>2 DEF IsSeries, Combines
  <2>4. (A * F[n] + B * G[n] + C * n) + (A * f[n + 1] + B * g[n + 1] + C)
           = A * (F[n] + f[n + 1]) + B * (G[n] + g[n + 1]) + C * (n + 1)
    BY <2>2, <2>3, Distributes
  <2>5. QED
    BY <2>2, <2>3, <2>4
<1>4. E = Nat
  <2> HIDE DEF E
  <2>1. E \in SUBSET Nat
    BY DEF E
  <2>2. QED
    BY <1>2, <1>3, <2>1, SetInduction
<1>5. N \in 0..N /\ N \in E
  <2> HIDE DEF E
  <2>1. QED
    BY <1>1, <1>4
<1>6. QED
  BY <1>1, <1>5

\* A sum of terms that are not negative is none of them's less.
LEMMA SumsOfSquares ==
    ASSUME NEW N, NEW f, IsSeries(f, N), \A i \in 1..N : f[i] >= 0
    PROVE  /\ Series!Total(f) >= 0
           /\ \A i \in 1..N : f[i] <= Series!Total(f)
<1> DEFINE F == Series!Sums(f)
           E == {n \in Nat : n \in 0..N => F[n] >= 0 /\ \A i \in 1..n : f[i] <= F[n]}
<1>1. /\ N \in Nat
      /\ F \in [0..N -> Int] /\ F[0] = 0 /\ \A n \in 1..N : F[n] = F[n - 1] + f[n]
      /\ Series!Total(f) = F[N] /\ \A i \in 1..N : f[i] \in Int
  BY SumsOf DEF IsSeries
<1> HIDE DEF F
<1>2. 0 \in E
  BY <1>1
<1>3. ASSUME NEW n \in E PROVE n + 1 \in E
  <2>1. SUFFICES ASSUME n + 1 \in 0..N
        PROVE  F[n + 1] >= 0 /\ \A i \in 1..n + 1 : f[i] <= F[n + 1]
    OBVIOUS
  <2>2. /\ n \in Nat /\ n \in 0..N /\ n + 1 \in 1..N /\ (n + 1) - 1 = n
        /\ F[n] >= 0 /\ \A i \in 1..n : f[i] <= F[n]
    BY <1>1, <2>1
  <2>3. F[n] \in Int /\ f[n + 1] >= 0 /\ F[n + 1] = F[n] + f[n + 1]
    BY <1>1, <2>2
  <2>4. ASSUME NEW i \in 1..n + 1 PROVE f[i] <= F[n + 1]
    <3>1. CASE i = n + 1
      BY <1>1, <2>2, <2>3, <3>1
    <3>2. CASE i # n + 1
      <4>1. i \in 1..n /\ i \in 1..N /\ f[i] \in Int /\ f[n + 1] \in Int
        BY <1>1, <2>2, <3>2
      <4>2. QED
        BY <2>2, <2>3, <4>1
    <3>3. QED
      BY <3>1, <3>2
  <2>5. F[n + 1] >= 0
    BY <1>1, <2>2, <2>3
  <2>6. QED
    BY <2>4, <2>5
<1>4. E = Nat
  <2> HIDE DEF E
  <2>1. E \in SUBSET Nat
    BY DEF E
  <2>2. QED
    BY <1>2, <1>3, <2>1, SetInduction
<1>5. N \in 0..N /\ N \in E
  <2> HIDE DEF E
  <2>1. QED
    BY <1>1, <1>4
<1>6. QED
  BY <1>1, <1>5

LEMMA Squares ==
    /\ \A a \in Int : a * a \in Int /\ a * a >= 0 /\ (a * a = 0 => a = 0)
    /\ \A n, x, T \in Int :
          (n * x - T) * (n * x - T) = (n * n) * (x * x) + (-2 * n * T) * x + T * T
    /\ \A n, T, Q \in Int :
          (n * n) * Q + (-2 * n * T) * T + (T * T) * n = n * (n * Q - T * T)
  OBVIOUS

LEMMA Cancels ==
    ASSUME NEW n \in Int, n > 0, NEW x \in Int, NEW y \in Int
    PROVE  /\ n * x = n * y <=> x = y
           /\ n * x <= n * y <=> x <= y
  OBVIOUS

\* The sum of a level.
LEMMA LevelSums ==
    ASSUME NEW N, NEW f, IsSeries(f, N), NEW x \in Int, \A i \in 1..N : f[i] = x
    PROVE  Series!Total(f) = N * x
<1>1. PICK A \in Int : A = 0
  OBVIOUS
<1>2. Combines(f, N, A, f, A, f, x)
  BY <1>1, SeriesLength DEF Combines
<1>3. Series!Total(f) = A * Series!Total(f) + A * Series!Total(f) + x * N
  BY <1>2, SumsAreLinear
<1>4. Series!Total(f) \in Int /\ N \in Nat
  BY SumsOf DEF IsSeries
<1>5. QED
  BY <1>1, <1>3, <1>4

\* A series, its squares, and the squares of its deviations.
LEMMA SeriesOf ==
    ASSUME NEW N, NEW f, IsSeries(f, N), NEW g, IsSeries(g, N), NEW T \in Int
    PROVE  /\ IsSeries([i \in DOMAIN f |-> f[i] * g[i]], N)
           /\ IsSeries([i \in DOMAIN f |-> (N * f[i] - T) * (N * f[i] - T)], N)
<1>1. /\ N \in Nat /\ DOMAIN f = 1..N
      /\ \A i \in 1..N : f[i] \in Int /\ g[i] \in Int
  BY SeriesLength DEF IsSeries
<1>2. \A i \in 1..N : f[i] * g[i] \in Int
  BY <1>1
<1>3. \A i \in 1..N : (N * f[i] - T) * (N * f[i] - T) \in Int
  <2>1. \A i \in 1..N : N * f[i] - T \in Int
    BY <1>1
  <2>2. QED
    BY <2>1, Squares
<1>4. QED
  BY <1>1, <1>2, <1>3 DEF IsSeries

\* The spread is the number of readings times the sum of squares.
LEMMA SpreadIsMeant ==
    ASSUME NEW N, NEW f, IsSeries(f, N)
    PROVE  /\ Series!Spread(f) \in Int
           /\ Series!SquaredDeviations(f) = N * Series!Spread(f)
<1> DEFINE T == Series!Total(f)
           q == [i \in DOMAIN f |-> f[i] * f[i]]
           h == [i \in DOMAIN f |-> (N * f[i] - T) * (N * f[i] - T)]
           Q == Series!Total(q)
<1>1. N \in Nat /\ T \in Int /\ Len(f) = N /\ DOMAIN f = 1..N /\ \A i \in 1..N : f[i] \in Int
  BY SumsOf, SeriesLength DEF IsSeries
<1>2. IsSeries(q, N) /\ IsSeries(h, N)
  BY <1>1, SeriesOf
<1>3. Q \in Int
  BY <1>2, SumsOf
<1>4. Series!Spread(f) = N * Q - T * T
  BY <1>1 DEF Series!Spread
<1>5. Series!SquaredDeviations(f) = Series!Total(h)
  BY <1>1 DEF Series!SquaredDeviations
<1>6. Combines(h, N, N * N, q, -2 * N * T, f, T * T)
  <2>1. \A i \in 1..N : h[i] = (N * f[i] - T) * (N * f[i] - T) /\ q[i] = f[i] * f[i]
    BY <1>1
  <2>2. QED
    BY <1>1, <2>1, Squares DEF Combines
<1>7. N * N \in Int /\ -2 * N * T \in Int /\ T * T \in Int
  BY <1>1
<1> HIDE DEF T, q, h, Q
<1>8. Series!Total(h) = (N * N) * Q + (-2 * N * T) * T + (T * T) * N
  BY <1>2, <1>6, <1>7, SumsAreLinear DEF Q, T
<1>9. QED
  BY <1>1, <1>3, <1>4, <1>5, <1>8, Squares

\* It is never negative, and 0 only if the readings agree.
LEMMA SpreadOfLevel ==
    ASSUME NEW N, NEW f, IsSeries(f, N)
    PROVE  /\ Series!Spread(f) >= 0
           /\ Series!Spread(f) = 0 <=> \A i, j \in 1..N : f[i] = f[j]
<1> DEFINE T == Series!Total(f)
           D(i) == N * f[i] - T
           h == [i \in DOMAIN f |-> (N * f[i] - T) * (N * f[i] - T)]
           s == Series!Spread(f)
<1>1. N \in Nat /\ T \in Int /\ Len(f) = N /\ DOMAIN f = 1..N /\ \A i \in 1..N : f[i] \in Int
  BY SumsOf, SeriesLength DEF IsSeries
<1>2. /\ s \in Int /\ Series!Total(h) = N * s
  BY <1>1, SpreadIsMeant DEF Series!SquaredDeviations
<1>3. IsSeries(h, N) /\ \A i \in 1..N : h[i] = D(i) * D(i) /\ D(i) \in Int
  <2>1. IsSeries(h, N)
    BY <1>1, SeriesOf
  <2>2. \A i \in 1..N : h[i] = D(i) * D(i)
    BY <1>1
  <2>3. \A i \in 1..N : D(i) \in Int
    BY <1>1
  <2>4. QED
    BY <2>1, <2>2, <2>3
<1>4. \A i \in 1..N : h[i] >= 0
  BY <1>3, Squares
<1> HIDE DEF T, h, s, D
<1>5. N * s >= 0 /\ \A i \in 1..N : h[i] <= N * s
  BY <1>2, <1>3, <1>4, SumsOfSquares
<1>6. CASE N = 0
  <2>1. s = 0
    BY <1>1, <1>6, SumsOf, SeriesOf DEF s, Series!Spread, T
  <2>2. QED
    BY <1>6, <2>1 DEF s
<1>7. CASE N > 0
  <2>1. s >= 0
    <3>1. N * 0 <= N * s
      BY <1>1, <1>5
    <3>2. QED
      BY <1>1, <1>2, <1>7, <3>1, Cancels
  <2>2. ASSUME s = 0 PROVE \A i, j \in 1..N : f[i] = f[j]
    <3>1. N * s = 0
      BY <1>1, <2>2
    <3>2. \A i \in 1..N : D(i) * D(i) = 0
      BY <1>3, <1>4, <1>5, <3>1
    <3>3. \A i \in 1..N : D(i) = 0
      BY <1>3, <3>2, Squares
    <3>4. \A i \in 1..N : N * f[i] = T
      BY <1>1, <3>3 DEF D
    <3>5. ASSUME NEW i \in 1..N, NEW j \in 1..N PROVE f[i] = f[j]
      <4>1. N * f[i] = N * f[j] /\ f[i] \in Int /\ f[j] \in Int /\ N \in Int
        BY <1>1, <3>4
      <4>2. QED
        BY <1>7, <4>1, Cancels
    <3>6. QED
      BY <3>5
  <2>3. ASSUME \A i, j \in 1..N : f[i] = f[j] PROVE s = 0
    <3> DEFINE x == f[1]
    <3>1. x \in Int /\ \A i \in 1..N : f[i] = x
      BY <1>1, <1>7, <2>3
    <3>2. T = N * x
      BY <3>1, LevelSums DEF T
    <3>3. \A i \in 1..N : D(i) = 0
      BY <1>1, <3>1, <3>2 DEF D
    <3>4. \A i \in 1..N : h[i] = 0
      BY <1>3, <3>3
    <3>5. N * s = N * 0
      BY <1>2, <1>3, <3>4, LevelSums
    <3>6. QED
      BY <1>1, <1>2, <1>7, <3>5, Cancels
  <2>4. QED
    BY <2>1, <2>2, <2>3 DEF s
<1>8. QED
  BY <1>1, <1>6, <1>7

\* The series r is a line in t.
IsLine(r, N, a, b, t) == \A i \in 1..N : r[i] = a + b * t[i]

\* Readings on a line vary with the times.
LEMMA LineVaries ==
    ASSUME NEW N, NEW t, IsSeries(t, N), NEW r, IsSeries(r, N), NEW a \in Int, NEW b \in Int,
           IsLine(r, N, a, b, t)
    PROVE  /\ Series!Covariance(t, t) = Series!Spread(t)
           /\ Series!Covariance(t, r) = b * Series!Spread(t)
           /\ Series!Covariance(r, r) = (b * b) * Series!Spread(t)
<1> DEFINE T == Series!Total(t)
           R == Series!Total(r)
           tt == [i \in DOMAIN t |-> t[i] * t[i]]
           tr == [i \in DOMAIN t |-> t[i] * r[i]]
           rr == [i \in DOMAIN r |-> r[i] * r[i]]
           Q == Series!Total(tt)
           X == Series!Total(tr)
           Y == Series!Total(rr)
<1>0. \A i \in 1..N : r[i] = a + b * t[i]
  BY DEF IsLine
<1>1. /\ N \in Nat /\ Len(t) = N /\ DOMAIN t = 1..N /\ \A i \in 1..N : t[i] \in Int
      /\ Len(r) = N /\ DOMAIN r = 1..N /\ \A i \in 1..N : r[i] \in Int
      /\ T \in Int /\ R \in Int
  BY SumsOf, SeriesLength DEF IsSeries
<1>2. IsSeries(tt, N) /\ IsSeries(tr, N) /\ IsSeries(rr, N)
  BY <1>1, SeriesOf
<1>3. Q \in Int /\ X \in Int /\ Y \in Int
  BY <1>2, SumsOf
<1>4. /\ Series!Spread(t) = N * Q - T * T /\ Series!Covariance(t, t) = N * Q - T * T
      /\ Series!Covariance(t, r) = N * X - T * R
      /\ Series!Covariance(r, r) = N * Y - R * R
  BY <1>1 DEF Series!Spread, Series!Covariance
<1>5. /\ \A i \in 1..N : tt[i] = t[i] * t[i] /\ tr[i] = t[i] * r[i] /\ rr[i] = r[i] * r[i]
  BY <1>1
<1> HIDE DEF T, R, tt, tr, rr, Q, X, Y
<1>6. PICK A \in Int : A = 0
  OBVIOUS
<1>7. R = b * T + A * T + a * N
  <2>1. Combines(r, N, b, t, A, t, a)
    BY <1>0, <1>1, <1>6 DEF Combines
  <2>2. QED
    BY <2>1, SumsAreLinear DEF R, T
<1>8. X = b * Q + a * T + A * N
  <2>1. Combines(tr, N, b, tt, a, t, A)
    <3>1. \A x \in Int : x * (a + b * x) = b * (x * x) + a * x + A
      BY <1>6
    <3>2. QED
      BY <1>0, <1>1, <1>5, <3>1 DEF Combines
  <2>2. QED
    BY <1>2, <2>1, SumsAreLinear DEF X, Q, T
<1>9. Y = (b * b) * Q + (2 * a * b) * T + (a * a) * N
  <2>1. Combines(rr, N, b * b, tt, 2 * a * b, t, a * a)
    <3>1. \A x \in Int : (a + b * x) * (a + b * x) = (b * b) * (x * x) + (2 * a * b) * x + a * a
      OBVIOUS
    <3>2. QED
      BY <1>0, <1>1, <1>5, <3>1 DEF Combines
  <2>2. b * b \in Int /\ 2 * a * b \in Int /\ a * a \in Int
    OBVIOUS
  <2>3. QED
    BY <1>2, <2>1, <2>2, SumsAreLinear DEF Y, Q, T
<1>10. R = b * T + a * N /\ X = b * Q + a * T
  BY <1>1, <1>3, <1>6, <1>7, <1>8
<1>11. N * (b * Q + a * T) - T * (b * T + a * N) = b * (N * Q - T * T)
  BY <1>1, <1>3
<1>12. N * ((b * b) * Q + (2 * a * b) * T + (a * a) * N) - (b * T + a * N) * (b * T + a * N)
          = (b * b) * (N * Q - T * T)
  BY <1>1, <1>3
<1>13. QED
  BY <1>4, <1>9, <1>10, <1>11, <1>12

\* evaluate: the z-score is that of the definition, for readings of any number.
THEOREM ScoresAreMeant ==
    ASSUME NEW base \in Seq(Int), NEW reading \in Int, NEW threshold \in Int
    PROVE  Series!ScoreIsMeant(reading, base, threshold)
<1> DEFINE n == Len(base)
           T == Series!Total(base)
           s == Series!Spread(base)
           off == n * reading - T
<1>1. IsSeries(base, n) /\ DOMAIN base = 1..n
  BY DEF IsSeries
<1>2. n \in Nat /\ T \in Int /\ s \in Int /\ off \in Int
  <2>1. n \in Nat /\ T \in Int /\ s \in Int
    BY <1>1, SumsOf, SpreadIsMeant DEF IsSeries
  <2>2. QED
    BY <2>1
<1>3. s = 0 <=> \A i, j \in DOMAIN base : base[i] = base[j]
  BY <1>1, SpreadOfLevel
<1>4. Series!SquaredDeviations(base) = n * s
  BY <1>1, SpreadIsMeant
<1>5. s # 0 =>
         (Series!Deviates(reading, base, threshold)
            <=> off * off * (n - 1) >= threshold * threshold * n * s)
  BY DEF Series!Deviates
<1> HIDE DEF n, s, off
<1>6. threshold * threshold * n * s = threshold * threshold * (n * s)
  BY <1>2
<1>7. QED
  BY <1>3, <1>4, <1>5, <1>6 DEF Series!ScoreIsMeant, n, s, off

\* evaluate of the predictor: a line, at any times, is announced exactly if it
\* rises to the threshold within the look-ahead.
THEOREM LinesAreFollowed ==
    ASSUME NEW times \in Seq(Int), NEW start \in Int, NEW slope \in Int,
           NEW threshold \in Int, NEW lookAhead \in Int
    PROVE  Series!LineIsFollowed(times, start, slope, threshold, lookAhead)
<1> DEFINE n == Len(times)
           r == [i \in DOMAIN times |-> start + slope * times[i]]
           left == threshold - r[n]
           xy == Series!Covariance(times, r)
           xx == Series!Covariance(times, times)
           yy == Series!Covariance(r, r)
           s == Series!Spread(times)
           Breach == Series!TrendBreach(times, r, threshold, lookAhead)
<1>1. SUFFICES ASSUME \E i, j \in DOMAIN times : times[i] # times[j]
      PROVE  Breach <=> n >= 5 /\ slope > 0 /\ left \in 0..(lookAhead * slope)
  BY DEF Series!LineIsFollowed
<1>2. IsSeries(times, n) /\ DOMAIN times = 1..n /\ n \in Nat
  BY DEF IsSeries
<1>3. \A i \in 1..n : times[i] \in Int /\ r[i] = start + slope * times[i] /\ r[i] \in Int
  BY <1>2
<1>4. IsSeries(r, n) /\ Len(r) = n
  <2>1. IsSeries(r, n)
    BY <1>2, <1>3 DEF IsSeries
  <2>2. QED
    BY <2>1, SeriesLength
<1>5. s \in Int /\ s > 0
  <2>1. s \in Int
    BY <1>2, SpreadIsMeant
  <2>2. s >= 0 /\ s # 0
    BY <1>1, <1>2, SpreadOfLevel
  <2>3. QED
    BY <2>1, <2>2
<1>6. left \in Int
  <2>1. n \in 1..n
    BY <1>1, <1>2
  <2>2. QED
    BY <1>3, <2>1
<1>7. Breach <=> /\ n >= 5
                 /\ xx # 0 /\ yy # 0 /\ 10 * xy * xy >= 7 * xx * yy
                 /\ xy > 0
                 /\ left >= 0 /\ left * xx <= lookAhead * xy
  BY <1>4 DEF Series!TrendBreach
<1>8. xx = s /\ xy = slope * s /\ yy = (slope * slope) * s
  <2>1. IsLine(r, n, start, slope, times)
    BY <1>3 DEF IsLine
  <2> HIDE DEF n, r
  <2>2. QED
    BY <1>2, <1>4, <2>1, LineVaries
<1> HIDE DEF n, r, left, xy, xx, yy, s, Breach
<1>9. CASE slope <= 0
  <2>1. ~(slope * s > 0)
    BY <1>5, <1>9
  <2>2. QED
    BY <1>7, <1>8, <1>9, <2>1
<1>10. CASE slope > 0
  <2>1. slope * s > 0 /\ (slope * slope) * s > 0
    <3>1. slope * slope \in Int /\ slope * slope > 0
      BY <1>10
    <3>2. QED
      BY <1>5, <1>10, <3>1
  <2>2. 10 * (slope * s) * (slope * s) >= 7 * s * ((slope * slope) * s)
    <3> DEFINE y == (slope * s) * (slope * s)
    <3>1. slope * s \in Int /\ y \in Int /\ y >= 0
      BY <1>5, Squares
    <3>2. 10 * (slope * s) * (slope * s) = 10 * y
      BY <1>5
    <3>3. 7 * s * ((slope * slope) * s) = 7 * y
      BY <1>5
    <3> HIDE DEF y
    <3>4. QED
      BY <3>1, <3>2, <3>3
  <2>3. left * s <= lookAhead * (slope * s) <=> left <= lookAhead * slope
    <3>1. left * s = s * left /\ lookAhead * (slope * s) = s * (lookAhead * slope)
          /\ lookAhead * slope \in Int
      BY <1>5, <1>6
    <3>2. QED
      BY <1>5, <1>6, <3>1, Cancels
  <2>4. lookAhead * slope \in Int
    OBVIOUS
  <2>5. QED
    BY <1>5, <1>6, <1>7, <1>8, <1>10, <2>1, <2>2, <2>3, <2>4
<1>11. QED
  BY <1>9, <1>10

\* evaluate of the detector: after any number of equal readings every other integer
\* is reported at thresholds up to 100, unless the level is 0, which is never left.
THEOREM LevelsAreWatched ==
    ASSUME NEW n \in Nat \ {0}, NEW level \in Int, NEW reading \in Int, NEW threshold \in 1..100
    PROVE  Series!LevelIsWatched(reading, n, level, threshold)
<1> DEFINE base == [i \in 1..n |-> level]
           T == Series!Total(base)
           off == n * reading - T
           d == reading - level
<1>1. IsSeries(base, n) /\ Len(base) = n
  <2>1. IsSeries(base, n)
    BY DEF IsSeries
  <2>2. QED
    BY <2>1, SeriesLength
<1>2. T = n * level
  BY <1>1, LevelSums
<1>3. Series!Spread(base) = 0
  BY <1>1, SpreadOfLevel
<1>4. Series!Deviates(reading, base, threshold)
         <=> T # 0 /\ off # 0 /\ 100 * Series!Abs(off) >= threshold * n
  BY <1>1, <1>3 DEF Series!Deviates
<1> HIDE DEF base, T
<1>5. n \in Int /\ n > 0 /\ d \in Int /\ off = n * d
  BY <1>2
<1>6. T # 0 <=> level # 0
  BY <1>2, <1>5, Cancels
<1>7. off # 0 <=> d # 0
  BY <1>5, Cancels
<1>8. d # 0 => 100 * Series!Abs(off) >= threshold * n
  <2>1. CASE d > 0
    <3>1. n * 1 <= n * d
      BY <1>5, <2>1, Cancels
    <3>2. off >= n /\ Series!Abs(off) = off
      BY <1>5, <3>1 DEF Series!Abs
    <3>3. QED
      BY <1>5, <3>2
  <2>2. CASE d < 0
    <3>1. n * d <= n * (-1)
      BY <1>5, <2>2, Cancels
    <3>2. -off >= n /\ Series!Abs(off) = -off
      BY <1>5, <3>1 DEF Series!Abs
    <3>3. QED
      BY <1>5, <3>2
  <2>3. QED
    BY <1>5, <2>1, <2>2
<1>9. QED
  BY <1>4, <1>6, <1>7, <1>8 DEF Series!LevelIsWatched, base
=============================================================================
