------------------------ MODULE Orchestrator_proofs ------------------------
(***************************************************************************)
(* Proofs about Orchestrator, for any incidents, agents, budgets and       *)
(* bounds.                                                                 *)
(***************************************************************************)
EXTENDS Orchestrator, SequenceTheorems, TLAPS

USE DEF NoState, States, Terminal, TimedStates

-----------------------------------------------------------------------------
(* Type correctness.                                                       *)

SavingKinds == {"anomaly", "diagnosis", "approved", "approve",
                "pending_human_approval", "success"}

\* Which messages an activation can be about at an await: a row is inserted
\* and an FSM opened for an anomaly, and the kinds that save have a status.
Shape ==
    \A s \in Subs : Busy(s) =>
        /\ task[s].pc \in {"insert", "open"} => task[s].m.kind = "anomaly"
        /\ task[s].pc = "save" => task[s].m.kind \in SavingKinds

\* The values that IncidentFSM builds are FSMs.
LEMMA FSMValues ==
    /\ NoFSM \in FSMs
    /\ \A target \in States, fsm \in FSMs :
          /\ Moved(fsm, target) \in FSMs
          /\ TryTransition(fsm, target) \in FSMs
    /\ \A state \in Statuses, overdue \in BOOLEAN : NewFSM(state, overdue) \in FSMs
    /\ \A fsm \in FSMs : IncrementRetry(fsm) \in FSMs
<1>1. \A target \in States, fsm \in FSMs : Moved(fsm, target) \in FSMs
  BY DEF FSMs, Moved
<1>2. \A target \in States, fsm \in FSMs : TryTransition(fsm, target) \in FSMs
  BY <1>1 DEF TryTransition
<1>3. \A state \in Statuses, overdue \in BOOLEAN : NewFSM(state, overdue) \in FSMs
  <2> TAKE state \in Statuses, overdue \in BOOLEAN
  <2> DEFINE late == overdue /\ state \in TimedStates
  <2>1. late \in BOOLEAN
    OBVIOUS
  <2> HIDE DEF late
  <2>2. [state |-> state, retries |-> 0, late |-> late] \in FSMs
    BY <2>1 DEF FSMs, Statuses
  <2>3. NewFSM(state, overdue) = [state |-> state, retries |-> 0, late |-> late]
    BY Zenon DEF NewFSM, late
  <2>4. QED
    BY <2>2, <2>3
<1>4. NoFSM \in FSMs
  BY <1>3 DEF NoFSM, Statuses
<1>5. \A fsm \in FSMs : IncrementRetry(fsm) \in FSMs
  BY DEF FSMs, IncrementRetry
<1>6. QED
  BY <1>1, <1>2, <1>3, <1>4, <1>5

\* Receiving a message takes it off its queue and starts an activation.
LEMMA StartType ==
    ASSUME TypeOK, NEW s \in Subs, CanReceive(s), NEW pc \in Pcs, Start(s, pc)
    PROVE  /\ Head(inbox[s]) \in Message
           /\ inbox' \in [Subs -> Seq(Message)]
           /\ task' \in [Subs -> {Idle} \union Activation]
<1>1. inbox[s] \in Seq(Message) /\ inbox[s] # <<>>
  BY DEF TypeOK, CanReceive
<1>2. Head(inbox[s]) \in Message /\ Tail(inbox[s]) \in Seq(Message)
  BY <1>1, HeadTailProperties
<1>3. [pc |-> pc, m |-> Head(inbox[s]), own |-> TRUE] \in Activation
  BY <1>2 DEF Activation
<1>4. QED
  BY <1>2, <1>3 DEF TypeOK, Start

LEMMA GotoType ==
    ASSUME TypeOK, NEW s \in Subs, Busy(s), NEW pc \in Pcs, Goto(s, pc)
    PROVE  task' \in [Subs -> {Idle} \union Activation]
BY DEF TypeOK, Busy, Goto, Activation

LEMMA RedeliverType ==
    ASSUME TypeOK, NEW s \in Subs, Busy(s), Redeliver(s)
    PROVE  /\ inbox' \in [Subs -> Seq(Message)]
           /\ task' \in [Subs -> {Idle} \union Activation]
<1>1. task[s].m \in Message
  BY DEF TypeOK, Busy, Activation
<1>2. Append(inbox[s], task[s].m) \in Seq(Message)
  BY <1>1, AppendProperties DEF TypeOK
<1>3. QED
  BY <1>2 DEF TypeOK, Redeliver

LEMMA DisownType ==
    ASSUME TypeOK, NEW I
    PROVE  /\ Disown(I) \in [Subs -> {Idle} \union Activation]
           /\ \A s \in Subs : /\ Busy(s) <=> Disown(I)[s] # Idle
                              /\ Busy(s) => /\ Disown(I)[s].pc = task[s].pc
                                            /\ Disown(I)[s].m = task[s].m
                                            /\ Disown(I)[s] \in Activation
<1>1. \A s \in Subs : Busy(s) =>
         /\ task[s] \in Activation
         /\ [task[s] EXCEPT !.own = FALSE] \in Activation
         /\ [task[s] EXCEPT !.own = FALSE].pc = task[s].pc
         /\ [task[s] EXCEPT !.own = FALSE].m = task[s].m
  BY DEF TypeOK, Busy, Activation
<1>2. \A act \in Activation : act # Idle
  BY DEF Activation, Idle, Pcs
<1>3. QED
  BY <1>1, <1>2 DEF TypeOK, Disown, Busy

\* A first segment of a handler that only changes fsms, inbox and task.
StartShape(s, pc) ==
    LET kind == Head(inbox[s]).kind IN
    /\ pc \in Pcs \ {"open"}
    /\ pc = "insert" => kind = "anomaly"
    /\ pc = "save" => kind \in SavingKinds

LEMMA StartKeepsType ==
    ASSUME TypeOK, Shape, NEW s \in Subs, CanReceive(s),
           NEW pc, StartShape(s, pc), Start(s, pc),
           fsms' \in [Incidents -> FSMs]
    PROVE  TypeOK' /\ Shape'
<1>1. /\ Head(inbox[s]) \in Message
      /\ inbox' \in [Subs -> Seq(Message)]
      /\ task' \in [Subs -> {Idle} \union Activation]
  BY StartType DEF StartShape
<1>2. TypeOK'
  BY <1>1 DEF TypeOK, Start
<1>3. task' = [task EXCEPT ![s] = [pc |-> pc, m |-> Head(inbox[s]), own |-> TRUE]]
  BY DEF Start
<1>4. \A r \in Subs : r # s => task'[r] = task[r]
  BY <1>3 DEF TypeOK
<1>5. task'[s] = [pc |-> pc, m |-> Head(inbox[s]), own |-> TRUE]
  BY <1>3 DEF TypeOK
<1>6. Shape'
  BY <1>4, <1>5 DEF Shape, Busy, StartShape
<1>7. QED
  BY <1>2, <1>6

LEMMA DeliverKeepsType ==
    ASSUME TypeOK, Shape, NEW s \in Subs, Deliver(s)
    PROVE  TypeOK' /\ Shape'
<1> DEFINE i == Head(inbox[s]).id
<1>1. ASSUME CanReceive(s) PROVE i \in Incidents /\ fsms[i] \in FSMs
  <2>1. Head(inbox[s]) \in Message
    BY <1>1, HeadTailProperties DEF TypeOK, CanReceive
  <2>2. QED
    BY <2>1 DEF Message, TypeOK
<1>2. ASSUME CanReceive(s), NEW target \in States, NEW pc,
             StartShape(s, pc), MoveOrReturn(s, target, pc)
      PROVE  TypeOK' /\ Shape'
  <2>1. CASE CanTransition(fsms[i], target) /\ Start(s, pc)
             /\ fsms' = [fsms EXCEPT ![i] = Moved(@, target)]
    <3>1. fsms' \in [Incidents -> FSMs]
      BY <1>1, <1>2, <2>1, FSMValues DEF TypeOK
    <3>2. QED
      BY <1>2, <2>1, <3>1, StartKeepsType
  <2>2. CASE Start(s, "ack") /\ UNCHANGED fsms
    BY <1>2, <2>2, StartKeepsType DEF TypeOK, StartShape, Pcs
  <2>3. QED
    BY <1>2, <2>1, <2>2 DEF MoveOrReturn
<1>3. ASSUME CanReceive(s), RetryOrEscalate(s)
      PROVE  TypeOK' /\ Shape'
  <2>1. CASE Start(s, "timeline") /\ fsms' = [fsms EXCEPT ![i] = IncrementRetry(@)]
    <3>1. fsms' \in [Incidents -> FSMs]
      BY <1>1, <1>3, <2>1, FSMValues DEF TypeOK
    <3>2. QED
      BY <1>3, <2>1, <3>1, StartKeepsType DEF StartShape, Pcs
  <2>2. CASE Start(s, "escalate") /\ UNCHANGED fsms
    BY <1>3, <2>2, StartKeepsType DEF TypeOK, StartShape, Pcs
  <2>3. CASE Start(s, "ack") /\ UNCHANGED fsms
    BY <1>3, <2>3, StartKeepsType DEF TypeOK, StartShape, Pcs
  <2>4. QED
    BY <1>3, <2>1, <2>2, <2>3 DEF RetryOrEscalate
<1>4. CASE s = "anomalies" /\ HandleAnomaly
  <2> DEFINE pc == IF Tracked(i) THEN "ack" ELSE "insert"
  <2>1. CanReceive(s) /\ Start(s, pc) /\ UNCHANGED fsms /\ StartShape(s, pc)
    BY <1>4 DEF HandleAnomaly, Receive, StartShape, Pcs
  <2>2. QED
    BY <2>1, StartKeepsType DEF TypeOK
<1>5. CASE s = "diagnosis" /\ HandleDiagnosisResult
  BY <1>2, <1>5 DEF HandleDiagnosisResult, Receive, StartShape, Pcs, SavingKinds
<1>6. CASE s = "safety" /\ HandleApproved
  BY <1>2, <1>6 DEF HandleApproved, Receive, StartShape, Pcs
<1>7. CASE s = "safety" /\ HandleRejected
  BY <1>3, <1>7 DEF HandleRejected, Receive
<1>8. CASE s = "safety" /\ HandlePending
  <2> DEFINE pc == IF Tracked(i) THEN "timeline" ELSE "ack"
  <2>1. /\ CanReceive(s) /\ Start(s, pc) /\ StartShape(s, pc)
        /\ fsms' = [fsms EXCEPT ![i] = TryTransition(@, "safety_review")]
    BY <1>8 DEF HandlePending, Receive, StartShape, Pcs
  <2>2. fsms' \in [Incidents -> FSMs]
    BY <1>1, <2>1, FSMValues DEF TypeOK
  <2>3. QED
    BY <2>1, <2>2, StartKeepsType
<1>9. CASE s = "executions" /\ HandleSuccess
  <2>1. CASE Start(s, "ack") /\ UNCHANGED fsms
    BY <1>9, <2>1, StartKeepsType DEF TypeOK, StartShape, Pcs, HandleSuccess, Receive
  <2>2. CASE /\ Start(s, "save")
             /\ fsms' = [fsms EXCEPT ![i] = Moved(Moved(@, "verifying"), "resolved")]
    <3>1. CanReceive(s) /\ StartShape(s, "save")
      BY <1>9 DEF HandleSuccess, Receive, StartShape, Pcs, SavingKinds
    <3>2. fsms' \in [Incidents -> FSMs]
      <4>1. Moved(Moved(fsms[i], "verifying"), "resolved") \in FSMs
        BY <1>1, <3>1, FSMValues
      <4>2. QED
        BY <2>2, <4>1 DEF TypeOK
    <3>3. QED
      BY <2>2, <3>1, <3>2, StartKeepsType
  <2>3. QED
    BY <1>9, <2>1, <2>2 DEF HandleSuccess
<1>10. CASE s = "executions" /\ HandleFailed
  BY <1>3, <1>10 DEF HandleFailed, Receive
<1>11. CASE s = "approvals" /\ HandleApprove
  BY <1>2, <1>11 DEF HandleApprove, Receive, StartShape, Pcs
<1>12. CASE s = "approvals" /\ HandleReject
  <2> DEFINE pc == IF Tracked(i) THEN "timeline" ELSE "ack"
  <2>1. CanReceive(s) /\ Start(s, pc) /\ UNCHANGED fsms /\ StartShape(s, pc)
    BY <1>12 DEF HandleReject, Receive, StartShape, Pcs
  <2>2. QED
    BY <2>1, StartKeepsType DEF TypeOK
<1>13. QED
  BY <1>4, <1>5, <1>6, <1>7, <1>8, <1>9, <1>10, <1>11, <1>12 DEF Deliver

\* The later segments of a handler.
LEMMA GotoShape ==
    ASSUME TypeOK, Shape, NEW s \in Subs, Busy(s),
           NEW pc \in Pcs \ {"insert", "open"}, Goto(s, pc),
           pc = "save" => task[s].m.kind \in SavingKinds
    PROVE  Shape'
<1>1. \A r \in Subs : r # s => task'[r] = task[r]
  BY DEF Goto, TypeOK
<1>2. task'[s].pc = pc /\ task'[s].m = task[s].m
  BY DEF Goto, TypeOK, Busy, Activation
<1>3. QED
  BY <1>1, <1>2 DEF Shape, Busy

LEMMA RedeliverShape ==
    ASSUME TypeOK, Shape, NEW s \in Subs, Redeliver(s)
    PROVE  Shape'
BY DEF Shape, Busy, Redeliver, TypeOK

LEMMA SaveType ==
    \A kind \in SavingKinds : /\ SavedStatus(kind) \in States
                              /\ AfterSave(kind) \in {"route", "ack", "announce"}
BY DEF SavingKinds, SavedStatus, AfterSave

LEMMA LifecycleType ==
    \A m \in Message : LifecycleEvents(m) \subseteq [type : OutTypes, id : Incidents]
BY DEF LifecycleEvents, Message, OutTypes, Out

LEMMA ProceedKeepsType ==
    ASSUME TypeOK, Shape, NEW s \in Subs, Proceed(s)
    PROVE  TypeOK' /\ Shape'
<1> DEFINE m == task[s].m
           i == m.id
<1>1. Busy(s)
  BY DEF Proceed, InsertIncident, OpenIncident, SaveStatus, WriteTimeline,
         RouteToDiagnoser, PublishLifecycle, EscalateFromHandler, Ack, At
<1>2. m \in Message /\ m.kind \in Kinds /\ i \in Incidents /\ fsms[i] \in FSMs
  BY <1>1 DEF TypeOK, Busy, Activation, Message
<1>3. CASE InsertIncident(s)
  <2>1. CASE ~HasRow(i) /\ Goto(s, "open") /\ UNCHANGED inbox
             /\ db' = [db EXCEPT ![i].status = "detecting"]
    <3>1. task' \in [Subs -> {Idle} \union Activation]
      BY <1>1, <2>1, GotoType DEF Pcs
    <3>2. db' \in [Incidents -> [status : Statuses, resolved : BOOLEAN]]
      BY <1>2, <2>1 DEF TypeOK, Statuses
    <3>3. \A r \in Subs : r # s => task'[r] = task[r]
      BY <2>1 DEF Goto, TypeOK
    <3>4. task'[s].pc = "open" /\ task'[s].m = task[s].m
      BY <1>1, <2>1 DEF Goto, TypeOK, Busy, Activation
    <3>5. Shape'
      BY <1>1, <1>3, <3>3, <3>4 DEF Shape, Busy, InsertIncident, At
    <3>6. QED
      BY <1>3, <2>1, <3>1, <3>2, <3>5 DEF TypeOK, InsertIncident
  <2>2. CASE Redeliver(s) /\ UNCHANGED db
    BY <1>1, <1>3, <2>2, RedeliverType, RedeliverShape DEF TypeOK, InsertIncident
  <2>3. QED
    BY <1>3, <2>1, <2>2 DEF InsertIncident
<1>4. CASE OpenIncident(s)
  <2> DEFINE opened == Moved(NewFSM("detecting", FALSE), "diagnosing")
             others == Disown({i})
  <2>1. /\ fsms' = [fsms EXCEPT ![i] = opened]
        /\ task' = [others EXCEPT ![s].pc = "save"]
        /\ UNCHANGED <<registry, loop, db, inbox, sent, emitted, faults, crashes>>
        /\ At(s, "open")
    BY <1>4 DEF OpenIncident
  <2>2. opened \in FSMs
    BY FSMValues DEF Statuses
  <2>3. fsms' \in [Incidents -> FSMs]
    BY <1>2, <2>1, <2>2 DEF TypeOK
  <2>4. /\ others \in [Subs -> {Idle} \union Activation]
        /\ \A r \in Subs : /\ Busy(r) <=> others[r] # Idle
                           /\ Busy(r) => /\ others[r].pc = task[r].pc
                                         /\ others[r].m = task[r].m
                                         /\ others[r] \in Activation
    BY DisownType
  <2> HIDE DEF opened, others
  <2>5. /\ task'[s] = [others[s] EXCEPT !.pc = "save"]
        /\ \A r \in Subs : r # s => task'[r] = others[r]
    BY <2>1, <2>4
  <2>6. task'[s] \in Activation /\ task'[s].pc = "save" /\ task'[s].m = m
    BY <1>1, <2>4, <2>5 DEF Activation, Pcs
  <2>7. task' \in [Subs -> {Idle} \union Activation]
    BY <2>1, <2>4, <2>6
  <2>8. m.kind = "anomaly"
    BY <1>1, <2>1 DEF Shape, At
  <2>9. Shape'
    <3> SUFFICES ASSUME NEW r \in Subs, Busy(r)'
                 PROVE  /\ task'[r].pc \in {"insert", "open"} => task'[r].m.kind = "anomaly"
                        /\ task'[r].pc = "save" => task'[r].m.kind \in SavingKinds
      BY DEF Shape
    <3>1. CASE r = s
      BY <3>1, <2>6, <2>8 DEF SavingKinds
    <3>2. CASE r # s
      <4>1. Busy(r) /\ task'[r].pc = task[r].pc /\ task'[r].m = task[r].m
        BY <3>2, <2>4, <2>5 DEF Busy
      <4>2. QED
        BY <4>1 DEF Shape
    <3>3. QED
      BY <3>1, <3>2
  <2>10. QED
    BY <2>1, <2>3, <2>7, <2>9 DEF TypeOK
<1>5. CASE SaveStatus(s)
  <2>1. m.kind \in SavingKinds
    BY <1>1, <1>5 DEF SaveStatus, At, Shape
  <2>2. AfterSave(m.kind) \in {"route", "ack", "announce"} /\ SavedStatus(m.kind) \in States
    BY <2>1, SaveType
  <2>3. Goto(s, AfterSave(m.kind))
    BY <1>5 DEF SaveStatus
  <2>4. task' \in [Subs -> {Idle} \union Activation] /\ Shape'
    BY <1>1, <2>2, <2>3, GotoType, GotoShape DEF Pcs
  <2>5. [status |-> SavedStatus(m.kind), resolved |-> db[i].resolved \/ m.kind = "success"]
          \in [status : Statuses, resolved : BOOLEAN]
    <3> DEFINE res == db[i].resolved \/ m.kind = "success"
    <3>1. res \in BOOLEAN
      OBVIOUS
    <3> HIDE DEF res
    <3>2. [status |-> SavedStatus(m.kind), resolved |-> res]
            \in [status : Statuses, resolved : BOOLEAN]
      BY <2>2, <3>1 DEF Statuses
    <3>3. QED
      BY <3>2 DEF res
  <2>6. db' \in [Incidents -> [status : Statuses, resolved : BOOLEAN]]
    <3> DEFINE row == [status   |-> SavedStatus(m.kind),
                       resolved |-> db[i].resolved \/ m.kind = "success"]
    <3>1. db' = db \/ db' = [db EXCEPT ![i] = row]
      BY <1>5 DEF SaveStatus
    <3>2. row \in [status : Statuses, resolved : BOOLEAN]
      BY <2>5
    <3> HIDE DEF row
    <3>3. QED
      BY <3>1, <3>2 DEF TypeOK
  <2>7. QED
    BY <1>5, <2>4, <2>6 DEF TypeOK, SaveStatus
<1>6. CASE WriteTimeline(s)
  <2>1. CASE m.kind \in {"approved", "approve", "pending_human_approval"}
             /\ Goto(s, "save") /\ UNCHANGED fsms
    <3>1. task' \in [Subs -> {Idle} \union Activation] /\ Shape'
      BY <1>1, <2>1, GotoType, GotoShape DEF Pcs, SavingKinds
    <3>2. QED
      BY <1>6, <2>1, <3>1 DEF TypeOK, WriteTimeline
  <2>2. CASE /\ \/ fsms' = fsms
                \/ fsms' = [fsms EXCEPT ![i] = TryTransition(@, "proposing_remediation")]
             /\ Goto(s, "ack")
    <3>1. task' \in [Subs -> {Idle} \union Activation] /\ Shape'
      BY <1>1, <2>2, GotoType, GotoShape DEF Pcs
    <3>2. fsms' \in [Incidents -> FSMs]
      BY <1>2, <2>2, FSMValues DEF TypeOK
    <3>3. QED
      BY <1>6, <3>1, <3>2 DEF TypeOK, WriteTimeline
  <2>3. CASE Goto(s, "escalate") /\ UNCHANGED fsms
    <3>1. task' \in [Subs -> {Idle} \union Activation] /\ Shape'
      BY <1>1, <2>3, GotoType, GotoShape DEF Pcs
    <3>2. QED
      BY <1>6, <2>3, <3>1 DEF TypeOK, WriteTimeline
  <2>4. QED
    BY <1>6, <2>1, <2>2, <2>3 DEF WriteTimeline
<1>7. CASE RouteToDiagnoser(s)
  <2>1. task' \in [Subs -> {Idle} \union Activation] /\ Shape'
    BY <1>1, <1>7, GotoType, GotoShape DEF Pcs, RouteToDiagnoser
  <2>2. QED
    BY <1>2, <1>7, <2>1 DEF TypeOK, RouteToDiagnoser, Out, OutTypes
<1>8. CASE PublishLifecycle(s)
  <2>1. task' \in [Subs -> {Idle} \union Activation] /\ Shape'
    BY <1>1, <1>8, GotoType, GotoShape DEF Pcs, PublishLifecycle
  <2>2. QED
    BY <1>2, <1>8, <2>1, LifecycleType DEF TypeOK, PublishLifecycle
<1>9. CASE EscalateFromHandler(s)
  <2>1. task' \in [Subs -> {Idle} \union Activation] /\ Shape'
    BY <1>1, <1>9, GotoType, GotoShape DEF Pcs, EscalateFromHandler
  <2>2. QED
    BY <1>2, <1>9, <2>1 DEF TypeOK, EscalateFromHandler, Out, OutTypes
<1>10. CASE Ack(s)
  BY <1>10 DEF Ack, TypeOK, Shape, Busy
<1>11. QED
  BY <1>3, <1>4, <1>5, <1>6, <1>7, <1>8, <1>9, <1>10 DEF Proceed

\* The main task keeps its own record well typed.
LEMMA LoopType ==
    ASSUME NEW at \in LoopPcs, NEW todo \in SUBSET Incidents, NEW dead \in SUBSET Agents
    PROVE  LoopAt(at, todo, dead) \in Loop
BY DEF LoopAt, Loop, NoRows, Statuses

LEMMA SleepingType == Sleeping \in Loop /\ Down \in Loop
BY LoopType DEF Sleeping, Down, LoopPcs

LEMMA AgentsLeftType == \A dead \in SUBSET Agents : AgentsLeft(dead) \in Loop
BY LoopType, SleepingType DEF AgentsLeft, LoopPcs

\* One escalation of handle_dead_agent, or its failure.
LEMMA EscalateNextType ==
    ASSUME TypeOK, NEW keys \in SUBSET Incidents, NEW states \in SUBSET States,
           NEW dead \in SUBSET Agents, EscalateNext(keys, states, dead)
    PROVE  /\ loop' \in Loop
           /\ emitted' \subseteq [type : OutTypes, id : Incidents]
           /\ faults' \in Nat
<1>1. PICK i \in Affected(keys, states) :
        \/ /\ emitted' = emitted \union {Out("escalation", i)}
           /\ \E passed \in SUBSET (keys \ Affected(keys, states)) :
                loop' = [at |-> "scan", todo |-> keys \ (passed \union {i}),
                         rows |-> NoRows, dead |-> dead,
                         waiting |-> states, seen |-> Active]
           /\ UNCHANGED faults
        \/ CycleFails
  BY DEF EscalateNext
<1>2. i \in Incidents
  BY DEF Affected
<1>3. CASE CycleFails
  BY <1>3, SleepingType DEF CycleFails, TypeOK
<1>4. CASE /\ emitted' = emitted \union {Out("escalation", i)}
           /\ \E passed \in SUBSET (keys \ Affected(keys, states)) :
                loop' = [at |-> "scan", todo |-> keys \ (passed \union {i}),
                         rows |-> NoRows, dead |-> dead,
                         waiting |-> states, seen |-> Active]
           /\ UNCHANGED faults
  <2>1. NoRows \in [Incidents -> Statuses] /\ Active \in SUBSET Incidents
    BY DEF NoRows, Statuses, Active
  <2>2. loop' \in Loop
    BY <1>4, <2>1 DEF Loop, LoopPcs
  <2>3. QED
    BY <1>2, <1>4, <2>2 DEF TypeOK, Out, OutTypes
<1>5. QED
  BY <1>1, <1>3, <1>4

LEMMA MainStepKeepsType ==
    ASSUME TypeOK, Shape, MainStep \/ Restart
    PROVE  TypeOK' /\ Shape'
<1>1. loop \in Loop /\ Active \in SUBSET Incidents /\ Keys \in SUBSET Incidents
  BY DEF TypeOK, Loop, Active, Keys
<1>2. CASE Restart
  BY <1>2, LoopType DEF Restart, MainUnchanged, TypeOK, Shape, Busy, LoopPcs
<1>3. CASE QueryInFlight
  <2> DEFINE rows == [i \in Incidents |-> IF InFlight(i) THEN db[i].status ELSE NoState]
  <2>1. rows \in [Incidents -> Statuses]
    BY DEF TypeOK, Statuses
  <2>2. loop' = [LoopAt("load", {}, {}) EXCEPT !.rows = rows]
    BY <1>3 DEF QueryInFlight
  <2> HIDE DEF rows
  <2>3. loop' \in Loop
    BY <2>1, <2>2 DEF LoopAt, Loop, LoopPcs
  <2>4. QED
    BY <1>3, <2>3 DEF QueryInFlight, MainUnchanged, TypeOK, Shape, Busy
<1>4. CASE LoadInFlight
  <2> DEFINE loaded == {i \in Incidents : loop.rows[i] # NoState}
  <2>1. PICK overdue \in SUBSET {i \in loaded : loop.rows[i] \in SlowStates} :
          fsms' = [i \in Incidents |-> IF i \in loaded
                                       THEN NewFSM(loop.rows[i], i \in overdue)
                                       ELSE fsms[i]]
    BY <1>4 DEF LoadInFlight
  <2>2. \A i \in Incidents : NewFSM(loop.rows[i], i \in overdue) \in FSMs
    <3> TAKE i \in Incidents
    <3>1. (i \in overdue) \in BOOLEAN /\ loop.rows[i] \in Statuses
      BY <1>1 DEF Loop
    <3>2. QED
      BY <3>1, FSMValues
  <2>3. fsms' \in [Incidents -> FSMs]
    BY <2>1, <2>2 DEF TypeOK
  <2>4. task' = Disown(loaded)
    BY <1>4 DEF LoadInFlight
  <2> HIDE DEF loaded
  <2>5. task' \in [Subs -> {Idle} \union Activation] /\ Shape'
    BY <2>4, DisownType DEF Shape, Busy
  <2>6. QED
    BY <1>4, <2>3, <2>5, SleepingType DEF LoadInFlight, TypeOK
<1>5. ASSUME NEW i \in Incidents, VisitNext(i)
      PROVE  loop' \in Loop
  BY <1>1, <1>5, LoopType DEF VisitNext, LoopPcs
<1>6. ASSUME NEW i \in Incidents, RetryCurrentState(i)
      PROVE  TypeOK' /\ Shape'
  <2>1. fsms' \in [Incidents -> FSMs]
    BY <1>6, FSMValues DEF RetryCurrentState, TypeOK
  <2>2. loop' \in Loop /\ emitted' = emitted /\ faults' \in Nat
    BY <1>5, <1>6, SleepingType DEF RetryCurrentState, CycleFails, TypeOK
  <2>3. QED
    BY <1>6, <2>1, <2>2 DEF RetryCurrentState, MainUnchanged, TypeOK, Shape, Busy
<1>7. ASSUME NEW i \in Incidents, EscalateToHuman(i)
      PROVE  TypeOK' /\ Shape'
  <2>1. /\ loop' \in Loop /\ faults' \in Nat
        /\ emitted' \subseteq [type : OutTypes, id : Incidents]
    BY <1>5, <1>7, SleepingType DEF EscalateToHuman, CycleFails, TypeOK, Out, OutTypes
  <2>2. QED
    BY <1>7, <2>1 DEF EscalateToHuman, MainUnchanged, TypeOK, Shape, Busy
<1>8. CASE PruneStaleAgents
  <2>1. registry' \in [Agents -> AgentStates]
    BY <1>8 DEF PruneStaleAgents, TypeOK, AgentStates
  <2>2. loop' \in Loop
    BY <1>8, AgentsLeftType DEF PruneStaleAgents
  <2>3. QED
    BY <1>8, <2>1, <2>2 DEF PruneStaleAgents, MainUnchanged, TypeOK, Shape, Busy
<1>9. ASSUME NEW a \in Agents, HandleDeadAgent(a)
      PROVE  TypeOK' /\ Shape'
  <2>1. DependentStates(AgentType[a]) \in SUBSET States /\ loop.dead \ {a} \in SUBSET Agents
    BY <1>1 DEF DependentStates, Loop
  <2>2. /\ loop' \in Loop /\ faults' \in Nat
        /\ emitted' \subseteq [type : OutTypes, id : Incidents]
    BY <1>1, <1>9, <2>1, EscalateNextType, AgentsLeftType DEF HandleDeadAgent, TypeOK
  <2>3. QED
    BY <1>9, <2>2 DEF HandleDeadAgent, MainUnchanged, TypeOK, Shape, Busy
<1>10. CASE ContinueScan
  <2>1. /\ loop.todo \in SUBSET Incidents /\ loop.waiting \in SUBSET States
        /\ loop.dead \in SUBSET Agents
    BY <1>1 DEF Loop
  <2>2. /\ loop' \in Loop /\ faults' \in Nat
        /\ emitted' \subseteq [type : OutTypes, id : Incidents]
    BY <1>10, <2>1, EscalateNextType, AgentsLeftType DEF ContinueScan, TypeOK
  <2>3. QED
    BY <1>10, <2>2 DEF ContinueScan, MainUnchanged, TypeOK, Shape, Busy
<1>11. CASE DictionaryChanged
  BY <1>11, SleepingType DEF DictionaryChanged, MainUnchanged, TypeOK, Shape, Busy
<1>12. QED
  BY <1>2, <1>3, <1>4, <1>6, <1>7, <1>8, <1>9, <1>10, <1>11 DEF MainStep

LEMMA EnvironmentKeepsType ==
    ASSUME TypeOK, Shape, Environment
    PROVE  TypeOK' /\ Shape'
<1>1. ASSUME NEW m \in Message, Publish(m) PROVE TypeOK' /\ Shape'
  <2>1. SubOf[m.kind] \in Subs
    BY DEF Message, Kinds, SubOf, Subs
  <2>2. inbox' \in [Subs -> Seq(Message)]
    BY <1>1, <2>1, AppendProperties DEF Publish, TypeOK
  <2>3. QED
    BY <1>1, <2>2 DEF Publish, TypeOK, Shape, Busy
<1>2. ASSUME NEW i \in Incidents, ClockRunsOut(i) PROVE TypeOK' /\ Shape'
  <2>1. [fsms[i] EXCEPT !.late = TRUE] \in FSMs
    BY DEF TypeOK, FSMs
  <2>2. QED
    BY <1>2, <2>1 DEF ClockRunsOut, TypeOK, Shape, Busy
<1>3. ASSUME NEW a \in Agents, Heartbeat(a) \/ HeartbeatLost(a)
      PROVE  TypeOK' /\ Shape'
  BY <1>3 DEF Heartbeat, HeartbeatLost, TypeOK, Shape, Busy, AgentStates
<1>4. QED
  BY <1>1, <1>2, <1>3 DEF Environment

\* What a handler received and did not acknowledge goes back to its queue.
LEMMA FailureKeepsType ==
    ASSUME TypeOK, Shape,
           \/ \E s \in Subs : DiscardExpired(s) \/ HandlerFails(s) \/ AckWaitExpires(s)
           \/ QueryFails
           \/ Crash
    PROVE  TypeOK' /\ Shape'
<1>1. ASSUME NEW s \in Subs, DiscardExpired(s) PROVE TypeOK' /\ Shape'
  <2>1. Tail(inbox[s]) \in Seq(Message)
    BY <1>1, HeadTailProperties DEF DiscardExpired, CanReceive, TypeOK
  <2>2. QED
    BY <1>1, <2>1 DEF DiscardExpired, TypeOK, Shape, Busy
<1>2. ASSUME NEW s \in Subs, HandlerFails(s) PROVE TypeOK' /\ Shape'
  BY <1>2, RedeliverType, RedeliverShape DEF HandlerFails, TypeOK
<1>3. CASE QueryFails
  BY <1>3, SleepingType DEF QueryFails, MainUnchanged, TypeOK, Shape, Busy
<1>4. CASE Crash
  <2>1. \A s \in Subs : Busy(s) => Append(inbox[s], task[s].m) \in Seq(Message)
    BY AppendProperties DEF TypeOK, Busy, Activation
  <2>2. inbox' \in [Subs -> Seq(Message)]
    BY <1>4, <2>1 DEF Crash, TypeOK
  <2>3. task' \in [Subs -> {Idle} \union Activation] /\ Shape'
    BY <1>4 DEF Crash, Shape, Busy
  <2>4. fsms' \in [Incidents -> FSMs] /\ registry' \in [Agents -> AgentStates]
    BY <1>4, FSMValues DEF Crash, AgentStates
  <2>5. QED
    BY <1>4, <2>2, <2>3, <2>4, SleepingType DEF Crash, TypeOK
<1>5. ASSUME NEW s \in Subs, AckWaitExpires(s) PROVE TypeOK' /\ Shape'
  <2>1. Append(inbox[s], task[s].m) \in Seq(Message)
    BY <1>5, AppendProperties DEF AckWaitExpires, TypeOK, Busy, Activation
  <2>2. QED
    BY <1>5, <2>1 DEF AckWaitExpires, TypeOK, Shape, Busy
<1>6. QED
  BY <1>1, <1>2, <1>3, <1>4, <1>5

LEMMA StepKeepsType == TypeOK /\ Shape /\ [Next]_vars => TypeOK' /\ Shape'
<1>1. CASE UNCHANGED vars
  BY <1>1 DEF vars, TypeOK, Shape, Busy
<1>2. CASE Next
  BY <1>2, DeliverKeepsType, ProceedKeepsType, MainStepKeepsType,
     EnvironmentKeepsType, FailureKeepsType DEF Next
<1>3. QED
  BY <1>1, <1>2

LEMMA InitType == Init => TypeOK /\ Shape
BY FSMValues, LoopType, EmptySeq, RecordedAssumption
   DEF Init, TypeOK, Shape, Busy, LoopPcs, AgentStates, Row, Statuses

\* Every reachable state is well typed; in particular no row ever carries a
\* status that the constructor of IncidentFSM, at recovery, would refuse.
THEOREM TypeCorrect == Spec => []TypeOK
<1>1. Init => TypeOK /\ Shape
  BY InitType
<1>2. TypeOK /\ Shape /\ [Next]_vars => TypeOK' /\ Shape'
  BY StepKeepsType
<1>3. QED
  BY <1>1, <1>2, PTL DEF Spec
=============================================================================
