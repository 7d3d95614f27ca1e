--------------------- MODULE Orchestrator_record_proofs ---------------------
(***************************************************************************)
(* What the orchestrator tracks and announces is on record, its retries    *)
(* stay within their budget, and it implements RepairContract.             *)
(***************************************************************************)
EXTENDS Orchestrator_safety_proofs

-----------------------------------------------------------------------------
(* One step of an FSM: which retries it may hold afterwards, and from what *)
(* it may come into being.                                                 *)

FsmEvolves(i) ==
    \/ fsms'[i].state = fsms[i].state /\ fsms'[i].retries = fsms[i].retries
    \/ /\ ShouldRetry(fsms[i])
       /\ fsms'[i].state = fsms[i].state
       /\ fsms'[i].retries = fsms[i].retries + 1
    \/ /\ fsms'[i].retries = 0
       /\ \/ fsms'[i].state = NoState
          \/ Tracked(i)
          \/ loop.rows[i] # NoState
          \/ \E s \in Subs : At(s, "open") /\ task[s].m.id = i

LEMMA MoveEvolves ==
    ASSUME Typed, NEW i \in Incidents, NEW j \in Incidents, NEW target,
           fsms' = [fsms EXCEPT ![j] = TryTransition(@, target)]
    PROVE  FsmEvolves(i)
BY DEF FsmEvolves, TryTransition, CanTransition, Moved, Tracked, Typed, TypeOK

LEMMA RetryEvolves ==
    ASSUME Typed, NEW i \in Incidents, NEW j \in Incidents, ShouldRetry(fsms[j]),
           fsms' = [fsms EXCEPT ![j] = IncrementRetry(@)]
    PROVE  FsmEvolves(i)
BY DEF FsmEvolves, IncrementRetry, Typed, TypeOK

LEMMA DeliverFsm ==
    ASSUME Typed, NEW s \in Subs, Deliver(s), NEW i \in Incidents
    PROVE  FsmEvolves(i)
<1> DEFINE j == Head(inbox[s]).id
<1>1. CanReceive(s)
  BY DEF Deliver, HandleAnomaly, HandleDiagnosisResult, HandleApproved,
     HandleRejected, HandlePending, HandleSuccess, HandleFailed, HandleApprove,
     HandleReject, Receive
<1>2. j \in Incidents
  <2>1. Head(inbox[s]) \in Message
    BY <1>1, HeadTailProperties DEF CanReceive, Typed, TypeOK
  <2>2. QED
    BY <2>1 DEF Message
<1>3. fsms' = fsms => FsmEvolves(i)
  BY DEF FsmEvolves
<1>4. ASSUME NEW target, NEW pc, MoveOrReturn(s, target, pc) PROVE FsmEvolves(i)
  <2>1. fsms' = fsms \/ fsms' = [fsms EXCEPT ![j] = TryTransition(@, target)]
    BY <1>4 DEF MoveOrReturn, TryTransition
  <2>2. QED
    BY <1>2, <1>3, <2>1, MoveEvolves
<1>5. ASSUME RetryOrEscalate(s) PROVE FsmEvolves(i)
  <2>1. \/ fsms' = fsms
        \/ ShouldRetry(fsms[j]) /\ fsms' = [fsms EXCEPT ![j] = IncrementRetry(@)]
    BY <1>5 DEF RetryOrEscalate
  <2>2. QED
    BY <1>2, <1>3, <2>1, RetryEvolves
<1>6. CASE HandlePending /\ s = "safety"
  BY <1>2, <1>6, MoveEvolves DEF HandlePending
<1>7. CASE HandleSuccess /\ s = "executions"
  <2>1. \/ fsms' = fsms
        \/ /\ CanTransition(fsms[j], "verifying")
           /\ fsms' = [fsms EXCEPT ![j] = Moved(Moved(@, "verifying"), "resolved")]
    BY <1>7 DEF HandleSuccess
  <2>2. CASE /\ CanTransition(fsms[j], "verifying")
             /\ fsms' = [fsms EXCEPT ![j] = Moved(Moved(@, "verifying"), "resolved")]
    <3>1. Tracked(j)
      BY <2>2 DEF CanTransition, Tracked
    <3>2. CASE i = j
      BY <1>2, <2>2, <3>1, <3>2 DEF FsmEvolves, Moved, Typed, TypeOK
    <3>3. CASE i # j
      BY <1>2, <2>2, <3>3 DEF FsmEvolves, Typed, TypeOK
    <3>4. QED
      BY <3>2, <3>3
  <2>3. QED
    BY <1>3, <2>1, <2>2
<1>8. QED
  BY <1>3, <1>4, <1>5, <1>6, <1>7 DEF Deliver, HandleAnomaly, HandleDiagnosisResult,
     HandleApproved, HandleRejected, HandleFailed, HandleApprove, HandleReject

LEMMA StepEvolvesFsm ==
    ASSUME Typed, Next, NEW i \in Incidents
    PROVE  FsmEvolves(i)
<1>1. fsms' = fsms => FsmEvolves(i)
  BY DEF FsmEvolves
<1>2. ASSUME NEW s \in Subs, Deliver(s) PROVE FsmEvolves(i)
  BY <1>2, DeliverFsm
<1>3. ASSUME NEW s \in Subs, Proceed(s) PROVE FsmEvolves(i)
  <2> DEFINE j == task[s].m.id
  <2>1. ASSUME Busy(s) PROVE j \in Incidents
    BY <2>1 DEF Busy, Typed, TypeOK, Activation, Message
  <2>2. CASE OpenIncident(s)
    BY <2>1, <2>2 DEF OpenIncident, At, FsmEvolves, Moved, Typed, TypeOK
  <2>3. CASE WriteTimeline(s)
    <3>1. \/ fsms' = fsms
          \/ fsms' = [fsms EXCEPT ![j] = TryTransition(@, "proposing_remediation")]
      BY <2>3 DEF WriteTimeline
    <3>2. QED
      BY <1>1, <2>1, <2>3, <3>1, MoveEvolves DEF WriteTimeline, At
  <2>4. QED
    BY <1>1, <1>3, <2>2, <2>3 DEF Proceed, InsertIncident, SaveStatus, RouteToDiagnoser,
       PublishLifecycle, EscalateFromHandler, Ack
<1>4. CASE LoadInFlight
  <2>1. PICK overdue \in SUBSET Incidents :
          fsms' = [k \in Incidents |-> IF loop.rows[k] # NoState
                                       THEN NewFSM(loop.rows[k], k \in overdue)
                                       ELSE fsms[k]]
    BY <1>4 DEF LoadInFlight
  <2>2. QED
    BY <2>1 DEF NewFSM, FsmEvolves
<1>5. ASSUME NEW j \in Incidents, RetryCurrentState(j) PROVE FsmEvolves(i)
  BY <1>5, RetryEvolves DEF RetryCurrentState
<1>6. ASSUME NEW j \in Incidents, ClockRunsOut(j) PROVE FsmEvolves(i)
  BY <1>6 DEF ClockRunsOut, FsmEvolves, Typed, TypeOK, FSMs
<1>7. CASE Crash
  BY <1>7 DEF Crash, FsmEvolves, NoFSM, NewFSM
<1>8. QED
  BY <1>1, <1>2, <1>3, <1>4, <1>5, <1>6, <1>7 DEF Next, Environment, MainStep, QueryInFlight,
     EscalateToHuman, PruneStaleAgents, HandleDeadAgent, ContinueScan, DictionaryChanged,
     QueryFails, Restart, Publish, Heartbeat, HeartbeatLost, DiscardExpired,
     HandlerFails, AckWaitExpires

\* The retry budget of an incident, which timeouts, rejections and failed
\* executions spend from several tasks, is never overdrawn, for any MaxRetries.
THEOREM BudgetIsKept == Spec => []RetriesWithinBudget
<1>1. Init => RetriesWithinBudget
  BY MaxRetriesAssumption DEF Init, RetriesWithinBudget, NoFSM, NewFSM
<1>2. Typed /\ RetriesWithinBudget /\ [Next]_vars => RetriesWithinBudget'
  <2> SUFFICES ASSUME Typed, RetriesWithinBudget, [Next]_vars, NEW i \in Incidents
               PROVE  fsms'[i].retries <= MaxRetries
    BY DEF RetriesWithinBudget
  <2>1. fsms[i].retries \in Nat /\ fsms[i].retries <= MaxRetries
    BY DEF RetriesWithinBudget, Typed, TypeOK, FSMs
  <2>2. CASE Next
    BY <2>1, <2>2, StepEvolvesFsm, MaxRetriesAssumption DEF FsmEvolves, ShouldRetry
  <2>3. CASE UNCHANGED vars
    BY <2>1, <2>3 DEF vars
  <2>4. QED
    BY <2>2, <2>3
<1>3. QED
  BY <1>1, <1>2, TypedInvariant, PTL DEF Spec

-----------------------------------------------------------------------------
(* What is on record.  Rows are never removed, so a handler or a cycle     *)
(* that once saw a row may rely on it at a later await.                    *)

\* Incidents that memory or the main task knows have a row.
KnownHaveRows ==
    \A i \in Incidents :
        Tracked(i) \/ loop.rows[i] # NoState \/ i \in loop.todo => HasRow(i)

\* An activation past its first write is about an incident with a row, and
\* one that announces a success has committed the resolution.
Grounded(s) ==
    Busy(s) =>
        /\ task[s].pc \notin {"insert", "ack"} => HasRow(task[s].m.id)
        /\ task[s].pc = "route" => task[s].m.kind = "anomaly"
        /\ task[s].pc = "announce" /\ task[s].m.kind = "success"
              => db[task[s].m.id].resolved

ActivationsHaveRows == \A s \in Subs : Grounded(s)

AnnouncementsHaveRows == \A out \in emitted : HasRow(out.id)

ResolutionsAreCommitted ==
    \A i \in Incidents : Out("incident.resolved", i) \in emitted => db[i].resolved

RecordInv ==
    /\ Typed
    /\ KnownHaveRows
    /\ ActivationsHaveRows
    /\ AnnouncementsHaveRows
    /\ ResolutionsAreCommitted

\* No step removes a row or takes a resolution back.
DbGrows == \A i \in Incidents : /\ HasRow(i) => HasRow(i)'
                                /\ db[i].resolved => db'[i].resolved

LEMMA SaveGrows ==
    ASSUME Typed, NEW s \in Subs, SaveStatus(s)
    PROVE  /\ DbGrows
           /\ HasRow(task[s].m.id) /\ task[s].m.kind = "success"
                => db'[task[s].m.id].resolved
<1> DEFINE m == task[s].m
           res == db[m.id].resolved \/ m.kind = "success"
           row == [status |-> SavedStatus(m.kind), resolved |-> res]
<1>1. Busy(s) /\ m.kind \in SavingKinds /\ m.id \in Incidents
  BY DEF SaveStatus, At, Busy, Typed, Shape, TypeOK, Activation, Message
<1>2. db' = IF HasRow(m.id) THEN [db EXCEPT ![m.id] = row] ELSE db
  BY DEF SaveStatus
<1>3. row.status # NoState
  <2>1. row.status = SavedStatus(m.kind)
    OBVIOUS
  <2>2. QED
    BY <1>1, <2>1, SaveType DEF NoState, States
<1>4. row.resolved <=> db[m.id].resolved \/ m.kind = "success"
  <2> HIDE DEF res
  <2>1. row.resolved = res
    OBVIOUS
  <2>2. QED
    BY <2>1 DEF res
<1> HIDE DEF row
<1>5. HasRow(m.id) => db'[m.id] = row
  BY <1>1, <1>2 DEF Typed, TypeOK
<1>6. \A i \in Incidents : i # m.id \/ ~HasRow(m.id) => db'[i] = db[i]
  BY <1>1, <1>2 DEF Typed, TypeOK
<1>7. QED
  BY <1>1, <1>3, <1>4, <1>5, <1>6 DEF DbGrows, HasRow

\* A save touches no other row, and only a success touches the resolution.
LEMMA SaveResolves ==
    ASSUME Typed, NEW s \in Subs, SaveStatus(s)
    PROVE  LET m == task[s].m IN
           /\ \A i \in Incidents : i # m.id => db'[i] = db[i]
           /\ m.kind # "success" => (db'[m.id].resolved <=> db[m.id].resolved)
<1> DEFINE m == task[s].m
           res == db[m.id].resolved \/ m.kind = "success"
           row == [status |-> SavedStatus(m.kind), resolved |-> res]
<1>1. m.id \in Incidents
  BY DEF SaveStatus, At, Busy, Typed, TypeOK, Activation, Message
<1>2. db' = db \/ db' = [db EXCEPT ![m.id] = row]
  BY DEF SaveStatus
<1>3. m.kind # "success" => (row.resolved <=> db[m.id].resolved)
  <2> HIDE DEF res
  <2>1. row.resolved = res
    OBVIOUS
  <2>2. QED
    BY <2>1 DEF res
<1> HIDE DEF row
<1>4. QED
  BY <1>1, <1>2, <1>3 DEF Typed, TypeOK

LEMMA StepGrowsDb ==
    ASSUME Typed, Next
    PROVE  DbGrows
<1>1. db' = db => DbGrows
  BY DEF DbGrows, HasRow
<1>2. ASSUME NEW s \in Subs, InsertIncident(s) PROVE DbGrows
  BY <1>2 DEF InsertIncident, DbGrows, HasRow, Typed, TypeOK
<1>3. ASSUME NEW s \in Subs, Proceed(s) PROVE DbGrows
  BY <1>1, <1>2, <1>3, SaveGrows DEF Proceed, OpenIncident, WriteTimeline, RouteToDiagnoser,
     PublishLifecycle, EscalateFromHandler, Ack
<1>4. ASSUME NEW s \in Subs, Deliver(s) PROVE db' = db
  BY <1>4 DEF Deliver, HandleAnomaly, HandleDiagnosisResult, HandleApproved,
     HandleRejected, HandlePending, HandleSuccess, HandleFailed, HandleApprove,
     HandleReject, MoveOrReturn, RetryOrEscalate, Start
<1>5. QED
  BY <1>1, <1>3, <1>4 DEF Next, Environment, MainStep, QueryInFlight, LoadInFlight,
     RetryCurrentState, EscalateToHuman, PruneStaleAgents, HandleDeadAgent, ContinueScan,
     DictionaryChanged, QueryFails, Restart, MainUnchanged, Publish, ClockRunsOut,
     Heartbeat, HeartbeatLost, DiscardExpired, HandlerFails, AckWaitExpires, Crash

\* What the main task takes up at its next await it knew, or finds tracked or
\* on record.
LoopEvolves ==
    \A i \in Incidents :
        /\ i \in loop'.todo => i \in loop.todo \/ Tracked(i)
        /\ loop'.rows[i] # NoState => loop.rows[i] # NoState \/ HasRow(i)

LEMMA EscalateNextLoop ==
    ASSUME NEW keys \in SUBSET Incidents, NEW states, NEW dead,
           \A i \in keys : i \in loop.todo \/ Tracked(i),
           EscalateNext(keys, states, dead)
    PROVE  /\ LoopEvolves
           /\ \/ emitted' = emitted
              \/ \E i \in keys : emitted' = emitted \union {Out("escalation", i)}
<1>1. PICK i \in Affected(keys, states) :
        \/ /\ emitted' = emitted \union {Out("escalation", i)}
           /\ \E passed \in SUBSET (keys \ Affected(keys, states)) :
                loop' = [at |-> "scan", todo |-> keys \ (passed \union {i}),
                         rows |-> NoRows, dead |-> dead,
                         waiting |-> states, seen |-> Active]
        \/ CycleFails
  BY DEF EscalateNext
<1>2. CASE CycleFails
  BY <1>2 DEF CycleFails, LoopEvolves, Sleeping, LoopAt, NoRows
<1>3. CASE /\ emitted' = emitted \union {Out("escalation", i)}
           /\ \E passed \in SUBSET (keys \ Affected(keys, states)) :
                loop' = [at |-> "scan", todo |-> keys \ (passed \union {i}),
                         rows |-> NoRows, dead |-> dead,
                         waiting |-> states, seen |-> Active]
  <2>1. i \in keys
    BY DEF Affected
  <2>2. loop'.todo \subseteq keys /\ loop'.rows = NoRows
    BY <1>3
  <2>3. LoopEvolves
    BY <2>2 DEF LoopEvolves, NoRows
  <2>4. QED
    BY <1>3, <2>1, <2>3
<1>4. QED
  BY <1>1, <1>2, <1>3

\* The main task escalates only what it has yet to visit or what is tracked.
MainEmits ==
    \/ emitted' = emitted
    \/ \E i \in Incidents :
         /\ i \in loop.todo \/ Tracked(i)
         /\ emitted' = emitted \union {Out("escalation", i)}

LEMMA MainTaskLoop ==
    ASSUME Typed, MainStep \/ QueryFails \/ Restart
    PROVE  LoopEvolves /\ MainEmits
<1>1. /\ loop.todo \subseteq Incidents /\ Active \subseteq Incidents
      /\ \A i \in Active : Tracked(i)
      /\ \A i \in Keys : i \in Incidents /\ (i \in loop.todo \/ Tracked(i))
  BY DEF Typed, TypeOK, Loop, Keys, Active
<1>2. ASSUME loop'.todo = {}, loop'.rows = NoRows PROVE LoopEvolves
  BY <1>2 DEF LoopEvolves, NoRows
<1>3. /\ loop' = Sleeping => LoopEvolves
      /\ \A dead : loop' = AgentsLeft(dead) => LoopEvolves
  BY <1>2 DEF Sleeping, AgentsLeft, LoopAt
<1>4. CASE QueryInFlight
  <2>1. /\ loop'.rows = [j \in Incidents |-> IF InFlight(j) THEN db[j].status ELSE NoState]
        /\ loop'.todo = {}
    BY <1>4 DEF QueryInFlight, LoopAt
  <2>2. QED
    BY <1>4, <2>1 DEF QueryInFlight, LoopEvolves, InFlight, MainEmits
<1>5. ASSUME NEW i \in Incidents, i \in Keys, VisitNext(i) PROVE LoopEvolves
  <2>1. PICK passed \in SUBSET {j \in Keys : ~TimedOut(j)} :
          loop' = LoopAt("check", Keys \ (passed \union {i}), {})
    BY <1>5 DEF VisitNext
  <2>2. loop'.todo \subseteq Keys /\ loop'.rows = NoRows
    BY <2>1 DEF LoopAt
  <2>3. QED
    BY <1>1, <2>2 DEF LoopEvolves, NoRows
<1>6. ASSUME NEW i \in Incidents, RetryCurrentState(i) \/ EscalateToHuman(i)
      PROVE  LoopEvolves /\ MainEmits
  BY <1>1, <1>3, <1>5, <1>6 DEF RetryCurrentState, EscalateToHuman, CycleFails, MainEmits
<1>7. ASSUME NEW a \in Agents, HandleDeadAgent(a) PROVE LoopEvolves /\ MainEmits
  <2>1. CASE EscalateNext(Active, DependentStates(AgentType[a]), loop.dead \ {a})
    BY <1>1, <2>1, EscalateNextLoop DEF MainEmits
  <2>2. QED
    BY <1>3, <1>7, <2>1 DEF HandleDeadAgent, MainEmits
<1>8. CASE ContinueScan
  <2>1. CASE EscalateNext(loop.todo, loop.waiting, loop.dead)
    BY <1>1, <2>1, EscalateNextLoop DEF MainEmits
  <2>2. QED
    BY <1>3, <1>8, <2>1 DEF ContinueScan, MainEmits
<1>9. CASE Restart
  BY <1>2, <1>9 DEF Restart, LoopAt, MainEmits
<1>10. CASE LoadInFlight \/ PruneStaleAgents \/ DictionaryChanged \/ QueryFails
  BY <1>3, <1>10 DEF LoadInFlight, PruneStaleAgents, DictionaryChanged, QueryFails, MainEmits
<1>11. QED
  BY <1>4, <1>6, <1>7, <1>8, <1>9, <1>10 DEF MainStep

-----------------------------------------------------------------------------
(* The invariant is preserved, part by part.                               *)

LEMMA StepKeepsKnown ==
    ASSUME RecordInv, Next
    PROVE  KnownHaveRows'
<1> SUFFICES ASSUME NEW i \in Incidents,
                    Tracked(i)' \/ loop'.rows[i] # NoState \/ i \in loop'.todo
             PROVE  HasRow(i)'
  BY DEF KnownHaveRows
<1>1. HasRow(i) => HasRow(i)'
  BY StepGrowsDb DEF DbGrows, RecordInv
<1>2. CASE Tracked(i)'
  <2>1. \/ Tracked(i)
        \/ loop.rows[i] # NoState
        \/ \E s \in Subs : At(s, "open") /\ task[s].m.id = i
    BY <1>2, StepEvolvesFsm DEF FsmEvolves, Tracked, RecordInv
  <2>2. QED
    BY <1>1, <2>1 DEF RecordInv, KnownHaveRows, ActivationsHaveRows, Grounded, At
<1>3. CASE loop'.rows[i] # NoState \/ i \in loop'.todo
  <2>1. CASE MainStep \/ QueryFails \/ Restart
    <3>1. LoopEvolves
      BY <2>1, MainTaskLoop DEF RecordInv
    <3>2. QED
      BY <1>1, <1>3, <3>1 DEF LoopEvolves, RecordInv, KnownHaveRows
  <2>2. CASE Crash
    BY <1>3, <2>2 DEF Crash, Down, LoopAt, NoRows
  <2>3. ASSUME NEW s \in Subs, Deliver(s) \/ Proceed(s) PROVE loop' = loop
    BY <2>3 DEF Deliver, HandleAnomaly, HandleDiagnosisResult, HandleApproved,
       HandleRejected, HandlePending, HandleSuccess, HandleFailed, HandleApprove,
       HandleReject, MoveOrReturn, RetryOrEscalate, Start, Proceed, InsertIncident,
       OpenIncident, SaveStatus, WriteTimeline, RouteToDiagnoser, PublishLifecycle,
       EscalateFromHandler, Ack
  <2>4. loop' = loop => HasRow(i)'
    BY <1>1, <1>3 DEF RecordInv, KnownHaveRows
  <2>5. QED
    BY <2>1, <2>2, <2>3, <2>4 DEF Next, Environment, Publish, ClockRunsOut, Heartbeat,
       HeartbeatLost, DiscardExpired, HandlerFails, AckWaitExpires
<1>4. QED
  BY <1>2, <1>3

\* An activation that stays where it was, or ends, relies on what it had.
StaysOrEnds(r) ==
    \/ ~Busy(r)'
    \/ Busy(r) /\ task'[r].pc = task[r].pc /\ task'[r].m = task[r].m

LEMMA StayingKeepsRows ==
    ASSUME RecordInv, Next, NEW r \in Subs, StaysOrEnds(r)
    PROVE  Grounded(r)'
<1> SUFFICES ASSUME Busy(r)' PROVE Grounded(r)'
  BY DEF Grounded
<1>1. Busy(r) /\ task'[r].pc = task[r].pc /\ task'[r].m = task[r].m
  BY DEF StaysOrEnds
<1>2. task[r].m.id \in Incidents
  BY <1>1 DEF Busy, RecordInv, Typed, TypeOK, Activation, Message
<1>3. /\ HasRow(task[r].m.id) => db'[task[r].m.id].status # NoState
      /\ db[task[r].m.id].resolved => db'[task[r].m.id].resolved
  BY <1>2, StepGrowsDb DEF DbGrows, RecordInv, HasRow
<1>4. Grounded(r)
  BY DEF RecordInv, ActivationsHaveRows
<1>5. QED
  BY <1>1, <1>3, <1>4 DEF Grounded, HasRow

\* A handler starts beyond the insert only for an incident that is tracked.
LEMMA DeliverGrounds ==
    ASSUME RecordInv, NEW s \in Subs, Deliver(s)
    PROVE  /\ db' = db /\ emitted' = emitted /\ sent' = sent
           /\ \A r \in Subs : r # s => StaysOrEnds(r)
           /\ Grounded(s)'
<1> DEFINE m == Head(inbox[s])
<1>1. PICK pc \in Pcs \ {"open", "announce", "route"} :
        /\ Start(s, pc)
        /\ pc \in {"insert", "ack"} \/ Tracked(m.id)
  BY DEF Deliver, HandleAnomaly, HandleDiagnosisResult, HandleApproved, HandleRejected,
     HandlePending, HandleSuccess, HandleFailed, HandleApprove, HandleReject,
     MoveOrReturn, RetryOrEscalate, CanTransition, Tracked, Pcs
<1>2. CanReceive(s)
  BY DEF Deliver, HandleAnomaly, HandleDiagnosisResult, HandleApproved,
     HandleRejected, HandlePending, HandleSuccess, HandleFailed, HandleApprove,
     HandleReject, Receive
<1>3. m.id \in Incidents
  <2>1. m \in Message
    BY <1>2, HeadTailProperties DEF CanReceive, RecordInv, Typed, TypeOK
  <2>2. QED
    BY <2>1 DEF Message
<1>4. /\ task'[s].pc = pc /\ task'[s].m = m
      /\ \A r \in Subs : r # s => task'[r] = task[r]
      /\ db' = db /\ emitted' = emitted /\ sent' = sent
  BY <1>1 DEF Start, RecordInv, Typed, TypeOK
<1>5. Tracked(m.id) => HasRow(m.id)
  BY <1>3 DEF RecordInv, KnownHaveRows
<1>6. QED
  BY <1>1, <1>4, <1>5 DEF Grounded, HasRow, StaysOrEnds, Busy

LEMMA GotoGrounds ==
    ASSUME RecordInv, NEW s \in Subs, Busy(s), NEW pc, Goto(s, pc)
    PROVE  /\ task'[s].pc = pc /\ task'[s].m = task[s].m
           /\ \A r \in Subs : r # s => StaysOrEnds(r)
<1>1. \A r \in Subs : r # s => task'[r] = task[r]
  BY DEF Goto, RecordInv, Typed, TypeOK
<1>2. task'[s].pc = pc /\ task'[s].m = task[s].m
  BY DEF Goto, RecordInv, Typed, TypeOK, Busy, Activation
<1>3. QED
  BY <1>1, <1>2 DEF StaysOrEnds, Busy

LEMMA ProceedGrounds ==
    ASSUME RecordInv, Next, NEW s \in Subs, Proceed(s)
    PROVE  /\ \A r \in Subs : r # s => StaysOrEnds(r)
           /\ StaysOrEnds(s) \/ Grounded(s)'
<1> DEFINE m == task[s].m
           i == m.id
<1>1. Busy(s)
  BY DEF Proceed, InsertIncident, OpenIncident, SaveStatus, WriteTimeline,
         RouteToDiagnoser, PublishLifecycle, EscalateFromHandler, Ack, At
<1>2. i \in Incidents /\ m \in Message
  BY <1>1 DEF Busy, RecordInv, Typed, TypeOK, Activation, Message
<1>3. Grounded(s)
  BY DEF RecordInv, ActivationsHaveRows
<1>4. HasRow(i) => db'[i].status # NoState
  BY <1>2, StepGrowsDb DEF DbGrows, RecordInv, HasRow
<1>5. CASE InsertIncident(s)
  <2>1. CASE ~HasRow(i) /\ Goto(s, "open") /\ db' = [db EXCEPT ![i].status = "detecting"]
    <3>1. db'[i].status # NoState
      BY <1>2, <2>1 DEF HasRow, RecordInv, Typed, TypeOK, NoState
    <3>2. QED
      BY <1>1, <2>1, <3>1, GotoGrounds DEF Grounded, HasRow
  <2>2. CASE Redeliver(s)
    BY <2>2 DEF Redeliver, StaysOrEnds, Busy, RecordInv, Typed, TypeOK
  <2>3. QED
    BY <1>5, <2>1, <2>2 DEF InsertIncident
<1>6. CASE OpenIncident(s)
  <2> DEFINE others == Disown({i})
  <2>1. task' = [others EXCEPT ![s].pc = "save"] /\ db' = db /\ At(s, "open")
    BY <1>6 DEF OpenIncident
  <2>2. /\ others \in [Subs -> {Idle} \union Activation]
        /\ \A r \in Subs : /\ Busy(r) <=> others[r] # Idle
                           /\ Busy(r) => /\ others[r].pc = task[r].pc
                                         /\ others[r].m = task[r].m
                                         /\ others[r] \in Activation
    BY DisownType DEF RecordInv, Typed
  <2> HIDE DEF others
  <2>3. /\ \A r \in Subs : r # s => task'[r] = others[r]
        /\ task'[s].m = m /\ task'[s].pc = "save"
    BY <1>1, <2>1, <2>2 DEF Activation
  <2>4. HasRow(i)
    BY <1>3, <2>1 DEF Grounded, At
  <2>5. Grounded(s)'
    BY <2>1, <2>3, <2>4 DEF Grounded, HasRow
  <2>6. QED
    BY <2>2, <2>3, <2>5 DEF StaysOrEnds, Busy
<1>7. CASE SaveStatus(s)
  <2>1. /\ Goto(s, AfterSave(m.kind)) /\ HasRow(i)
        /\ m.kind \in SavingKinds
    BY <1>1, <1>3, <1>7 DEF SaveStatus, At, Grounded, RecordInv, Typed, Shape
  <2>2. m.kind = "success" => db'[i].resolved
    BY <1>7, <2>1, SaveGrows DEF RecordInv
  <2>3. AfterSave(m.kind) = "route" => m.kind = "anomaly"
    BY <2>1 DEF AfterSave, SavingKinds
  <2>4. QED
    BY <1>1, <1>4, <2>1, <2>2, <2>3, GotoGrounds DEF Grounded, HasRow
<1>8. CASE WriteTimeline(s)
  <2>1. /\ \E pc \in {"save", "ack", "escalate"} : Goto(s, pc)
        /\ HasRow(i) /\ db' = db
    BY <1>3, <1>8 DEF WriteTimeline, At, Grounded
  <2>2. QED
    BY <1>1, <2>1, GotoGrounds DEF Grounded, HasRow
<1>9. CASE RouteToDiagnoser(s)
  <2>1. Goto(s, "announce") /\ HasRow(i) /\ m.kind = "anomaly" /\ db' = db
    BY <1>3, <1>9 DEF RouteToDiagnoser, At, Grounded
  <2>2. QED
    BY <1>1, <2>1, GotoGrounds DEF Grounded, HasRow
<1>10. CASE PublishLifecycle(s) \/ EscalateFromHandler(s)
  BY <1>1, <1>10, GotoGrounds DEF PublishLifecycle, EscalateFromHandler, Grounded
<1>11. CASE Ack(s)
  BY <1>11 DEF Ack, StaysOrEnds, Busy, RecordInv, Typed, TypeOK
<1>12. QED
  BY <1>5, <1>6, <1>7, <1>8, <1>9, <1>10, <1>11 DEF Proceed

LEMMA StepKeepsActivations ==
    ASSUME RecordInv, Next
    PROVE  ActivationsHaveRows'
<1>1. ASSUME \A r \in Subs : StaysOrEnds(r) PROVE ActivationsHaveRows'
  BY <1>1, StayingKeepsRows DEF ActivationsHaveRows
<1>2. ASSUME NEW s \in Subs, Deliver(s) PROVE ActivationsHaveRows'
  <2>1. Grounded(s)'
    BY <1>2, DeliverGrounds
  <2>2. \A r \in Subs : r # s => StaysOrEnds(r)
    BY <1>2, DeliverGrounds
  <2>3. QED
    BY <2>1, <2>2, StayingKeepsRows DEF ActivationsHaveRows
<1>3. ASSUME NEW s \in Subs, Proceed(s) PROVE ActivationsHaveRows'
  <2>1. StaysOrEnds(s) \/ Grounded(s)'
    BY <1>3, ProceedGrounds
  <2>2. \A r \in Subs : r # s => StaysOrEnds(r)
    BY <1>3, ProceedGrounds
  <2>3. QED
    BY <2>1, <2>2, StayingKeepsRows DEF ActivationsHaveRows
<1>4. CASE LoadInFlight
  BY <1>1, <1>4, DisownType DEF LoadInFlight, StaysOrEnds, Busy, RecordInv, Typed
<1>5. ASSUME NEW s \in Subs, HandlerFails(s) PROVE ActivationsHaveRows'
  BY <1>1, <1>5 DEF HandlerFails, Redeliver, StaysOrEnds, Busy, RecordInv, Typed, TypeOK
<1>6. CASE Crash
  BY <1>6 DEF Crash, ActivationsHaveRows, Grounded, Busy
<1>7. task' = task => ActivationsHaveRows'
  BY <1>1 DEF StaysOrEnds, Busy
<1>8. QED
  BY <1>2, <1>3, <1>4, <1>5, <1>6, <1>7 DEF Next, Environment, MainStep, QueryInFlight,
     RetryCurrentState, EscalateToHuman, PruneStaleAgents, HandleDeadAgent, ContinueScan,
     DictionaryChanged, QueryFails, Restart, MainUnchanged, Publish, ClockRunsOut,
     Heartbeat, HeartbeatLost, DiscardExpired, AckWaitExpires

-----------------------------------------------------------------------------
(* Announcements, and the contract.  A step publishes on behalf of the     *)
(* environment, commits a row, or announces; never two of these at once.   *)

\* A request or an escalation about an incident with a row.
Asks ==
    /\ sent' = sent /\ db' = db
    /\ \E i \in Incidents, type \in {"diagnosis_request", "escalation"} :
         /\ HasRow(i)
         /\ emitted' = emitted \union {Out(type, i)}

Silent == sent' = sent /\ db' = db /\ emitted' = emitted

LEMMA StepAnnounces ==
    ASSUME RecordInv, Next
    PROVE  \/ Silent
           \/ Asks
           \/ \E m \in Message : Publish(m)
           \/ \E s \in Subs : InsertIncident(s) \/ SaveStatus(s) \/ PublishLifecycle(s)
<1>1. ASSUME NEW s \in Subs, Deliver(s) PROVE Silent
  BY <1>1, DeliverGrounds DEF Silent
<1>2. ASSUME NEW s \in Subs, RouteToDiagnoser(s) \/ EscalateFromHandler(s) PROVE Asks
  <2>1. Busy(s) /\ task[s].m.id \in Incidents
    BY <1>2 DEF RouteToDiagnoser, EscalateFromHandler, At, Busy, RecordInv, Typed, TypeOK,
       Activation, Message
  <2>2. HasRow(task[s].m.id)
    BY <1>2, <2>1 DEF RouteToDiagnoser, EscalateFromHandler, At, RecordInv,
       ActivationsHaveRows, Grounded
  <2>3. QED
    BY <1>2, <2>1, <2>2 DEF RouteToDiagnoser, EscalateFromHandler, Asks
<1>3. ASSUME NEW s \in Subs, OpenIncident(s) \/ WriteTimeline(s) \/ Ack(s) PROVE Silent
  BY <1>3 DEF OpenIncident, WriteTimeline, Ack, Silent
<1>4. CASE MainStep \/ QueryFails \/ Restart
  <2>1. sent' = sent /\ db' = db
    BY <1>4 DEF MainStep, QueryFails, Restart, QueryInFlight, LoadInFlight,
       RetryCurrentState, EscalateToHuman, PruneStaleAgents, HandleDeadAgent,
       ContinueScan, DictionaryChanged, MainUnchanged
  <2>2. MainEmits
    BY <1>4, MainTaskLoop DEF RecordInv
  <2>3. QED
    BY <2>1, <2>2 DEF MainEmits, Silent, Asks, RecordInv, KnownHaveRows
<1>5. ASSUME \/ \E s \in Subs : DiscardExpired(s) \/ HandlerFails(s) \/ AckWaitExpires(s)
             \/ \E i \in Incidents : ClockRunsOut(i)
             \/ \E a \in Agents : Heartbeat(a) \/ HeartbeatLost(a)
             \/ Crash
      PROVE  Silent
  BY <1>5 DEF DiscardExpired, HandlerFails, AckWaitExpires, ClockRunsOut, Heartbeat,
     HeartbeatLost, Crash, Silent
<1>6. QED
  BY <1>1, <1>2, <1>3, <1>4, <1>5 DEF Next, Environment, Proceed

\* A resolution is announced by the activation that has committed it.
LEMMA LifecycleIsGrounded ==
    ASSUME RecordInv, NEW s \in Subs, PublishLifecycle(s)
    PROVE  /\ task[s].m.id \in Incidents
           /\ HasRow(task[s].m.id)
           /\ emitted' = emitted \union LifecycleEvents(task[s].m)
           /\ \A out \in LifecycleEvents(task[s].m) : out.id = task[s].m.id
           /\ \A i \in Incidents :
                Out("incident.resolved", i) \in LifecycleEvents(task[s].m)
                  => i = task[s].m.id /\ db[i].resolved
           /\ sent' = sent /\ db' = db
<1> DEFINE m == task[s].m
<1>1. Busy(s) /\ task[s].pc = "announce" /\ m.id \in Incidents
  BY DEF PublishLifecycle, At, Busy, RecordInv, Typed, TypeOK, Activation, Message
<1>2. HasRow(m.id) /\ (m.kind = "success" => db[m.id].resolved)
  BY <1>1 DEF RecordInv, ActivationsHaveRows, Grounded
<1>3. /\ \A out \in LifecycleEvents(m) : out.id = m.id
      /\ \A i \in Incidents : Out("incident.resolved", i) \in LifecycleEvents(m)
            => i = m.id /\ m.kind = "success"
  BY DEF LifecycleEvents, Out
<1>4. QED
  BY <1>1, <1>2, <1>3 DEF PublishLifecycle

LEMMA StepKeepsAnnouncements ==
    ASSUME RecordInv, Next
    PROVE  AnnouncementsHaveRows' /\ ResolutionsAreCommitted'
<1>1. /\ \A out \in emitted : HasRow(out.id) /\ out.id \in Incidents
      /\ \A i \in Incidents : Out("incident.resolved", i) \in emitted => db[i].resolved
  BY DEF RecordInv, AnnouncementsHaveRows, ResolutionsAreCommitted, Typed, TypeOK
<1>2. DbGrows
  BY StepGrowsDb DEF RecordInv
<1>3. ASSUME emitted' = emitted PROVE AnnouncementsHaveRows' /\ ResolutionsAreCommitted'
  BY <1>1, <1>2, <1>3 DEF DbGrows, AnnouncementsHaveRows, ResolutionsAreCommitted, HasRow
<1>4. CASE Asks
  BY <1>1, <1>4 DEF Asks, AnnouncementsHaveRows, ResolutionsAreCommitted, HasRow, Out
<1>5. ASSUME NEW s \in Subs, PublishLifecycle(s)
      PROVE  AnnouncementsHaveRows' /\ ResolutionsAreCommitted'
  BY <1>1, <1>5, LifecycleIsGrounded DEF AnnouncementsHaveRows, ResolutionsAreCommitted,
     HasRow
<1>6. QED
  BY <1>3, <1>4, <1>5, StepAnnounces DEF Silent, Publish, InsertIncident, SaveStatus

LEMMA RecordInvariant == Spec => []RecordInv
<1>1. Init => RecordInv
  <2> SUFFICES ASSUME Init PROVE RecordInv
    OBVIOUS
  <2>1. Typed
    BY InitType DEF Typed
  <2>2. KnownHaveRows
    BY NoRowsLeft DEF Init, KnownHaveRows, Tracked, NoFSM, NewFSM, LoopAt, NoState
  <2>3. ActivationsHaveRows
    BY DEF Init, ActivationsHaveRows, Grounded, Busy
  <2>4. AnnouncementsHaveRows /\ ResolutionsAreCommitted
    BY DEF Init, AnnouncementsHaveRows, ResolutionsAreCommitted
  <2>5. QED
    BY <2>1, <2>2, <2>3, <2>4 DEF RecordInv
<1>2. RecordInv /\ [Next]_vars => RecordInv'
  <2>1. CASE UNCHANGED vars
    <3>1. ASSUME RecordInv PROVE Typed'
      BY <2>1, <3>1, StepKeepsType DEF RecordInv, Typed
    <3>2. QED
      BY <2>1, <3>1 DEF vars, RecordInv, KnownHaveRows, Tracked, HasRow,
         ActivationsHaveRows, Grounded, Busy, AnnouncementsHaveRows,
         ResolutionsAreCommitted
  <2>2. CASE Next
    BY <2>2, StepKeepsType, StepKeepsKnown, StepKeepsActivations,
       StepKeepsAnnouncements DEF RecordInv, Typed
  <2>3. QED
    BY <2>1, <2>2
<1>3. QED
  BY <1>1, <1>2, PTL DEF Spec

\* Every incident the process tracks has a committed row, from which a crash
\* can be recovered.
THEOREM TrackedIsOnRecord == Spec => []TrackedHasRow
<1>1. RecordInv => TrackedHasRow
  BY DEF RecordInv, KnownHaveRows, TrackedHasRow
<1>2. QED
  BY <1>1, RecordInvariant, PTL

\* Whatever is announced about an incident was committed before, and the
\* announcement of a resolution follows the commit of that resolution.
THEOREM CommittedBeforeAnnounced == Spec => []AnnouncedAfterCommit
<1>1. RecordInv => AnnouncedAfterCommit
  BY DEF RecordInv, AnnouncementsHaveRows, ResolutionsAreCommitted, AnnouncedAfterCommit
<1>2. QED
  BY <1>1, RecordInvariant, PTL

LEMMA InitImplements == Init => Contract!Init
<1> SUFFICES ASSUME Init PROVE Contract!Init
  OBVIOUS
<1>1. \A i \in Incidents, kind \in Kinds : ~WasSent(kind, i)
  <2>1. \A i \in Incidents, kind \in Kinds : Msg(kind, i) \in Message
    BY DEF Msg, Message
  <2>2. QED
    BY <2>1 DEF Init, WasSent
<1>2. \A i \in Incidents : /\ ~Approved(i) /\ ~WasSent("success", i)
                           /\ ~db[i].resolved
                           /\ Out("incident.resolved", i) \notin emitted
  BY <1>1 DEF Init, Approved, Kinds, Row
<1>3. QED
  BY <1>2 DEF Contract!Init

LEMMA StepImplements ==
    ASSUME SafetyInv, RecordInv, [Next]_vars
    PROVE  [Contract!Next]_(Contract!vars)
<1> DEFINE approved == {i \in Incidents : Approved(i)}
           succeeded == {i \in Incidents : WasSent("success", i)}
           resolved == {i \in Incidents : db[i].resolved}
           announced == {i \in Incidents : Out("incident.resolved", i) \in emitted}
<1>1. /\ sent' = sent => approved' = approved /\ succeeded' = succeeded
      /\ db' = db => resolved' = resolved
      /\ emitted' = emitted => announced' = announced
  BY DEF Approved, WasSent
<1>2. ASSUME approved' = approved, succeeded' = succeeded, resolved' = resolved,
             announced' = announced
      PROVE  [Contract!Next]_(Contract!vars)
  BY <1>2 DEF Contract!vars
<1>3. ASSUME NEW m \in Message, Publish(m) PROVE [Contract!Next]_(Contract!vars)
  <2>1. /\ m.kind \in Kinds /\ m.id \in Incidents /\ m = Msg(m.kind, m.id)
        /\ resolved' = resolved /\ announced' = announced
    BY <1>1, <1>3 DEF Publish, Message, Msg
  <2>2. ASSUME NEW kind \in Kinds, NEW i \in Incidents, Msg(kind, i) # m
        PROVE  WasSent(kind, i)' <=> WasSent(kind, i)
    BY <1>3, <2>2 DEF Publish, WasSent, RecordInv, Typed, TypeOK, Msg, Message
  <2>3. WasSent(m.kind, m.id)'
    BY <1>3, <2>1 DEF Publish, WasSent, RecordInv, Typed, TypeOK, Msg
  <2>4. CASE m.kind \in {"approved", "approve"}
    <3>1. succeeded' = succeeded /\ approved' = approved \union {m.id}
      BY <2>1, <2>2, <2>3, <2>4 DEF Approved, Msg, Kinds
    <3>2. QED
      BY <2>1, <3>1 DEF Contract!Next, Contract!Approve
  <2>5. CASE m.kind = "success"
    <3>1. approved' = approved /\ succeeded' = succeeded \union {m.id}
      BY <2>1, <2>2, <2>3, <2>5 DEF Approved, Msg, Kinds
    <3>2. m.id \in approved
      BY <1>3, <2>1, <2>5 DEF Publish, MayPublish, Approved, WasSent
    <3>3. QED
      BY <2>1, <3>1, <3>2 DEF Contract!Next, Contract!Succeed
  <2>6. CASE m.kind \notin {"approved", "approve", "success"}
    <3>1. approved' = approved /\ succeeded' = succeeded
      BY <2>1, <2>2, <2>6 DEF Approved, Msg, Kinds
    <3>2. QED
      BY <1>2, <2>1, <3>1
  <2>7. QED
    BY <2>4, <2>5, <2>6
<1>4. ASSUME NEW s \in Subs, SaveStatus(s) PROVE [Contract!Next]_(Contract!vars)
  <2> DEFINE m == task[s].m
  <2>1. /\ Busy(s) /\ m.id \in Incidents /\ WasSent(m.kind, m.id)
        /\ approved' = approved /\ succeeded' = succeeded /\ announced' = announced
    BY <1>1, <1>4, ActivationWasSent DEF SaveStatus, At, SafetyInv
  <2>2. /\ \A i \in Incidents : i # m.id => db'[i] = db[i]
        /\ m.kind # "success" => (db'[m.id].resolved <=> db[m.id].resolved)
    BY <1>4, <2>1, SaveResolves DEF RecordInv
  <2>3. db[m.id].resolved => db'[m.id].resolved
    BY <1>4, <2>1, SaveGrows DEF DbGrows, RecordInv
  <2>4. CASE resolved' = resolved
    BY <1>2, <2>1, <2>4
  <2>5. CASE resolved' # resolved
    <3>1. m.kind = "success" /\ resolved' = resolved \union {m.id}
      BY <2>1, <2>2, <2>3, <2>5
    <3>2. m.id \in approved /\ m.id \in succeeded
      BY <2>1, <3>1 DEF SafetyInv, SuccessWasApproved
    <3>3. QED
      BY <2>1, <3>1, <3>2 DEF Contract!Next, Contract!Resolve
  <2>6. QED
    BY <2>4, <2>5
<1>5. ASSUME NEW s \in Subs, InsertIncident(s) PROVE [Contract!Next]_(Contract!vars)
  <2>1. \A i \in Incidents : db'[i].resolved = db[i].resolved
    <3> DEFINE j == task[s].m.id
               row == [db[j] EXCEPT !.status = "detecting"]
    <3>1. db' = db \/ db' = [db EXCEPT ![j] = row]
      BY <1>5 DEF InsertIncident
    <3>2. j \in Incidents
      BY <1>5 DEF InsertIncident, At, Busy, RecordInv, Typed, TypeOK, Activation, Message
    <3>3. row.resolved = db[j].resolved
      BY <3>2 DEF RecordInv, Typed, TypeOK
    <3> HIDE DEF row
    <3>4. QED
      BY <3>1, <3>2, <3>3 DEF RecordInv, Typed, TypeOK
  <2>2. resolved' = resolved
    BY <2>1
  <2>3. QED
    BY <1>1, <1>2, <1>5, <2>2 DEF InsertIncident
<1>6. ASSUME NEW s \in Subs, PublishLifecycle(s) PROVE [Contract!Next]_(Contract!vars)
  <2> DEFINE m == task[s].m
  <2>1. /\ m.id \in Incidents
        /\ approved' = approved /\ succeeded' = succeeded /\ resolved' = resolved
    BY <1>1, <1>6, LifecycleIsGrounded DEF RecordInv
  <2>2. CASE announced' = announced
    BY <1>2, <2>1, <2>2
  <2>3. CASE announced' # announced
    <3>1. announced' = announced \union {m.id} /\ m.id \in resolved
      BY <1>6, <2>1, <2>3, LifecycleIsGrounded
    <3>2. QED
      BY <2>1, <3>1 DEF Contract!Next, Contract!Announce
  <2>4. QED
    BY <2>2, <2>3
<1>7. CASE Asks
  <2>1. announced' = announced
    BY <1>7 DEF Asks, Out
  <2>2. QED
    BY <1>1, <1>2, <1>7, <2>1 DEF Asks
<1>8. CASE Silent \/ UNCHANGED vars
  BY <1>1, <1>2, <1>8 DEF Silent, vars
<1>9. QED
  BY <1>3, <1>4, <1>5, <1>6, <1>7, <1>8, StepAnnounces

\* The orchestrator implements RepairContract, through crashes, redeliveries
\* and overlapping handlers: a resolution needs approval and success, is
\* never undone, and precedes its announcement.
THEOREM ContractHolds == Spec => ImplementsContract
<1>1. Init => Contract!Init
  BY InitImplements
<1>2. SafetyInv /\ RecordInv /\ [Next]_vars => [Contract!Next]_(Contract!vars)
  BY StepImplements
<1>3. QED
  BY <1>1, <1>2, SafetyInvariant, RecordInvariant, PTL
     DEF Spec, ImplementsContract, Contract!Spec
=============================================================================
