---------------------------- MODULE Orchestrator ----------------------------
(***************************************************************************)
(* The orchestrator agent: agents/orchestrator/src and what it uses of     *)
(* shared/messaging/nats_client.py and shared/db/session.py.               *)
(*                                                                         *)
(* One asyncio process runs one task per durable subscription and the main *)
(* task (recovery, then the periodic loop).  A task keeps the processor    *)
(* until its next await, so every action below is the code between two     *)
(* awaits, and the program counter of a task names the await it stands at: *)
(*   insert, save, timeline - a database session about to commit;          *)
(*   open                   - the insert has committed, the handler not    *)
(*                            yet resumed;                                 *)
(*   route, announce, escalate - a NATS publish;                           *)
(*   ack                    - the handler returned, the message is not yet *)
(*                            acknowledged.                                *)
(* The other agents and the dashboard are the environment: they publish    *)
(* the messages the documented protocol allows.  Message text, payloads,   *)
(* severities, timelines and the postmortem are left out.                  *)
(***************************************************************************)
EXTENDS IncidentFSM, Sequences, FiniteSets

CONSTANTS
    Incidents,      \* correlation ids, which are the incident ids
    Agents,         \* agent ids that send heartbeats
    AgentType,      \* AgentType[a]: the agent_type in a's heartbeats
    Recorded,       \* Recorded[i]: the status i's row has from an earlier run
    MaxSent,        \* MaxSent[m]: how often m may be published (bound)
    SlowStates,     \* states in which the timeout may strike (bound)
    MaxFaults,      \* failed sessions, publishes, acks; expired messages, waits (bound)
    MaxCrashes      \* process crashes (bound)

Kinds == {"anomaly", "diagnosis", "approved", "rejected",
          "pending_human_approval", "success", "failed", "approve", "reject"}

Message == [kind : Kinds, id : Incidents]

Msg(kind, i) == [kind |-> kind, id |-> i]

ASSUME BoundsAssumption ==
    /\ MaxSent \in [Message -> Nat]
    /\ SlowStates \subseteq TimedStates
    /\ MaxFaults \in Nat
    /\ MaxCrashes \in Nat

Statuses == States \union {NoState}

\* States of an incident whose repair has been let loose.
Unleashed == {"executing", "verifying", "resolved", "closed"}

\* The approvals of earlier runs are not modelled, so an incident they left
\* open is one that still needs its approval.
ASSUME RecordedAssumption == Recorded \in [Incidents -> Statuses \ Unleashed]

ASSUME AgentTypeAssumption == AgentType \in [Agents -> STRING]

\* Durable consumers, one per subject; the heartbeat subject is handled by
\* Heartbeat, whose handler has no await.
Subs == {"anomalies", "diagnosis", "safety", "executions", "approvals"}

SubOf ==
    [ anomaly                |-> "anomalies",
      diagnosis              |-> "diagnosis",
      approved               |-> "safety",
      rejected               |-> "safety",
      pending_human_approval |-> "safety",
      success                |-> "executions",
      failed                 |-> "executions",
      approve                |-> "approvals",
      reject                 |-> "approvals" ]

VARIABLES
    fsms,       \* active_fsms: in-memory state machine of each incident
    registry,   \* router.registry: what is known of each agent
    task,       \* the handler activation of each subscription
    loop,       \* the main task
    db,         \* the incidents table: committed status and resolution
    inbox,      \* undelivered messages of each durable consumer
    sent,       \* how often each message has been published
    emitted,    \* what the orchestrator has published
    faults, crashes

vars == <<fsms, registry, task, loop, db, inbox, sent, emitted, faults, crashes>>

-----------------------------------------------------------------------------
(* State.                                                                  *)

Row(status) == [status |-> status, resolved |-> FALSE]

HasRow(i) == db[i].status # NoState

Tracked(i) == fsms[i].state # NoState

Active == {i \in Incidents : Tracked(i)}

\* The rows _recover_inflight selects.
InFlight(i) == HasRow(i) /\ db[i].status \notin Terminal

Pcs == {"insert", "open", "save", "timeline", "route", "announce",
        "escalate", "ack"}

Idle == [pc |-> "idle"]

\* own: the FSM object this activation looked up is still the registered one.
Activation == [pc : Pcs, m : Message, own : BOOLEAN]

Busy(s) == task[s] # Idle

At(s, pc) == Busy(s) /\ task[s].pc = pc

LoopPcs == {"down", "recover", "load", "sleep", "check", "agents", "scan"}

NoRows == [i \in Incidents |-> NoState]

\* todo: incidents the current iteration has yet to visit; rows: the result
\* of the recovery query; dead: agents to handle; waiting: the states that
\* depend on the one being handled; seen: the keys when its iteration began.
LoopAt(at, todo, dead) ==
    [at |-> at, todo |-> todo, rows |-> NoRows, dead |-> dead,
     waiting |-> {}, seen |-> {}]

Down == LoopAt("down", {}, {})

Sleeping == LoopAt("sleep", {}, {})

Listening == loop.at # "down"

AgentStates == {"unknown", "healthy", "stale", "dead"}

\* agent_state_map of handle_dead_agent.
DependentStates(type) ==
    CASE type = "agents.diagnoser"  -> {"diagnosing"}
      [] type = "agents.remediator" -> {"executing"}
      [] type = "agents.safety"     -> {"safety_review"}
      [] type = "agents.observer"   -> {"detecting"}
      [] OTHER                      -> {}

\* The publications that are recorded; incident.updated and state_retry are
\* steps without a record, since no agent reacts to them.
OutTypes == {"diagnosis_request", "incident.created", "incident.resolved",
             "escalation"}

Out(type, i) == [type |-> type, id |-> i]

\* The consumers exist (they are durable, deliver_policy "new"), nothing has
\* been published to them yet, the incidents of earlier runs are on record,
\* and the process is about to run its recovery.
Init ==
    /\ fsms = [i \in Incidents |-> NoFSM]
    /\ registry = [a \in Agents |-> "unknown"]
    /\ task = [s \in Subs |-> Idle]
    /\ loop = LoopAt("recover", {}, {})
    /\ db = [i \in Incidents |-> Row(Recorded[i])]
    /\ inbox = [s \in Subs |-> <<>>]
    /\ sent = [m \in Message |-> 0]
    /\ emitted = {}
    /\ faults = 0
    /\ crashes = 0

-----------------------------------------------------------------------------
(* The environment.                                                        *)

\* A diagnosis has been published, in this run or in an earlier one.
Diagnosed(i) ==
    \/ sent[Msg("diagnosis", i)] > 0
    \/ Recorded[i] \in {"proposing_remediation", "safety_review"}

\* What the protocol lets the other components publish, and when: the
\* diagnoser answers an anomaly, Safety reviews what the remediator proposes
\* on a diagnosis, the remediator executes what Safety approved, and the
\* dashboard accepts a click only while the row says safety_review.
MayPublish(m) ==
    CASE m.kind = "anomaly"   -> TRUE
      [] m.kind = "diagnosis" -> sent[Msg("anomaly", m.id)] > 0
      [] m.kind \in {"approved", "rejected", "pending_human_approval"} ->
            Diagnosed(m.id)
      [] m.kind \in {"success", "failed"} -> sent[Msg("approved", m.id)] > 0
      [] m.kind \in {"approve", "reject"} -> db[m.id].status = "safety_review"

Publish(m) ==
    /\ sent[m] < MaxSent[m]
    /\ MayPublish(m)
    /\ sent' = [sent EXCEPT ![m] = @ + 1]
    /\ inbox' = [inbox EXCEPT ![SubOf[m.kind]] = Append(@, m)]
    /\ UNCHANGED <<fsms, registry, task, loop, db, emitted, faults, crashes>>

\* The state of i outlives its timeout.
ClockRunsOut(i) ==
    /\ fsms[i].state \in SlowStates
    /\ ~fsms[i].late
    /\ fsms' = [fsms EXCEPT ![i].late = TRUE]
    /\ UNCHANGED <<registry, task, loop, db, inbox, sent, emitted, faults, crashes>>

Heartbeat(a) ==
    /\ Listening
    /\ registry' = [registry EXCEPT ![a] = "healthy"]
    /\ UNCHANGED <<fsms, task, loop, db, inbox, sent, emitted, faults, crashes>>

\* HEARTBEAT_TIMEOUT_SECONDS pass without a heartbeat of a.
HeartbeatLost(a) ==
    /\ registry[a] = "healthy"
    /\ registry' = [registry EXCEPT ![a] = "stale"]
    /\ UNCHANGED <<fsms, task, loop, db, inbox, sent, emitted, faults, crashes>>

-----------------------------------------------------------------------------
(* Delivery: a handler runs to its first await.                            *)

CanReceive(s) == Listening /\ ~Busy(s) /\ inbox[s] # <<>>

Start(s, pc) ==
    /\ inbox' = [inbox EXCEPT ![s] = Tail(@)]
    /\ task' = [task EXCEPT ![s] = [pc |-> pc, m |-> Head(inbox[s]), own |-> TRUE]]
    /\ UNCHANGED <<registry, loop, db, sent, emitted, faults, crashes>>

Receive(s, kinds) == CanReceive(s) /\ Head(inbox[s]).kind \in kinds

\* A handler that first moves the FSM and returns if that is refused.
MoveOrReturn(s, target, pc) ==
    LET i == Head(inbox[s]).id IN
    \/ /\ CanTransition(fsms[i], target)
       /\ fsms' = [fsms EXCEPT ![i] = Moved(@, target)]
       /\ Start(s, pc)
    \/ /\ ~CanTransition(fsms[i], target)
       /\ Start(s, "ack")
       /\ UNCHANGED fsms

\* A handler that spends a retry, or escalates when none is left.
RetryOrEscalate(s) ==
    LET i == Head(inbox[s]).id IN
    \/ /\ Tracked(i) /\ ShouldRetry(fsms[i])
       /\ fsms' = [fsms EXCEPT ![i] = IncrementRetry(@)]
       /\ Start(s, "timeline")
    \/ /\ Tracked(i) /\ ~ShouldRetry(fsms[i])
       /\ Start(s, "escalate")
       /\ UNCHANGED fsms
    \/ /\ ~Tracked(i)
       /\ Start(s, "ack")
       /\ UNCHANGED fsms

\* Mutant of HandleAnomaly: the FSM is registered before the row is inserted.
TrackThenInsert ==
    /\ Receive("anomalies", {"anomaly"})
    /\ LET i == Head(inbox["anomalies"]).id IN
       /\ fsms' = [fsms EXCEPT ![i] = Moved(NewFSM("detecting", FALSE), "diagnosing")]
       /\ Start("anomalies", IF Tracked(i) THEN "ack" ELSE "insert")

HandleAnomaly ==
    /\ Receive("anomalies", {"anomaly"})
    /\ Start("anomalies",
             IF Tracked(Head(inbox["anomalies"]).id) THEN "ack" ELSE "insert")
    /\ UNCHANGED fsms

HandleDiagnosisResult ==
    /\ Receive("diagnosis", {"diagnosis"})
    /\ MoveOrReturn("diagnosis", "proposing_remediation", "save")

\* Mutant of HandleApproved: any status but "rejected" counts as approval.
RunUnlessRejected ==
    /\ Receive("safety", {"approved", "pending_human_approval"})
    /\ MoveOrReturn("safety", "executing", "timeline")

HandleApproved ==
    /\ Receive("safety", {"approved"})
    /\ MoveOrReturn("safety", "executing", "timeline")

HandleRejected ==
    /\ Receive("safety", {"rejected"})
    /\ RetryOrEscalate("safety")

\* The refusal of the transition is ignored: the writes follow either way.
HandlePending ==
    /\ Receive("safety", {"pending_human_approval"})
    /\ LET i == Head(inbox["safety"]).id IN
       /\ fsms' = [fsms EXCEPT ![i] = TryTransition(@, "safety_review")]
       /\ Start("safety", IF Tracked(i) THEN "timeline" ELSE "ack")

\* Mutant of HandleSuccess: the resolution is published and never saved first.
AnnounceBeforeSaving ==
    /\ Receive("executions", {"success"})
    /\ LET i == Head(inbox["executions"]).id IN
       /\ CanTransition(fsms[i], "verifying")
       /\ fsms' = [fsms EXCEPT ![i] = Moved(Moved(@, "verifying"), "resolved")]
       /\ Start("executions", "announce")

\* transition("verifying") then transition("resolved"), with no await between.
HandleSuccess ==
    /\ Receive("executions", {"success"})
    /\ LET i == Head(inbox["executions"]).id IN
       \/ /\ CanTransition(fsms[i], "verifying")
          /\ fsms' = [fsms EXCEPT ![i] = Moved(Moved(@, "verifying"), "resolved")]
          /\ Start("executions", "save")
       \/ /\ ~CanTransition(fsms[i], "verifying")
          /\ Start("executions", "ack")
          /\ UNCHANGED fsms

HandleFailed ==
    /\ Receive("executions", {"failed"})
    /\ RetryOrEscalate("executions")

\* Mutant of HandleApprove: the decision in the payload is not looked at.
RunOnAnyDecision ==
    /\ Receive("approvals", {"approve", "reject"})
    /\ MoveOrReturn("approvals", "executing", "timeline")

HandleApprove ==
    /\ Receive("approvals", {"approve"})
    /\ MoveOrReturn("approvals", "executing", "timeline")

HandleReject ==
    /\ Receive("approvals", {"reject"})
    /\ Start("approvals",
             IF Tracked(Head(inbox["approvals"]).id) THEN "timeline" ELSE "ack")
    /\ UNCHANGED fsms

\* _raw_handler acknowledges and drops a message older than its TTL.
DiscardExpired(s) ==
    /\ CanReceive(s)
    /\ faults < MaxFaults
    /\ faults' = faults + 1
    /\ inbox' = [inbox EXCEPT ![s] = Tail(@)]
    /\ UNCHANGED <<fsms, registry, task, loop, db, sent, emitted, crashes>>

Deliver(s) ==
    \/ s = "anomalies"  /\ HandleAnomaly
    \/ s = "diagnosis"  /\ HandleDiagnosisResult
    \/ s = "safety"     /\ (HandleApproved \/ HandleRejected \/ HandlePending)
    \/ s = "executions" /\ (HandleSuccess \/ HandleFailed)
    \/ s = "approvals"  /\ (HandleApprove \/ HandleReject)

-----------------------------------------------------------------------------
(* The rest of an activation: one step per await.                          *)

Goto(s, pc) == task' = [task EXCEPT ![s].pc = pc]

\* A raised exception or a lost acknowledgement: the message is redelivered.
Redeliver(s) ==
    /\ task' = [task EXCEPT ![s] = Idle]
    /\ inbox' = [inbox EXCEPT ![s] = Append(@, task[s].m)]

\* The registered FSM of the incidents in I is replaced by a new object:
\* activations that hold the old one keep it.
Disown(I) ==
    [s \in Subs |-> IF Busy(s) /\ task[s].m.id \in I
                    THEN [task[s] EXCEPT !.own = FALSE]
                    ELSE task[s]]

\* INSERT of the incident; an existing primary key raises IntegrityError.
InsertIncident(s) ==
    /\ At(s, "insert")
    /\ LET i == task[s].m.id IN
       \/ /\ ~HasRow(i)
          /\ db' = [db EXCEPT ![i].status = "detecting"]
          /\ Goto(s, "open")
          /\ UNCHANGED inbox
       \/ /\ HasRow(i)
          /\ Redeliver(s)
          /\ UNCHANGED db
    /\ UNCHANGED <<fsms, registry, loop, sent, emitted, faults, crashes>>

\* IncidentFSM("detecting"), then transition("diagnosing").
OpenIncident(s) ==
    /\ At(s, "open")
    /\ LET i == task[s].m.id IN
       /\ fsms' = [fsms EXCEPT ![i] = Moved(NewFSM("detecting", FALSE), "diagnosing")]
       /\ task' = [Disown({i}) EXCEPT ![s].pc = "save"]
    /\ UNCHANGED <<registry, loop, db, inbox, sent, emitted, faults, crashes>>

\* Mutants of SavedStatus: the payload's status is written as it came; an
\* approval is taken for the end of the repair.
StatusOfPayload(kind) == kind

ApprovedIsDone(kind) ==
    CASE kind = "anomaly"                -> "diagnosing"
      [] kind = "diagnosis"              -> "proposing_remediation"
      [] kind = "pending_human_approval" -> "safety_review"
      [] OTHER                           -> "resolved"

\* The status each handler writes to the row.
SavedStatus(kind) ==
    CASE kind = "anomaly"                  -> "diagnosing"
      [] kind = "diagnosis"                -> "proposing_remediation"
      [] kind \in {"approved", "approve"}  -> "executing"
      [] kind = "pending_human_approval"   -> "safety_review"
      [] kind = "success"                  -> "resolved"

AfterSave(kind) ==
    CASE kind = "anomaly"                -> "route"
      [] kind = "pending_human_approval" -> "ack"
      [] OTHER                           -> "announce"

\* Mutant of SaveStatus: every save writes the resolution columns.
SaveWholeRow(s) ==
    /\ At(s, "save")
    /\ LET m == task[s].m IN
       /\ db' = [db EXCEPT ![m.id] = [status   |-> SavedStatus(m.kind),
                                      resolved |-> m.kind = "success"]]
       /\ Goto(s, AfterSave(m.kind))
    /\ UNCHANGED <<fsms, registry, loop, inbox, sent, emitted, faults, crashes>>

\* Only the row's existence is checked, never its current status.
SaveStatus(s) ==
    /\ At(s, "save")
    /\ LET m == task[s].m IN
       /\ db' = IF HasRow(m.id)
                THEN [db EXCEPT ![m.id] =
                        [status   |-> SavedStatus(m.kind),
                         resolved |-> @.resolved \/ m.kind = "success"]]
                ELSE db
       /\ Goto(s, AfterSave(m.kind))
    /\ UNCHANGED <<fsms, registry, loop, inbox, sent, emitted, faults, crashes>>

\* The timeline write, and what its handler does when it returns.
WriteTimeline(s) ==
    /\ At(s, "timeline")
    /\ LET m == task[s].m IN
       \/ /\ m.kind \in {"approved", "approve", "pending_human_approval"}
          /\ Goto(s, "save")
          /\ UNCHANGED fsms
       \/ /\ m.kind \in {"rejected", "failed"}
          /\ fsms' = IF task[s].own
                     THEN [fsms EXCEPT ![m.id] = TryTransition(@, "proposing_remediation")]
                     ELSE fsms
          /\ Goto(s, "ack")
       \/ /\ m.kind = "reject"
          /\ Goto(s, "escalate")
          /\ UNCHANGED fsms
    /\ UNCHANGED <<registry, loop, db, inbox, sent, emitted, faults, crashes>>

RouteToDiagnoser(s) ==
    /\ At(s, "route")
    /\ emitted' = emitted \union {Out("diagnosis_request", task[s].m.id)}
    /\ Goto(s, "announce")
    /\ UNCHANGED <<fsms, registry, loop, db, inbox, sent, faults, crashes>>

LifecycleEvents(m) ==
    CASE m.kind = "anomaly" -> {Out("incident.created", m.id)}
      [] m.kind = "success" -> {Out("incident.resolved", m.id)}
      [] OTHER              -> {}

PublishLifecycle(s) ==
    /\ At(s, "announce")
    /\ emitted' = emitted \union LifecycleEvents(task[s].m)
    /\ Goto(s, "ack")
    /\ UNCHANGED <<fsms, registry, loop, db, inbox, sent, faults, crashes>>

EscalateFromHandler(s) ==
    /\ At(s, "escalate")
    /\ emitted' = emitted \union {Out("escalation", task[s].m.id)}
    /\ Goto(s, "ack")
    /\ UNCHANGED <<fsms, registry, loop, db, inbox, sent, faults, crashes>>

Ack(s) ==
    /\ At(s, "ack")
    /\ task' = [task EXCEPT ![s] = Idle]
    /\ UNCHANGED <<fsms, registry, loop, db, inbox, sent, emitted, faults, crashes>>

\* The awaited session, publish or ack raises: _raw_handler sends a nak.
HandlerFails(s) ==
    /\ Busy(s) /\ ~At(s, "open")
    /\ faults < MaxFaults
    /\ faults' = faults + 1
    /\ Redeliver(s)
    /\ UNCHANGED <<fsms, registry, loop, db, sent, emitted, crashes>>

\* The handler takes longer than ack_wait: the message is delivered once more
\* and waits behind the activation that is still handling it.
AckWaitExpires(s) ==
    /\ Busy(s)
    /\ faults < MaxFaults
    /\ faults' = faults + 1
    /\ inbox' = [inbox EXCEPT ![s] = Append(@, task[s].m)]
    /\ UNCHANGED <<fsms, registry, task, loop, db, sent, emitted, crashes>>

Proceed(s) ==
    \/ InsertIncident(s) \/ OpenIncident(s) \/ SaveStatus(s) \/ WriteTimeline(s)
    \/ RouteToDiagnoser(s) \/ PublishLifecycle(s) \/ EscalateFromHandler(s)
    \/ Ack(s)

-----------------------------------------------------------------------------
(* The main task.  setup() subscribes first and recovers second, so the    *)
(* handlers above already run while the recovery query is in progress.     *)

MainUnchanged == UNCHANGED <<task, db, inbox, sent, crashes>>

\* Somebody starts the container again: docker-compose gives the orchestrator
\* no restart policy, so nothing obliges this to happen.
Restart ==
    /\ loop.at = "down"
    /\ loop' = LoopAt("recover", {}, {})
    /\ UNCHANGED <<fsms, registry, emitted, faults>> /\ MainUnchanged

\* Mutant of QueryInFlight: only incidents that were diagnosed are selected.
QueryDiagnosed ==
    /\ loop.at = "recover"
    /\ loop' = [LoopAt("load", {}, {}) EXCEPT !.rows =
                  [i \in Incidents |->
                     IF InFlight(i) /\ db[i].status \notin {"detecting", "diagnosing"}
                     THEN db[i].status ELSE NoState]]
    /\ UNCHANGED <<fsms, registry, emitted, faults>> /\ MainUnchanged

QueryInFlight ==
    /\ loop.at = "recover"
    /\ loop' = [LoopAt("load", {}, {}) EXCEPT !.rows =
                  [i \in Incidents |-> IF InFlight(i) THEN db[i].status ELSE NoState]]
    /\ UNCHANGED <<fsms, registry, emitted, faults>> /\ MainUnchanged

\* A failing query is logged and recovery skipped.
QueryFails ==
    /\ loop.at = "recover"
    /\ faults < MaxFaults
    /\ faults' = faults + 1
    /\ loop' = Sleeping
    /\ UNCHANGED <<fsms, registry, emitted>> /\ MainUnchanged

\* Each selected row gets a new FSM, whatever was registered; how old its
\* state_entered_at is depends on how long the process was down.
LoadInFlight ==
    /\ loop.at = "load"
    /\ LET loaded == {i \in Incidents : loop.rows[i] # NoState} IN
       /\ \E overdue \in SUBSET {i \in loaded : loop.rows[i] \in SlowStates} :
            fsms' = [i \in Incidents |-> IF i \in loaded
                                         THEN NewFSM(loop.rows[i], i \in overdue)
                                         ELSE fsms[i]]
       /\ task' = Disown(loaded)
    /\ loop' = Sleeping
    /\ UNCHANGED <<registry, db, inbox, sent, emitted, faults, crashes>>

TimedOut(i) == ~IsTerminal(fsms[i]) /\ fsms[i].late

\* An exception in run_loop ends the cycle, whatever was left to do.
CycleFails ==
    /\ faults < MaxFaults
    /\ faults' = faults + 1
    /\ loop' = Sleeping
    /\ UNCHANGED emitted

\* check_timeouts goes through its copy of the keys: it passes some that have
\* not timed out and publishes for one that has.
ScansTimeouts == loop.at \in {"sleep", "check"}

Keys == IF loop.at = "sleep" THEN Active ELSE loop.todo

\* Mutant of VisitNext: the scan starts over after each publish.
VisitAgain(i) == loop' = LoopAt("check", Keys, {})

VisitNext(i) ==
    \E passed \in SUBSET {j \in Keys : ~TimedOut(j)} :
        loop' = LoopAt("check", Keys \ (passed \union {i}), {})

\* increment_retry precedes the publish and is not undone when that fails.
RetryCurrentState(i) ==
    /\ ScansTimeouts /\ i \in Keys
    /\ TimedOut(i) /\ ShouldRetry(fsms[i])
    /\ fsms' = [fsms EXCEPT ![i] = IncrementRetry(@)]
    /\ \/ VisitNext(i) /\ UNCHANGED <<emitted, faults>>
       \/ CycleFails
    /\ UNCHANGED registry /\ MainUnchanged

EscalateToHuman(i) ==
    /\ ScansTimeouts /\ i \in Keys
    /\ TimedOut(i) /\ ~ShouldRetry(fsms[i])
    /\ \/ /\ VisitNext(i)
          /\ emitted' = emitted \union {Out("escalation", i)}
          /\ UNCHANGED faults
       \/ CycleFails
    /\ UNCHANGED <<fsms, registry>> /\ MainUnchanged

\* Where the cycle goes on when it has agents left to handle, or sleeps.
AgentsLeft(dead) == IF dead = {} THEN Sleeping ELSE LoopAt("agents", {}, dead)

\* No key left has timed out: prune_stale_agents follows without an await.
PruneStaleAgents ==
    /\ ScansTimeouts
    /\ \A i \in Keys : ~TimedOut(i)
    /\ registry' = [a \in Agents |->
                      IF registry[a] = "stale" THEN "dead" ELSE registry[a]]
    /\ loop' = AgentsLeft({a \in Agents : registry[a] = "stale"})
    /\ UNCHANGED <<fsms, emitted, faults>> /\ MainUnchanged

Affected(keys, states) == {i \in keys : fsms[i].state \in states}

\* handle_dead_agent passes some unaffected keys, then escalates one that is
\* affected; the publish is an await, so the dictionary may grow meanwhile.
EscalateNext(keys, states, dead) ==
    \E i \in Affected(keys, states) :
      \/ /\ emitted' = emitted \union {Out("escalation", i)}
         /\ \E passed \in SUBSET (keys \ Affected(keys, states)) :
              loop' = [at |-> "scan", todo |-> keys \ (passed \union {i}),
                       rows |-> NoRows, dead |-> dead,
                       waiting |-> states, seen |-> Active]
         /\ UNCHANGED faults
      \/ CycleFails

HandleDeadAgent(a) ==
    /\ loop.at = "agents" /\ a \in loop.dead
    /\ LET states == DependentStates(AgentType[a])
           others == loop.dead \ {a} IN
       \/ EscalateNext(Active, states, others)
       \/ /\ Affected(Active, states) = {}
          /\ loop' = AgentsLeft(others)
          /\ UNCHANGED <<emitted, faults>>
    /\ UNCHANGED <<fsms, registry>> /\ MainUnchanged

ContinueScan ==
    /\ loop.at = "scan" /\ loop.seen = Active
    /\ \/ EscalateNext(loop.todo, loop.waiting, loop.dead)
       \/ /\ Affected(loop.todo, loop.waiting) = {}
          /\ loop' = AgentsLeft(loop.dead)
          /\ UNCHANGED <<emitted, faults>>
    /\ UNCHANGED <<fsms, registry>> /\ MainUnchanged

\* RuntimeError: dictionary changed size during iteration.
DictionaryChanged ==
    /\ loop.at = "scan" /\ loop.seen # Active
    /\ loop' = Sleeping
    /\ UNCHANGED <<fsms, registry, emitted, faults>> /\ MainUnchanged

MainStep ==
    \/ QueryInFlight \/ LoadInFlight
    \/ \E i \in Incidents : RetryCurrentState(i) \/ EscalateToHuman(i)
    \/ PruneStaleAgents
    \/ \E a \in Agents : HandleDeadAgent(a)
    \/ ContinueScan \/ DictionaryChanged

-----------------------------------------------------------------------------
(* The process dies: memory is lost, and JetStream redelivers what was     *)
(* delivered and not acknowledged.                                         *)

Crash ==
    /\ Listening
    /\ crashes < MaxCrashes
    /\ crashes' = crashes + 1
    /\ fsms' = [i \in Incidents |-> NoFSM]
    /\ registry' = [a \in Agents |-> "unknown"]
    /\ inbox' = [s \in Subs |-> IF Busy(s) THEN Append(inbox[s], task[s].m)
                                           ELSE inbox[s]]
    /\ task' = [s \in Subs |-> Idle]
    /\ loop' = Down
    /\ UNCHANGED <<db, sent, emitted, faults>>

-----------------------------------------------------------------------------

Environment ==
    \/ \E m \in Message : Publish(m)
    \/ \E i \in Incidents : ClockRunsOut(i)
    \/ \E a \in Agents : Heartbeat(a) \/ HeartbeatLost(a)

Next ==
    \/ Environment
    \/ \E s \in Subs : Deliver(s) \/ Proceed(s)
    \/ \E s \in Subs : DiscardExpired(s) \/ HandlerFails(s) \/ AckWaitExpires(s)
    \/ MainStep \/ QueryFails
    \/ Crash \/ Restart

Spec == Init /\ [][Next]_vars

\* The event loop serves every ready task and time passes.  Nothing obliges
\* the environment to publish, or a fault, a crash, an expiry or a restart to
\* happen.
Fairness ==
    /\ \A s \in Subs : WF_vars(Deliver(s)) /\ WF_vars(Proceed(s))
    /\ WF_vars(MainStep)
    /\ \A i \in Incidents : WF_vars(ClockRunsOut(i))

FairSpec == Spec /\ Fairness

-----------------------------------------------------------------------------
(* Safety.                                                                 *)

Loop == [at : LoopPcs, todo : SUBSET Incidents, rows : [Incidents -> Statuses],
         dead : SUBSET Agents, waiting : SUBSET States, seen : SUBSET Incidents]

\* Every variable keeps its type; in particular a row or a recovered FSM
\* never carries a status that IncidentFSM's constructor would refuse.
TypeOK ==
    /\ fsms \in [Incidents -> FSMs]
    /\ registry \in [Agents -> AgentStates]
    /\ task \in [Subs -> {Idle} \union Activation]
    /\ loop \in Loop
    /\ db \in [Incidents -> [status : Statuses, resolved : BOOLEAN]]
    /\ inbox \in [Subs -> Seq(Message)]
    /\ sent \in [Message -> Nat]
    /\ emitted \subseteq [type : OutTypes, id : Incidents]
    /\ faults \in Nat
    /\ crashes \in Nat

WasSent(kind, i) == sent[Msg(kind, i)] > 0

Approved(i) == WasSent("approved", i) \/ WasSent("approve", i)

\* No repair runs unapproved: an incident is executing or past it, in memory,
\* in the database or in a recovery under way, only if Safety approved an
\* action for it or an operator did - across redeliveries, handlers that
\* overlap, crashes and recovery from the row.
NoUnapprovedExecution ==
    \A i \in Incidents :
        \/ fsms[i].state \in Unleashed
        \/ db[i].status \in Unleashed
        \/ loop.rows[i] \in Unleashed
        => Approved(i)

\* An incident counts as resolved, in memory or on record, only if the
\* remediator reported success for it.
ResolvedOnlyOnSuccess ==
    \A i \in Incidents :
        fsms[i].state \in Terminal \/ db[i].status \in Terminal \/ db[i].resolved
        => WasSent("success", i)

\* The lifecycle stream never runs ahead of the incidents table: an incident
\* is announced, updated or routed to the diagnoser once its row is
\* committed, and announced as resolved once the resolution is.
AnnouncedAfterCommit ==
    \A i \in Incidents :
        /\ (\E out \in emitted : out.id = i) => HasRow(i)
        /\ Out("incident.resolved", i) \in emitted => db[i].resolved

\* Timeouts, rejections and failed executions all draw on one retry budget,
\* from several tasks; it is never overdrawn.
RetriesWithinBudget == \A i \in Incidents : fsms[i].retries <= MaxRetries

\* Whatever the process tracks survives a crash: an FSM is registered only
\* for an incident whose row is committed.
TrackedHasRow == \A i \in Incidents : Tracked(i) => HasRow(i)

\* The orchestrator implements the contract of RepairContract: resolution
\* needs approval and success, is never undone, and precedes its announcement.
Contract ==
    INSTANCE RepairContract WITH
        approved  <- {i \in Incidents : Approved(i)},
        succeeded <- {i \in Incidents : WasSent("success", i)},
        resolved  <- {i \in Incidents : db[i].resolved},
        announced <- {i \in Incidents : Out("incident.resolved", i) \in emitted}

ImplementsContract == Contract!Spec

-----------------------------------------------------------------------------
(* Liveness.                                                               *)

\* No incident is silently stuck: while the process keeps tracking it, an
\* open incident is resolved or an operator is asked, however many publishes
\* fail in between and however the handlers overlap with the loop.
SettledOrEscalated ==
    \A i \in Incidents :
        Tracked(i) ~> \/ ~Tracked(i)
                      \/ IsTerminal(fsms[i])
                      \/ Out("escalation", i) \in emitted

\* An incident whose row is open is tracked by whatever process runs: by the
\* one that inserted it, or, wherever between the insert and the first publish
\* that one crashed, by the next.
InFlightIsTracked ==
    \A i \in Incidents : InFlight(i) ~> Tracked(i) \/ ~InFlight(i) \/ ~Listening

\* The loss of an agent is noticed: its silence leads to its being declared
\* dead, unless it reports back or the registry is lost, however many
\* incidents time out and publishes fail before the cycle reaches the registry.
LostAgentIsNoticed ==
    \A a \in Agents : registry[a] = "stale" ~> registry[a] # "stale"

-----------------------------------------------------------------------------
(* What the documentation says and the code does not do.                   *)

\* The orchestrator rests, the diagnosis of i is on record, and the approval
\* of its remediation comes next.
ApprovalComesNext(i) ==
    /\ loop.at = "sleep" /\ \A s \in Subs : ~Busy(s)
    /\ fsms[i].state = "proposing_remediation"
    /\ db[i].status = "proposing_remediation"
    /\ inbox["safety"] = <<Msg("approved", i)>>

\* docs/workflows/incident_lifecycle.md: an approved remediation is executed,
\* and when its result arrives the orchestrator marks the incident resolved.
SuccessfulRepairResolves ==
    \A i \in Incidents :
        (ApprovalComesNext(i) /\ <>WasSent("success", i)) ~> db[i].resolved
=============================================================================
