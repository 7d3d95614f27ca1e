--------------------- MODULE Orchestrator_safety_proofs ---------------------
(***************************************************************************)
(* The safety properties of Orchestrator.  They rest on where a message    *)
(* comes from: whatever a handler acts on was published, and the protocol  *)
(* lets a success be published only for an approved repair.                *)
(***************************************************************************)
EXTENDS Orchestrator_proofs

-----------------------------------------------------------------------------
(* Provenance of messages.                                                 *)

Queued(s) == {inbox[s][n] : n \in 1 .. Len(inbox[s])}

\* Every message a consumer holds, queued or being handled, was published.
Provenance ==
    \A s \in Subs :
        /\ \A m \in Queued(s) : sent[m] > 0
        /\ Busy(s) => sent[task[s].m] > 0

\* The remediator reports success only for what was approved.
SuccessWasApproved == \A i \in Incidents : WasSent("success", i) => Approved(i)

Typed == TypeOK /\ Shape

LEMMA TypedInvariant == Spec => []Typed
<1>1. Init => Typed
  BY InitType DEF Typed
<1>2. Typed /\ [Next]_vars => Typed'
  BY StepKeepsType DEF Typed
<1>3. QED
  BY <1>1, <1>2, PTL DEF Spec

LEMMA TailElements ==
    ASSUME NEW S, NEW q \in Seq(S), q # <<>>
    PROVE  /\ \E n \in 1 .. Len(q) : Head(q) = q[n]
           /\ \A n \in 1 .. Len(Tail(q)) : \E k \in 1 .. Len(q) : Tail(q)[n] = q[k]
<1>1. Len(q) \in Nat /\ Len(q) > 0 /\ Head(q) = q[1]
  BY EmptySeq, LenProperties
<1>2. Len(Tail(q)) = Len(q) - 1 /\ \A n \in 1 .. Len(Tail(q)) : Tail(q)[n] = q[n + 1]
  BY HeadTailProperties
<1>3. QED
  BY <1>1, <1>2

LEMMA AppendElements ==
    ASSUME NEW S, NEW q \in Seq(S), NEW e \in S
    PROVE  \A n \in 1 .. Len(Append(q, e)) :
              Append(q, e)[n] = e \/ \E k \in 1 .. Len(q) : Append(q, e)[n] = q[k]
<1>1. /\ Len(Append(q, e)) = Len(q) + 1
      /\ \A n \in 1 .. Len(q) : Append(q, e)[n] = q[n]
      /\ Append(q, e)[Len(q) + 1] = e
      /\ Len(q) \in Nat
  BY AppendProperties, LenProperties
<1>2. QED
  BY <1>1

\* The head of a queue was published.
LEMMA HeadSent ==
    ASSUME TypeOK, Provenance, NEW s \in Subs, CanReceive(s)
    PROVE  /\ Head(inbox[s]) \in Message
           /\ sent[Head(inbox[s])] > 0
           /\ \A n \in 1 .. Len(Tail(inbox[s])) : sent[Tail(inbox[s])[n]] > 0
<1>1. inbox[s] \in Seq(Message) /\ inbox[s] # <<>>
  BY DEF TypeOK, CanReceive
<1>2. Head(inbox[s]) \in Message
  BY <1>1, HeadTailProperties
<1>3. QED
  BY <1>1, <1>2, TailElements DEF Provenance, Queued

\* Nothing but Publish changes sent, and Publish respects the protocol.
LEMMA SentGrows ==
    ASSUME TypeOK, Next
    PROVE  /\ \A m \in Message : sent'[m] >= sent[m]
           /\ \/ sent' = sent
              \/ \E m \in Message : Publish(m)
<1>1. ASSUME NEW m \in Message, Publish(m) PROVE \A n \in Message : sent'[n] >= sent[n]
  BY <1>1 DEF Publish, TypeOK
<1>2. ASSUME NEW s \in Subs, Deliver(s) PROVE sent' = sent
  BY <1>2 DEF Deliver, HandleAnomaly, HandleDiagnosisResult, HandleApproved,
     HandleRejected, HandlePending, HandleSuccess, HandleFailed, HandleApprove,
     HandleReject, MoveOrReturn, RetryOrEscalate, Start
<1>3. ASSUME NEW s \in Subs, Proceed(s) PROVE sent' = sent
  BY <1>3 DEF Proceed, InsertIncident, OpenIncident, SaveStatus, WriteTimeline,
     RouteToDiagnoser, PublishLifecycle, EscalateFromHandler, Ack
<1>4. ASSUME MainStep \/ Restart PROVE sent' = sent
  BY <1>4 DEF MainStep, Restart, QueryInFlight, LoadInFlight, RetryCurrentState,
     EscalateToHuman, PruneStaleAgents, HandleDeadAgent, ContinueScan,
     DictionaryChanged, MainUnchanged
<1>5. ASSUME \/ \E s \in Subs : DiscardExpired(s) \/ HandlerFails(s) \/ AckWaitExpires(s)
             \/ QueryFails \/ Crash
             \/ \E i \in Incidents : ClockRunsOut(i)
             \/ \E a \in Agents : Heartbeat(a) \/ HeartbeatLost(a)
      PROVE  sent' = sent
  BY <1>5 DEF DiscardExpired, HandlerFails, AckWaitExpires, QueryFails, Crash, ClockRunsOut,
     Heartbeat, HeartbeatLost, MainUnchanged
<1>6. QED
  <2>1. CASE \E m \in Message : Publish(m)
    BY <1>1, <2>1
  <2>2. CASE sent' = sent
    BY <2>2 DEF TypeOK
  <2>3. QED
    BY <1>2, <1>3, <1>4, <1>5, <2>1, <2>2 DEF Next, Environment

LEMMA WasSentGrows ==
    ASSUME Typed, Next
    PROVE  \A i \in Incidents :
              /\ \A kind \in Kinds : WasSent(kind, i) => WasSent(kind, i)'
              /\ Approved(i) => Approved(i)'
<1>1. ASSUME NEW i \in Incidents, NEW kind \in Kinds, WasSent(kind, i)
      PROVE  WasSent(kind, i)'
  <2>1. Msg(kind, i) \in Message
    BY DEF Msg, Message
  <2>2. TypeOK /\ TypeOK'
    BY StepKeepsType DEF Typed
  <2>3. /\ sent[Msg(kind, i)] \in Nat /\ sent'[Msg(kind, i)] \in Nat
        /\ sent'[Msg(kind, i)] >= sent[Msg(kind, i)]
    BY <2>1, <2>2, SentGrows DEF TypeOK
  <2>4. sent'[Msg(kind, i)] > 0
    BY <1>1, <2>3 DEF WasSent
  <2>5. QED
    BY <2>4 DEF WasSent, Msg
<1>2. QED
  BY <1>1 DEF Approved, Kinds

\* Steps that touch neither queues nor activations preserve provenance.
LEMMA QueuesUnchanged ==
    ASSUME Typed, Provenance, Next, task' = task, inbox' = inbox
    PROVE  Provenance'
<1>1. /\ \A m \in Message : sent[m] > 0 => sent'[m] > 0
      /\ \A s \in Subs : Busy(s)' <=> Busy(s)
  <2>1. \A m \in Message : sent[m] \in Nat /\ sent'[m] \in Nat /\ sent'[m] >= sent[m]
    BY StepKeepsType, SentGrows DEF Typed, TypeOK
  <2>2. QED
    BY <2>1 DEF Busy
<1>2. \A s \in Subs : Queued(s) \subseteq Message
  BY ElementOfSeq DEF Typed, TypeOK, Queued
<1>3. \A s \in Subs : Busy(s) => task[s].m \in Message
  BY DEF Typed, TypeOK, Busy, Activation
<1>4. QED
  BY <1>1, <1>2, <1>3 DEF Provenance, Queued

\* A step of one subscription: its queue only shrinks, or gets its own
\* message back, and its activation stays with its message.
Handled(s) ==
    /\ sent' = sent
    /\ \A r \in Subs : r # s => /\ inbox'[r] = inbox[r]
                                /\ Busy(r)' => Busy(r) /\ task'[r].m = task[r].m
    /\ \A n \in 1 .. Len(inbox'[s]) : sent[inbox'[s][n]] > 0
    /\ Busy(s)' => sent[task'[s].m] > 0

LEMMA HandledKeepsProvenance ==
    ASSUME Provenance, NEW s \in Subs, Handled(s)
    PROVE  Provenance'
BY DEF Provenance, Handled, Queued

LEMMA StartIsHandled ==
    ASSUME TypeOK, Provenance, NEW s \in Subs, CanReceive(s), NEW pc, Start(s, pc)
    PROVE  Handled(s)
<1>1. /\ sent' = sent
      /\ \A r \in Subs : r # s => inbox'[r] = inbox[r] /\ task'[r] = task[r]
      /\ inbox'[s] = Tail(inbox[s])
      /\ task'[s].m = Head(inbox[s])
  BY DEF Start, TypeOK
<1>2. QED
  BY <1>1, HeadSent DEF Handled, Busy

LEMMA DeliverIsHandled ==
    ASSUME TypeOK, Provenance, NEW s \in Subs, Deliver(s)
    PROVE  Handled(s)
<1>1. CanReceive(s) /\ \E pc \in Pcs : Start(s, pc)
  BY DEF Deliver, HandleAnomaly, HandleDiagnosisResult, HandleApproved,
     HandleRejected, HandlePending, HandleSuccess, HandleFailed, HandleApprove,
     HandleReject, MoveOrReturn, RetryOrEscalate, Receive, Pcs
<1>2. QED
  BY <1>1, StartIsHandled

LEMMA RedeliverIsHandled ==
    ASSUME TypeOK, Provenance, NEW s \in Subs, Busy(s), Redeliver(s), sent' = sent
    PROVE  Handled(s)
<1>1. task[s].m \in Message /\ inbox[s] \in Seq(Message)
  BY DEF TypeOK, Busy, Activation
<1>2. /\ \A r \in Subs : r # s => inbox'[r] = inbox[r] /\ task'[r] = task[r]
      /\ inbox'[s] = Append(inbox[s], task[s].m)
      /\ task'[s] = Idle
  BY DEF Redeliver, TypeOK
<1>3. \A n \in 1 .. Len(inbox'[s]) : sent[inbox'[s][n]] > 0
  BY <1>1, <1>2, AppendElements DEF Provenance, Queued
<1>4. QED
  BY <1>2, <1>3 DEF Handled, Busy

LEMMA GotoIsHandled ==
    ASSUME TypeOK, Provenance, NEW s \in Subs, Busy(s), NEW pc, Goto(s, pc),
           inbox' = inbox, sent' = sent
    PROVE  Handled(s)
<1>1. \A r \in Subs : r # s => task'[r] = task[r]
  BY DEF Goto, TypeOK
<1>2. task'[s].m = task[s].m
  BY DEF Goto, TypeOK, Busy, Activation
<1>3. QED
  BY <1>1, <1>2 DEF Handled, Busy, Provenance, Queued

LEMMA ProceedIsHandled ==
    ASSUME TypeOK, Provenance, NEW s \in Subs, Proceed(s)
    PROVE  Handled(s)
<1>1. Busy(s)
  BY DEF Proceed, InsertIncident, OpenIncident, SaveStatus, WriteTimeline,
         RouteToDiagnoser, PublishLifecycle, EscalateFromHandler, Ack, At
<1>2. CASE InsertIncident(s)
  BY <1>1, <1>2, GotoIsHandled, RedeliverIsHandled DEF InsertIncident
<1>3. CASE OpenIncident(s)
  <2> DEFINE others == Disown({task[s].m.id})
  <2>1. task' = [others EXCEPT ![s].pc = "save"] /\ inbox' = inbox /\ sent' = sent
    BY <1>3 DEF OpenIncident
  <2>2. /\ others \in [Subs -> {Idle} \union Activation]
        /\ \A r \in Subs : /\ Busy(r) <=> others[r] # Idle
                           /\ Busy(r) => others[r].m = task[r].m /\ others[r] \in Activation
    BY DisownType
  <2> HIDE DEF others
  <2>3. /\ \A r \in Subs : r # s => task'[r] = others[r]
        /\ task'[s].m = others[s].m
    BY <1>1, <2>1, <2>2 DEF Activation
  <2>4. QED
    BY <1>1, <2>1, <2>2, <2>3 DEF Handled, Busy, Provenance, Queued
<1>4. CASE SaveStatus(s)
  BY <1>1, <1>4, GotoIsHandled DEF SaveStatus
<1>5. CASE WriteTimeline(s)
  BY <1>1, <1>5, GotoIsHandled DEF WriteTimeline
<1>6. CASE RouteToDiagnoser(s) \/ PublishLifecycle(s) \/ EscalateFromHandler(s)
  BY <1>1, <1>6, GotoIsHandled DEF RouteToDiagnoser, PublishLifecycle, EscalateFromHandler
<1>7. CASE Ack(s)
  BY <1>7 DEF Ack, TypeOK, Handled, Busy, Provenance, Queued
<1>8. QED
  BY <1>2, <1>3, <1>4, <1>5, <1>6, <1>7 DEF Proceed

LEMMA StepKeepsProvenance ==
    ASSUME Typed, Provenance, Next
    PROVE  Provenance'
<1>1. ASSUME NEW s \in Subs, Deliver(s) \/ Proceed(s) PROVE Provenance'
  BY <1>1, DeliverIsHandled, ProceedIsHandled, HandledKeepsProvenance DEF Typed
<1>2. ASSUME NEW s \in Subs, HandlerFails(s) \/ AckWaitExpires(s) PROVE Provenance'
  <2>1. CASE HandlerFails(s)
    BY <2>1, RedeliverIsHandled, HandledKeepsProvenance DEF Typed, HandlerFails
  <2>2. CASE AckWaitExpires(s)
    <3>1. /\ task[s].m \in Message /\ inbox[s] \in Seq(Message)
          /\ inbox' = [inbox EXCEPT ![s] = Append(@, task[s].m)]
          /\ Busy(s) /\ UNCHANGED <<task, sent>>
      BY <2>2 DEF AckWaitExpires, Typed, TypeOK, Busy, Activation
    <3>2. \A n \in 1 .. Len(inbox'[s]) : sent[inbox'[s][n]] > 0
      BY <3>1, AppendElements DEF Provenance, Queued, Typed, TypeOK
    <3>3. Handled(s)
      BY <3>1, <3>2 DEF Handled, Busy, Provenance, Typed, TypeOK
    <3>4. QED
      BY <3>3, HandledKeepsProvenance
  <2>3. QED
    BY <1>2, <2>1, <2>2
<1>3. ASSUME NEW s \in Subs, DiscardExpired(s) PROVE Provenance'
  <2>1. /\ inbox' = [inbox EXCEPT ![s] = Tail(@)] /\ UNCHANGED <<task, sent>>
        /\ CanReceive(s)
    BY <1>3 DEF DiscardExpired
  <2>2. Handled(s)
    BY <2>1, HeadSent DEF Handled, Busy, CanReceive, Typed, TypeOK
  <2>3. QED
    BY <2>2, HandledKeepsProvenance
<1>4. ASSUME NEW m \in Message, Publish(m) PROVE Provenance'
  <2> DEFINE s == SubOf[m.kind]
  <2>1. /\ s \in Subs /\ inbox[s] \in Seq(Message)
    BY DEF Message, Kinds, SubOf, Subs, Typed, TypeOK
  <2>2. /\ inbox' = [inbox EXCEPT ![s] = Append(@, m)] /\ task' = task
        /\ sent' = [sent EXCEPT ![m] = @ + 1]
    BY <1>4 DEF Publish
  <2>3. \A n \in Message : sent[n] \in Nat /\ sent'[n] \in Nat /\ sent'[n] >= sent[n]
    BY <2>2 DEF Typed, TypeOK
  <2>4. sent'[m] > 0
    BY <2>2, <2>3 DEF Typed, TypeOK
  <2> HIDE DEF s
  <2>5. ASSUME NEW r \in Subs, NEW n \in 1 .. Len(inbox'[r]) PROVE sent'[inbox'[r][n]] > 0
    <3>1. inbox[r] \in Seq(Message)
      BY DEF Typed, TypeOK
    <3>2. inbox'[r][n] = m \/ \E k \in 1 .. Len(inbox[r]) : inbox'[r][n] = inbox[r][k]
      BY <2>1, <2>2, <2>5, AppendElements DEF Typed, TypeOK
    <3>3. \A k \in 1 .. Len(inbox[r]) : inbox[r][k] \in Message /\ sent[inbox[r][k]] > 0
      BY <3>1, ElementOfSeq DEF Provenance, Queued
    <3>4. QED
      BY <2>3, <2>4, <3>2, <3>3
  <2>6. ASSUME NEW r \in Subs, Busy(r)' PROVE sent'[task'[r].m] > 0
    <3>1. Busy(r) /\ task[r].m \in Message /\ sent[task[r].m] > 0
      BY <2>2, <2>6 DEF Busy, Typed, TypeOK, Activation, Provenance
    <3>2. QED
      BY <2>2, <2>3, <3>1
  <2>7. QED
    BY <2>5, <2>6 DEF Provenance, Queued
<1>5. ASSUME \/ MainStep \/ QueryFails \/ Restart
             \/ \E i \in Incidents : ClockRunsOut(i)
             \/ \E a \in Agents : Heartbeat(a) \/ HeartbeatLost(a)
      PROVE  Provenance'
  <2>1. CASE LoadInFlight
    <3> DEFINE loaded == {i \in Incidents : loop.rows[i] # NoState}
    <3>1. task' = Disown(loaded) /\ UNCHANGED <<inbox, sent>>
      BY <2>1 DEF LoadInFlight
    <3> HIDE DEF loaded
    <3>2. \A r \in Subs : Busy(r)' => Busy(r) /\ task'[r].m = task[r].m
      BY <3>1, DisownType DEF Busy, Typed
    <3>3. QED
      BY <3>1, <3>2 DEF Provenance, Queued
  <2>2. CASE ~LoadInFlight
    <3>1. UNCHANGED <<task, inbox>>
      BY <1>5, <2>2 DEF MainStep, Restart, QueryInFlight, RetryCurrentState,
         EscalateToHuman, PruneStaleAgents, HandleDeadAgent, ContinueScan,
         DictionaryChanged, QueryFails, ClockRunsOut, Heartbeat, HeartbeatLost,
         MainUnchanged
    <3>2. QED
      BY <3>1, QueuesUnchanged
  <2>3. QED
    BY <2>1, <2>2
<1>6. CASE Crash
  <2>1. ASSUME NEW r \in Subs, NEW n \in 1 .. Len(inbox'[r]) PROVE sent[inbox'[r][n]] > 0
    <3>1. CASE ~Busy(r)
      BY <1>6, <2>1, <3>1 DEF Crash, Provenance, Queued
    <3>2. CASE Busy(r)
      <4>1. task[r].m \in Message /\ inbox[r] \in Seq(Message)
        BY <3>2 DEF Typed, TypeOK, Busy, Activation
      <4>2. inbox'[r] = Append(inbox[r], task[r].m)
        BY <1>6, <3>2 DEF Crash
      <4>3. QED
        BY <2>1, <3>2, <4>1, <4>2, AppendElements DEF Provenance, Queued
    <3>3. QED
      BY <3>1, <3>2
  <2>2. \A r \in Subs : ~Busy(r)'
    BY <1>6 DEF Crash, Busy
  <2>3. sent' = sent
    BY <1>6 DEF Crash
  <2>4. QED
    BY <2>1, <2>2, <2>3 DEF Provenance, Queued
<1>7. QED
  BY <1>1, <1>2, <1>3, <1>4, <1>5, <1>6 DEF Next, Environment

LEMMA StepKeepsSuccessWasApproved ==
    ASSUME Typed, SuccessWasApproved, Next
    PROVE  SuccessWasApproved'
<1>1. SUFFICES ASSUME NEW i \in Incidents, WasSent("success", i)'
               PROVE  Approved(i)'
  BY DEF SuccessWasApproved
<1>2. CASE WasSent("success", i)
  BY <1>2, WasSentGrows DEF SuccessWasApproved
<1>3. CASE ~WasSent("success", i)
  <2>1. Msg("success", i) \in Message /\ Msg("success", i).kind = "success"
        /\ Msg("success", i).id = i
    BY DEF Msg, Message, Kinds
  <2>2. PICK m \in Message : Publish(m)
    BY <1>1, <1>3, SentGrows DEF Typed, WasSent
  <2>3. m = Msg("success", i)
    BY <1>1, <1>3, <2>1, <2>2 DEF Publish, WasSent, Typed, TypeOK
  <2>4. MayPublish(m)
    BY <2>2 DEF Publish
  <2>5. sent[Msg("approved", i)] > 0
    BY <2>1, <2>3, <2>4 DEF MayPublish
  <2>6. QED
    BY <2>5, WasSentGrows DEF WasSent, Approved, Kinds
<1>4. QED
  BY <1>2, <1>3

-----------------------------------------------------------------------------
(* Repairs.  How one step may change the state of i in memory, on record   *)
(* and in a recovery: every way into an unleashed state is paid for by a   *)
(* message that was published.                                             *)

Repair ==
    \A i \in Incidents :
        /\ \/ fsms[i].state \in Unleashed
           \/ db[i].status \in Unleashed
           \/ loop.rows[i] \in Unleashed
           => Approved(i)
        /\ fsms[i].state \in Terminal \/ db[i].status \in Terminal \/ db[i].resolved
           => WasSent("success", i)
        /\ loop.rows[i] \notin Terminal

MemoryEvolves(i) ==
    \/ fsms'[i].state = fsms[i].state
    \/ fsms'[i].state \notin Unleashed
    \/ fsms'[i].state = "executing" /\ Approved(i)
    \/ fsms'[i].state = "resolved" /\ WasSent("success", i)
    \/ fsms'[i].state = loop.rows[i]

RecordEvolves(i) ==
    \/ db'[i] = db[i]
    \/ db'[i].status \notin Unleashed /\ db'[i].resolved = db[i].resolved
    \/ db'[i].status = "executing" /\ Approved(i) /\ db'[i].resolved = db[i].resolved
    \/ db'[i].status = "resolved" /\ WasSent("success", i)

RecoveryEvolves(i) ==
    \/ loop'.rows[i] \in {loop.rows[i], NoState}
    \/ loop'.rows[i] = db[i].status /\ db[i].status \notin Terminal

\* The head of a queue stands for a message of its kind about its incident.
LEMMA HeadWasSent ==
    ASSUME Typed, Provenance, NEW s \in Subs, CanReceive(s)
    PROVE  /\ Head(inbox[s]).id \in Incidents
           /\ WasSent(Head(inbox[s]).kind, Head(inbox[s]).id)
<1>1. Head(inbox[s]) \in Message /\ sent[Head(inbox[s])] > 0
  BY HeadSent DEF Typed
<1>2. Head(inbox[s]) = Msg(Head(inbox[s]).kind, Head(inbox[s]).id)
  BY <1>1 DEF Message, Msg
<1>3. QED
  BY <1>1, <1>2 DEF WasSent, Message

LEMMA ActivationWasSent ==
    ASSUME Typed, Provenance, NEW s \in Subs, Busy(s)
    PROVE  /\ task[s].m.id \in Incidents
           /\ WasSent(task[s].m.kind, task[s].m.id)
<1>1. task[s].m \in Message /\ sent[task[s].m] > 0
  BY DEF Typed, TypeOK, Busy, Activation, Provenance
<1>2. task[s].m = Msg(task[s].m.kind, task[s].m.id)
  BY <1>1 DEF Message, Msg
<1>3. QED
  BY <1>1, <1>2 DEF WasSent, Message

LEMMA DeliverEvolves ==
    ASSUME Typed, Provenance, NEW s \in Subs, Deliver(s), NEW i \in Incidents
    PROVE  MemoryEvolves(i) /\ db' = db /\ loop' = loop
<1> DEFINE m == Head(inbox[s])
<1>0. db' = db /\ loop' = loop
  BY DEF Deliver, HandleAnomaly, HandleDiagnosisResult, HandleApproved,
     HandleRejected, HandlePending, HandleSuccess, HandleFailed, HandleApprove,
     HandleReject, MoveOrReturn, RetryOrEscalate, Start
<1> SUFFICES MemoryEvolves(i)
  BY <1>0
<1>1. CanReceive(s)
  BY DEF Deliver, HandleAnomaly, HandleDiagnosisResult, HandleApproved,
     HandleRejected, HandlePending, HandleSuccess, HandleFailed, HandleApprove,
     HandleReject, Receive
<1>2. m.id \in Incidents /\ WasSent(m.kind, m.id)
  BY <1>1, HeadWasSent
<1>3. fsms \in [Incidents -> FSMs]
  BY DEF Typed, TypeOK
<1>4. ASSUME NEW target, NEW pc, MoveOrReturn(s, target, pc),
             target \notin Unleashed \/ (target = "executing" /\ Approved(m.id))
      PROVE  MemoryEvolves(i)
  BY <1>2, <1>3, <1>4 DEF MoveOrReturn, MemoryEvolves, Moved
<1>5. ASSUME RetryOrEscalate(s) PROVE MemoryEvolves(i)
  BY <1>2, <1>3, <1>5 DEF RetryOrEscalate, MemoryEvolves, IncrementRetry
<1>6. CASE HandleAnomaly \/ HandleReject
  BY <1>6 DEF HandleAnomaly, HandleReject, MemoryEvolves
<1>7. CASE s = "diagnosis" /\ HandleDiagnosisResult
  BY <1>4, <1>7 DEF HandleDiagnosisResult, Unleashed
<1>8. CASE s = "safety" /\ HandleApproved
  BY <1>2, <1>4, <1>8 DEF HandleApproved, Receive, Approved
<1>9. CASE s = "approvals" /\ HandleApprove
  BY <1>2, <1>4, <1>9 DEF HandleApprove, Receive, Approved
<1>10. CASE \/ s = "safety" /\ HandleRejected
            \/ s = "executions" /\ HandleFailed
  BY <1>5, <1>10 DEF HandleRejected, HandleFailed
<1>11. CASE s = "safety" /\ HandlePending
  <2>1. fsms' = [fsms EXCEPT ![m.id] = TryTransition(@, "safety_review")]
    BY <1>11 DEF HandlePending
  <2>2. QED
    BY <1>2, <1>3, <2>1 DEF MemoryEvolves, TryTransition, Moved, Unleashed
<1>12. CASE s = "executions" /\ HandleSuccess
  <2>1. \/ fsms' = [fsms EXCEPT ![m.id] = Moved(Moved(@, "verifying"), "resolved")]
        \/ fsms' = fsms
    BY <1>12 DEF HandleSuccess
  <2>2. m.kind = "success"
    BY <1>12 DEF HandleSuccess, Receive
  <2>3. QED
    BY <1>2, <1>3, <2>1, <2>2 DEF MemoryEvolves, Moved
<1>13. QED
  BY <1>6, <1>7, <1>8, <1>9, <1>10, <1>11, <1>12 DEF Deliver

LEMMA ProceedEvolves ==
    ASSUME Typed, Provenance, NEW s \in Subs, Proceed(s), NEW i \in Incidents
    PROVE  MemoryEvolves(i) /\ RecordEvolves(i) /\ loop' = loop
<1> DEFINE m == task[s].m
<1>1. Busy(s)
  BY DEF Proceed, InsertIncident, OpenIncident, SaveStatus, WriteTimeline,
         RouteToDiagnoser, PublishLifecycle, EscalateFromHandler, Ack, At
<1>2. m.id \in Incidents /\ WasSent(m.kind, m.id)
  BY <1>1, ActivationWasSent
<1>3. /\ fsms \in [Incidents -> FSMs]
      /\ db \in [Incidents -> [status : Statuses, resolved : BOOLEAN]]
  BY DEF Typed, TypeOK
<1>4. CASE InsertIncident(s)
  BY <1>2, <1>3, <1>4 DEF InsertIncident, MemoryEvolves, RecordEvolves, Unleashed
<1>5. CASE OpenIncident(s)
  BY <1>2, <1>3, <1>5 DEF OpenIncident, MemoryEvolves, RecordEvolves, Unleashed, Moved
<1>6. CASE SaveStatus(s)
  <2> DEFINE row == [status   |-> SavedStatus(m.kind),
                     resolved |-> db[m.id].resolved \/ m.kind = "success"]
  <2>1. db' = db \/ db' = [db EXCEPT ![m.id] = row]
    BY <1>6 DEF SaveStatus
  <2>2. m.kind \in SavingKinds
    BY <1>1, <1>6 DEF Typed, Shape, SaveStatus, At
  <2>3. /\ row.status = SavedStatus(m.kind)
        /\ m.kind # "success" => row.resolved = db[m.id].resolved
    BY <1>2, <1>3
  <2>4. \/ SavedStatus(m.kind) \notin Unleashed /\ m.kind # "success"
        \/ SavedStatus(m.kind) = "executing" /\ m.kind \in {"approved", "approve"}
        \/ SavedStatus(m.kind) = "resolved" /\ m.kind = "success"
    BY <2>2 DEF SavedStatus, SavingKinds, Unleashed
  <2>5. m.kind \in {"approved", "approve"} => Approved(m.id)
    BY <1>2 DEF Approved
  <2> HIDE DEF row
  <2>6. RecordEvolves(i)
    <3>1. CASE db'[i] = db[i]
      BY <3>1 DEF RecordEvolves
    <3>2. CASE i = m.id /\ db'[i] = row
      BY <1>2, <2>3, <2>4, <2>5, <3>2 DEF RecordEvolves
    <3>3. QED
      BY <1>2, <1>3, <2>1, <3>1, <3>2
  <2>7. QED
    BY <1>6, <2>6 DEF SaveStatus, MemoryEvolves
<1>7. CASE WriteTimeline(s)
  <2>1. \/ fsms' = fsms
        \/ fsms' = [fsms EXCEPT ![m.id] = TryTransition(@, "proposing_remediation")]
    BY <1>7 DEF WriteTimeline
  <2>2. MemoryEvolves(i)
    BY <1>2, <1>3, <2>1 DEF MemoryEvolves, TryTransition, Moved, Unleashed
  <2>3. QED
    BY <1>7, <2>2 DEF WriteTimeline, RecordEvolves
<1>8. CASE RouteToDiagnoser(s) \/ PublishLifecycle(s) \/ EscalateFromHandler(s) \/ Ack(s)
  BY <1>8 DEF RouteToDiagnoser, PublishLifecycle, EscalateFromHandler, Ack,
     MemoryEvolves, RecordEvolves
<1>9. QED
  BY <1>4, <1>5, <1>6, <1>7, <1>8 DEF Proceed, InsertIncident, OpenIncident,
     SaveStatus, WriteTimeline

\* Whatever the main task does next, only its query fills rows.
LEMMA NoRowsLeft ==
    \A at, todo, dead : \A i \in Incidents : LoopAt(at, todo, dead).rows[i] = NoState
BY DEF LoopAt, NoRows

LEMMA MainTaskEvolves ==
    ASSUME Typed, MainStep \/ QueryFails \/ Restart, NEW i \in Incidents
    PROVE  MemoryEvolves(i) /\ RecoveryEvolves(i) /\ db' = db
<1> DEFINE Kept == fsms'[i].state = fsms[i].state
           Empty == loop'.rows[i] = NoState
<1>0. fsms \in [Incidents -> FSMs] /\ loop \in Loop
  BY DEF Typed, TypeOK
<1>1. Sleeping.rows[i] = NoState /\ \A dead : AgentsLeft(dead).rows[i] = NoState
  BY NoRowsLeft DEF Sleeping, AgentsLeft
<1>2. CASE Restart
  <2>1. Kept /\ Empty /\ db' = db
    BY <1>2, NoRowsLeft DEF Restart, MainUnchanged
  <2>2. QED
    BY <2>1 DEF MemoryEvolves, RecoveryEvolves
<1>3. CASE QueryInFlight
  <2>1. loop'.rows = [j \in Incidents |-> IF InFlight(j) THEN db[j].status ELSE NoState]
    BY <1>3 DEF QueryInFlight, LoopAt
  <2>2. RecoveryEvolves(i)
    BY <2>1 DEF RecoveryEvolves, InFlight
  <2>3. QED
    BY <1>3, <2>2 DEF QueryInFlight, MainUnchanged, MemoryEvolves
<1>4. CASE LoadInFlight
  <2>1. PICK overdue \in SUBSET Incidents :
          fsms' = [j \in Incidents |-> IF loop.rows[j] # NoState
                                       THEN NewFSM(loop.rows[j], j \in overdue)
                                       ELSE fsms[j]]
    BY <1>4 DEF LoadInFlight
  <2>2. fsms'[i].state \in {loop.rows[i], fsms[i].state}
    BY <2>1 DEF NewFSM
  <2>3. Empty /\ db' = db
    BY <1>1, <1>4 DEF LoadInFlight
  <2>4. QED
    BY <2>2, <2>3 DEF MemoryEvolves, RecoveryEvolves
<1>5. ASSUME NEW j \in Incidents, VisitNext(j) \/ CycleFails PROVE Empty
  <2>1. CASE VisitNext(j)
    <3>1. PICK todo : loop' = LoopAt("check", todo, {})
      BY <2>1 DEF VisitNext
    <3>2. QED
      BY <3>1, NoRowsLeft
  <2>2. CASE CycleFails
    BY <1>1, <2>2 DEF CycleFails
  <2>3. QED
    BY <1>5, <2>1, <2>2
<1>6. ASSUME NEW keys, NEW states, NEW dead, EscalateNext(keys, states, dead)
      PROVE  Empty
  BY <1>1, <1>6 DEF EscalateNext, CycleFails, NoRows
<1>7. ASSUME NEW j \in Incidents, RetryCurrentState(j) \/ EscalateToHuman(j)
      PROVE  Kept /\ Empty /\ db' = db
  <2>1. Empty /\ db' = db
    BY <1>5, <1>7 DEF RetryCurrentState, EscalateToHuman, MainUnchanged
  <2>2. fsms' = fsms \/ fsms' = [fsms EXCEPT ![j] = IncrementRetry(@)]
    BY <1>7 DEF RetryCurrentState, EscalateToHuman
  <2>3. QED
    BY <1>0, <2>1, <2>2 DEF IncrementRetry
<1>8. CASE PruneStaleAgents
  BY <1>1, <1>8 DEF PruneStaleAgents, MainUnchanged, MemoryEvolves, RecoveryEvolves
<1>9. ASSUME NEW a \in Agents, HandleDeadAgent(a) PROVE Kept /\ Empty /\ db' = db
  BY <1>1, <1>6, <1>9 DEF HandleDeadAgent, MainUnchanged
<1>10. CASE ContinueScan
  <2>1. Kept /\ Empty /\ db' = db
    BY <1>1, <1>6, <1>10 DEF ContinueScan, MainUnchanged
  <2>2. QED
    BY <2>1 DEF MemoryEvolves, RecoveryEvolves
<1>11. CASE DictionaryChanged \/ QueryFails
  BY <1>1, <1>11 DEF DictionaryChanged, QueryFails, MainUnchanged, MemoryEvolves,
     RecoveryEvolves
<1> HIDE DEF Kept, Empty
<1>12. Kept /\ Empty /\ db' = db => MemoryEvolves(i) /\ RecoveryEvolves(i) /\ db' = db
  BY DEF Kept, Empty, MemoryEvolves, RecoveryEvolves
<1>13. QED
  BY <1>2, <1>3, <1>4, <1>7, <1>8, <1>9, <1>10, <1>11, <1>12 DEF MainStep

LEMMA StepEvolves ==
    ASSUME Typed, Provenance, Next, NEW i \in Incidents
    PROVE  MemoryEvolves(i) /\ RecordEvolves(i) /\ RecoveryEvolves(i)
<1>1. ASSUME NEW s \in Subs, Deliver(s) \/ Proceed(s)
      PROVE  MemoryEvolves(i) /\ RecordEvolves(i) /\ RecoveryEvolves(i)
  <2>1. MemoryEvolves(i) /\ RecordEvolves(i) /\ loop' = loop
    BY <1>1, DeliverEvolves, ProceedEvolves DEF RecordEvolves
  <2>2. QED
    BY <2>1 DEF RecoveryEvolves
<1>2. CASE MainStep \/ QueryFails \/ Restart
  BY <1>2, MainTaskEvolves DEF RecordEvolves
<1>3. ASSUME NEW s \in Subs, DiscardExpired(s) \/ HandlerFails(s) \/ AckWaitExpires(s)
      PROVE  MemoryEvolves(i) /\ RecordEvolves(i) /\ RecoveryEvolves(i)
  BY <1>3 DEF DiscardExpired, HandlerFails, AckWaitExpires, MemoryEvolves, RecordEvolves, RecoveryEvolves
<1>4. CASE Environment
  <2>1. ASSUME NEW j \in Incidents, ClockRunsOut(j) PROVE fsms'[i].state = fsms[i].state
    BY <2>1 DEF ClockRunsOut, Typed, TypeOK, FSMs
  <2>2. fsms'[i].state = fsms[i].state /\ db' = db /\ loop' = loop
    BY <1>4, <2>1 DEF Environment, Publish, Heartbeat, HeartbeatLost, ClockRunsOut
  <2>3. QED
    BY <2>2 DEF MemoryEvolves, RecordEvolves, RecoveryEvolves
<1>5. CASE Crash
  <2>1. fsms'[i] = NoFSM /\ db' = db /\ loop'.rows[i] = NoState
    BY <1>5, NoRowsLeft DEF Crash, Down
  <2>2. fsms'[i].state = NoState
    BY <2>1 DEF NoFSM, NewFSM
  <2>3. QED
    BY <2>1, <2>2 DEF MemoryEvolves, RecordEvolves, RecoveryEvolves, Unleashed, NoState
<1>6. QED
  BY <1>1, <1>2, <1>3, <1>4, <1>5 DEF Next

SafetyInv == Typed /\ Provenance /\ SuccessWasApproved /\ Repair

LEMMA StepKeepsRepair ==
    ASSUME SafetyInv, Next
    PROVE  Repair'
<1> SUFFICES ASSUME NEW i \in Incidents
             PROVE  /\ (\/ fsms'[i].state \in Unleashed
                        \/ db'[i].status \in Unleashed
                        \/ loop'.rows[i] \in Unleashed) => Approved(i)'
                    /\ fsms'[i].state \in Terminal \/ db'[i].status \in Terminal
                         \/ db'[i].resolved => WasSent("success", i)'
                    /\ loop'.rows[i] \notin Terminal
  BY DEF Repair
<1>1. MemoryEvolves(i) /\ RecordEvolves(i) /\ RecoveryEvolves(i)
  BY StepEvolves DEF SafetyInv
<1>2. /\ Approved(i) => Approved(i)'
      /\ WasSent("success", i) => WasSent("success", i)'
      /\ WasSent("success", i) => Approved(i)
  BY WasSentGrows DEF SafetyInv, SuccessWasApproved, Kinds
<1>3. /\ \/ fsms[i].state \in Unleashed
         \/ db[i].status \in Unleashed
         \/ loop.rows[i] \in Unleashed
         => Approved(i)
      /\ fsms[i].state \in Terminal \/ db[i].status \in Terminal \/ db[i].resolved
         => WasSent("success", i)
      /\ loop.rows[i] \notin Terminal
  BY DEF SafetyInv, Repair
<1> HIDE DEF Approved, WasSent
<1>4. fsms'[i].state \in Unleashed => Approved(i)
  BY <1>1, <1>2, <1>3 DEF MemoryEvolves
<1>5. db'[i].status \in Unleashed => Approved(i)
  BY <1>1, <1>2, <1>3 DEF RecordEvolves
<1>6. loop'.rows[i] \in Unleashed => Approved(i)
  BY <1>1, <1>3 DEF RecoveryEvolves, Unleashed, NoState
<1>7. fsms'[i].state \in Terminal => WasSent("success", i)
  BY <1>1, <1>3 DEF MemoryEvolves, Unleashed, Terminal
<1>8. db'[i].status \in Terminal \/ db'[i].resolved => WasSent("success", i)
  BY <1>1, <1>3 DEF RecordEvolves, Unleashed, Terminal
<1>9. loop'.rows[i] \notin Terminal
  BY <1>1, <1>3 DEF RecoveryEvolves, Terminal, NoState
<1>10. QED
  BY <1>2, <1>4, <1>5, <1>6, <1>7, <1>8, <1>9

LEMMA SafetyInvariant == Spec => []SafetyInv
<1>1. Init => SafetyInv
  <2> SUFFICES ASSUME Init PROVE SafetyInv
    OBVIOUS
  <2>1. Typed
    BY InitType DEF Typed
  <2>2. \A s \in Subs : Len(inbox[s]) = 0 /\ ~Busy(s)
    BY EmptySeq DEF Init, Busy
  <2>3. Provenance
    BY <2>2 DEF Provenance, Queued
  <2>4. \A i \in Incidents, kind \in Kinds : ~WasSent(kind, i)
    <3>1. \A i \in Incidents, kind \in Kinds : Msg(kind, i) \in Message
      BY DEF Msg, Message
    <3>2. QED
      BY <3>1 DEF Init, WasSent
  <2>5. SuccessWasApproved
    BY <2>4 DEF SuccessWasApproved, Kinds
  <2>6. \A i \in Incidents : /\ fsms[i].state = NoState
                             /\ db[i].status \notin Unleashed /\ db[i].resolved = FALSE
                             /\ loop.rows[i] = NoState
    BY NoRowsLeft, RecordedAssumption DEF Init, NoFSM, NewFSM, Row
  <2>7. Repair
    BY <2>6 DEF Repair, Unleashed, Terminal, NoState
  <2>8. QED
    BY <2>1, <2>3, <2>5, <2>7 DEF SafetyInv
<1>2. SafetyInv /\ [Next]_vars => SafetyInv'
  <2>1. CASE UNCHANGED vars
    <3>1. ASSUME SafetyInv PROVE Typed'
      BY <2>1, <3>1, StepKeepsType DEF SafetyInv, Typed
    <3>2. QED
      BY <2>1, <3>1 DEF vars, SafetyInv, Provenance, Queued, Busy,
         SuccessWasApproved, Approved, WasSent, Repair
  <2>2. CASE Next
    BY <2>2, StepKeepsType, StepKeepsProvenance, StepKeepsSuccessWasApproved,
       StepKeepsRepair DEF SafetyInv, Typed
  <2>3. QED
    BY <2>1, <2>2
<1>3. QED
  BY <1>1, <1>2, PTL DEF Spec

\* No incident executes, in memory, on record or in a recovery, unless Safety
\* or an operator approved its repair.
THEOREM NothingRunsUnapproved == Spec => []NoUnapprovedExecution
<1>1. SafetyInv => NoUnapprovedExecution
  BY DEF SafetyInv, Repair, NoUnapprovedExecution
<1>2. QED
  BY <1>1, SafetyInvariant, PTL

\* No incident is resolved, in memory or on record, unless the remediator
\* reported success for it.
THEOREM OnlySuccessResolves == Spec => []ResolvedOnlyOnSuccess
<1>1. SafetyInv => ResolvedOnlyOnSuccess
  BY DEF SafetyInv, Repair, ResolvedOnlyOnSuccess
<1>2. QED
  BY <1>1, SafetyInvariant, PTL
=============================================================================
