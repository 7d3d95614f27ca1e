------------------------- MODULE Remediation_proofs -------------------------
(***************************************************************************)
(* What holds of Remediation for any incidents, limits and bounds: types,  *)
(* that no action runs that the policy hands to a human, and what becomes  *)
(* of the approvals. The remediator counts a decision as handled only      *)
(* after it has reported; the invariant therefore says that such a         *)
(* decision is still owed. The limiter's history holds all the approvals   *)
(* of the present run that a window reaches back to, so that pruning it,   *)
(* losing it and repeating requests never let more pass than RateLimit     *)
(* promises. An approval is run once, again only after a fault, and unused *)
(* only if something was lost.                                             *)
(***************************************************************************)
EXTENDS Remediation, TLAPS, FiniteSetTheorems

Statuses == Safety!Statuses

Grant == [incident : Incidents, key : {Key[i] : i \in Incidents}, at : Nat, run : Nat]

\* The decision whose action is under way has not been acknowledged.
Owed == task # Agent!Idle => decisions[task.incident]["approved"] > 0

\* No approval of what a human must decide on exists anywhere.
NeverApproved == \A i \in Vetted : decisions[i]["approved"] = 0 /\ executions[i] = 0

IInv == TypeOK /\ Owed /\ NeverApproved

-----------------------------------------------------------------------------

\* One decision more or one less leaves a table of decisions.
LEMMA DecisionsKeepType ==
    ASSUME NEW D \in [Incidents -> [Statuses -> Nat]],
           NEW i \in Incidents, NEW s \in Statuses
    PROVE  /\ [D EXCEPT ![i][s] = @ + 1] \in [Incidents -> [Statuses -> Nat]]
           /\ D[i][s] > 0
                => [D EXCEPT ![i][s] = @ - 1] \in [Incidents -> [Statuses -> Nat]]
<1>1. D[i] \in [Statuses -> Nat] /\ D[i][s] \in Nat
  OBVIOUS
<1>2. [D[i] EXCEPT ![s] = @ + 1] \in [Statuses -> Nat]
  BY <1>1
<1>3. D[i][s] > 0 => [D[i] EXCEPT ![s] = @ - 1] \in [Statuses -> Nat]
  BY <1>1
<1>4. QED
  BY <1>2, <1>3

LEMMA InitHolds == Init => IInv
  BY IncidentAssumption
  DEF Init, IInv, TypeOK, Owed, NeverApproved, Statuses,
      Safety!Init, Safety!TypeOK, Safety!Statuses,
      Agent!Init, Agent!TypeOK, Agent!Idle, Agent!Tasks

\* An evaluation counts at most one approval, and none of what a human must
\* decide on.
LEMMA EvaluateEvolves ==
    ASSUME IInv, NEW i \in Incidents, Safety!Evaluate(i)
    PROVE  /\ \A h \in history' : h.at \in Nat
           /\ granted' \in Seq(Grant)
           /\ Safety!Verdict(i) \in Statuses
           /\ i \in Vetted => Safety!Verdict(i) # "approved"
<1>1. Safety!Verdict(i) \in Statuses /\ (i \in Vetted => Safety!Verdict(i) # "approved")
  BY DEF Safety!Verdict, Statuses, Safety!Statuses
<1>2. \A h \in Safety!Recent : h.at \in Nat
  BY DEF IInv, TypeOK, Safety!TypeOK, Safety!Recent
<1>3. \A h \in history' : h.at \in Nat
  BY <1>2 DEF IInv, TypeOK, Safety!TypeOK, Safety!Evaluate
<1>4. granted' \in Seq(Grant)
  <2>1. granted \in Seq(Grant) /\ clock \in Nat /\ run \in Nat
    BY DEF IInv, TypeOK, Safety!TypeOK, Grant
  <2> DEFINE g == [incident |-> i, key |-> Key[i], at |-> clock, run |-> run]
  <2>2. g \in Grant
    BY <2>1 DEF Grant
  <2>3. granted' = granted \/ granted' = Append(granted, g)
    BY DEF Safety!Evaluate
  <2> HIDE DEF g
  <2>4. QED
    BY <2>1, <2>2, <2>3
<1>5. QED
  BY <1>1, <1>3, <1>4

\* What keeps the decisions but for one kind of one incident, and does not
\* touch the remediator, keeps the invariant.
LEMMA DecidedEvolves ==
    ASSUME IInv, NEW i \in Incidents, Safety!Evaluate(i),
           UNCHANGED <<task, executions>>,
           Safety!Decided(i) \/ UNCHANGED decisions
    PROVE  /\ decisions' \in [Incidents -> [Statuses -> Nat]]
           /\ Owed'
           /\ NeverApproved'
<1>1. decisions \in [Incidents -> [Statuses -> Nat]]
  BY DEF IInv, TypeOK, Safety!TypeOK, Statuses
<1>2. task # Agent!Idle => task.incident \in Incidents
  BY DEF IInv, TypeOK, Agent!TypeOK, Agent!Tasks, Agent!Idle
<1>3. CASE UNCHANGED decisions
  BY <1>1, <1>3 DEF IInv, Owed, NeverApproved
<1>4. CASE Safety!Decided(i)
  <2> DEFINE v == Safety!Verdict(i)
  <2>1. v \in Statuses /\ (i \in Vetted => v # "approved")
    BY EvaluateEvolves
  <2>2. decisions' = [decisions EXCEPT ![i][v] = @ + 1]
    BY <1>4 DEF Safety!Decided
  <2>3. decisions' \in [Incidents -> [Statuses -> Nat]]
    BY <1>1, <2>1, <2>2, DecisionsKeepType
  <2>4. \A j \in Incidents, s \in Statuses :
           /\ decisions'[j][s] >= decisions[j][s]
           /\ (j # i \/ s # v) => decisions'[j][s] = decisions[j][s]
    BY <1>1, <2>1, <2>2
  <2>5. "approved" \in Statuses
    BY DEF Statuses, Safety!Statuses
  <2>6. Owed'
    <3>1. task # Agent!Idle =>
             /\ decisions[task.incident]["approved"] \in Nat
             /\ decisions[task.incident]["approved"] > 0
             /\ decisions'[task.incident]["approved"] \in Nat
             /\ decisions'[task.incident]["approved"] >= decisions[task.incident]["approved"]
      BY <1>1, <1>2, <2>3, <2>4, <2>5 DEF IInv, Owed
    <3>2. QED
      BY <3>1 DEF Owed, Agent!Idle
  <2>7. NeverApproved'
    BY <2>1, <2>4, <2>5, IncidentAssumption DEF IInv, NeverApproved
  <2>8. QED
    BY <2>3, <2>6, <2>7
<1>5. QED
  BY <1>3, <1>4

-----------------------------------------------------------------------------
(* The steps of the Safety agent.                                          *)

LEMMA SafetyEvolves ==
    ASSUME IInv, UNCHANGED agentVars, Safety!Next
    PROVE  IInv'
<1> USE DEF agentVars
<1>1. /\ reviews \in [Incidents -> Nat] /\ clock \in Nat /\ run \in Nat
      /\ setbacks \subseteq Incidents /\ faults \in Nat
      /\ granted \in Seq(Grant) /\ \A h \in history : h.at \in Nat
      /\ decisions \in [Incidents -> [Statuses -> Nat]]
  BY DEF IInv, TypeOK, Safety!TypeOK, Grant, Statuses
<1>2. Agent!TypeOK'
  BY DEF IInv, TypeOK, Agent!TypeOK
<1>3. ASSUME NEW i \in Incidents, Safety!HandleReview(i)
      PROVE  IInv'
  <2>1. Safety!Evaluate(i) /\ Safety!Decided(i)
    BY <1>3 DEF Safety!HandleReview
  <2>2. decisions' \in [Incidents -> [Statuses -> Nat]] /\ Owed' /\ NeverApproved'
    BY <2>1, DecidedEvolves
  <2>3. granted' \in Seq(Grant) /\ \A h \in history' : h.at \in Nat
    BY <2>1, EvaluateEvolves
  <2>4. /\ reviews' \in [Incidents -> Nat] /\ clock' \in Nat /\ run' \in Nat
        /\ setbacks' \subseteq Incidents /\ faults' \in Nat
    BY <1>1, <1>3 DEF Safety!HandleReview
  <2>5. QED
    BY <1>2, <2>2, <2>3, <2>4 DEF IInv, TypeOK, Safety!TypeOK, Grant, Statuses
<1>4. ASSUME NEW i \in Incidents, Safety!ReviewUnconfirmed(i)
      PROVE  IInv'
  <2>1. Safety!Evaluate(i) /\ (Safety!Decided(i) \/ UNCHANGED decisions)
    BY <1>4 DEF Safety!ReviewUnconfirmed
  <2>2. decisions' \in [Incidents -> [Statuses -> Nat]] /\ Owed' /\ NeverApproved'
    BY <2>1, DecidedEvolves
  <2>3. granted' \in Seq(Grant) /\ \A h \in history' : h.at \in Nat
    BY <2>1, EvaluateEvolves
  <2>4. /\ reviews' \in [Incidents -> Nat] /\ clock' \in Nat /\ run' \in Nat
        /\ setbacks' \subseteq Incidents /\ faults' \in Nat
    BY <1>1, <1>4 DEF Safety!ReviewUnconfirmed, Safety!Fault
  <2>5. QED
    BY <1>2, <2>2, <2>3, <2>4 DEF IInv, TypeOK, Safety!TypeOK, Grant, Statuses
<1>5. ASSUME NEW i \in Incidents, Safety!ReviewExpires(i)
      PROVE  IInv'
  <2>1. /\ reviews' \in [Incidents -> Nat]
        /\ setbacks' \subseteq Incidents /\ faults' \in Nat
        /\ UNCHANGED <<clock, decisions, history, run, granted>>
    BY <1>1, <1>5 DEF Safety!ReviewExpires, Safety!Fault
  <2>2. QED
    BY <1>1, <1>2, <2>1
    DEF IInv, TypeOK, Safety!TypeOK, Grant, Statuses, Owed, NeverApproved
<1>6. ASSUME Safety!Restart
      PROVE  IInv'
  <2>1. /\ history' = {} /\ run' \in Nat /\ faults' \in Nat
        /\ UNCHANGED <<clock, reviews, decisions, granted, setbacks>>
    BY <1>1, <1>6 DEF Safety!Restart, Safety!Fault
  <2>2. QED
    BY <1>1, <1>2, <2>1
    DEF IInv, TypeOK, Safety!TypeOK, Grant, Statuses, Owed, NeverApproved
<1>7. QED
  BY <1>3, <1>4, <1>5, <1>6 DEF Safety!Next

LEMMA TickEvolves ==
    ASSUME IInv, Safety!Tick, UNCHANGED <<reviews, decisions, setbacks, faults, agentVars>>
    PROVE  IInv'
  BY DEF IInv, TypeOK, Safety!TypeOK, Safety!Tick, Agent!TypeOK, agentVars,
      Owed, NeverApproved

-----------------------------------------------------------------------------
(* The steps of the remediator.                                            *)

LEMMA AgentTypes ==
    ASSUME IInv
    PROVE  /\ reviews \in [Incidents -> Nat]
           /\ decisions \in [Incidents -> [Statuses -> Nat]]
           /\ diagnoses \subseteq Incidents /\ active \subseteq Incidents
           /\ setbacks \subseteq Incidents /\ faults \in Nat
           /\ executions \in [Incidents -> Nat]
           /\ reports \in [Incidents -> Agent!Results \union {"none"}]
           /\ task \in Agent!Tasks
           /\ task # Agent!Idle => task.incident \in Incidents
           /\ "approved" \in Statuses
           /\ Agent!Statuses = Statuses
           /\ Vetted \subseteq Incidents
  BY IncidentAssumption
  DEF IInv, TypeOK, Safety!TypeOK, Agent!TypeOK, Agent!Tasks, Agent!Idle,
      Statuses, Safety!Statuses, Agent!Statuses

\* What is left to show of a step that does not touch the Safety agent.
LEMMA AgentFrame ==
    ASSUME IInv, UNCHANGED safetyVars,
           reviews' \in [Incidents -> Nat],
           decisions' \in [Incidents -> [Statuses -> Nat]],
           setbacks' \subseteq Incidents, faults' \in Nat,
           Agent!TypeOK', Owed', NeverApproved'
    PROVE  IInv'
  BY DEF IInv, TypeOK, Safety!TypeOK, safetyVars, Statuses

\* Diagnoses, and the loss of what is in memory.
LEMMA DiagnosisEvolves ==
    ASSUME IInv, UNCHANGED safetyVars, NEW i \in Incidents,
           Agent!DropDiagnosis(i) \/ Agent!Propose(i) \/ Agent!ProposalUnconfirmed(i)
             \/ Agent!DiagnosisExpires(i) \/ Agent!Restart
    PROVE  IInv'
<1> USE AgentTypes
<1>1. /\ reviews' \in [Incidents -> Nat]
      /\ setbacks' \subseteq Incidents /\ faults' \in Nat
      /\ diagnoses' \subseteq Incidents /\ active' \subseteq Incidents
  BY DEF Agent!DropDiagnosis, Agent!Propose, Agent!ProposalUnconfirmed,
      Agent!DiagnosisExpires, Agent!Restart, Agent!Requested, Agent!Matching,
      Agent!Setback, Agent!Fault
<1>2. /\ UNCHANGED <<decisions, executions, reports>>
      /\ task' = task \/ task' = Agent!Idle
  BY DEF Agent!DropDiagnosis, Agent!Propose, Agent!ProposalUnconfirmed,
      Agent!DiagnosisExpires, Agent!Restart
<1>3. Agent!TypeOK'
  BY <1>1, <1>2 DEF Agent!TypeOK, Agent!Tasks
<1>4. Owed' /\ NeverApproved'
  BY <1>2 DEF IInv, Owed, NeverApproved, Agent!Idle
<1>5. QED
  BY <1>1, <1>2, <1>3, <1>4, AgentFrame

\* A decision of a kind is used up that no action under way rests on.
LEMMA HandledEvolves ==
    ASSUME IInv, UNCHANGED safetyVars, NEW i \in Incidents, NEW s \in Statuses,
           Agent!Pending(i, s), Agent!Handled(i, s),
           UNCHANGED <<diagnoses, reviews, task, executions, reports>>,
           active' \subseteq Incidents, setbacks' \subseteq Incidents, faults' \in Nat
    PROVE  IInv'
<1> USE AgentTypes
<1>1. /\ task = Agent!Idle /\ decisions[i][s] > 0
      /\ decisions' = [decisions EXCEPT ![i][s] = @ - 1]
  BY DEF Agent!Pending, Agent!Handled
<1>2. decisions' \in [Incidents -> [Statuses -> Nat]]
  BY <1>1, DecisionsKeepType
<1>3. Agent!TypeOK'
  BY DEF Agent!TypeOK
<1>4. Owed'
  BY <1>1 DEF Owed, Agent!Idle
<1>5. NeverApproved'
  <2>1. ASSUME NEW j \in Vetted
        PROVE  decisions'[j]["approved"] = 0 /\ executions'[j] = 0
    <3>1. decisions[j]["approved"] = 0 /\ executions[j] = 0 /\ j \in Incidents
      BY DEF IInv, NeverApproved
    <3>2. ~(j = i /\ s = "approved")
      BY <1>1, <3>1
    <3>3. QED
      BY <1>1, <3>1, <3>2
  <2>2. QED
    BY <2>1 DEF NeverApproved
<1>6. QED
  BY <1>2, <1>3, <1>4, <1>5, AgentFrame

LEMMA DecisionEvolves ==
    ASSUME IInv, UNCHANGED safetyVars, NEW i \in Incidents, NEW s \in Statuses,
           Agent!IgnoreDecision(i, s) \/ Agent!HandleRejected(i)
             \/ Agent!HandlePending(i) \/ Agent!DecisionExpires(i, s)
    PROVE  IInv'
<1> USE AgentTypes
<1>1. CASE Agent!IgnoreDecision(i, s)
  BY <1>1, HandledEvolves DEF Agent!IgnoreDecision
<1>2. CASE Agent!HandleRejected(i)
  <2>1. "rejected" \in Statuses
    BY DEF Statuses, Safety!Statuses
  <2>2. /\ Agent!Pending(i, "rejected") /\ Agent!Handled(i, "rejected")
        /\ UNCHANGED <<diagnoses, reviews, task, executions, reports>>
        /\ active' \subseteq Incidents /\ setbacks' \subseteq Incidents /\ faults' \in Nat
    BY <1>2 DEF Agent!HandleRejected, Agent!Setback
  <2>3. QED
    BY <2>1, <2>2, HandledEvolves
<1>3. CASE Agent!HandlePending(i)
  <2>1. "pending_human_approval" \in Statuses
    BY DEF Statuses, Safety!Statuses
  <2>2. QED
    BY <1>3, <2>1, HandledEvolves DEF Agent!HandlePending
<1>4. CASE Agent!DecisionExpires(i, s)
  <2>1. /\ Agent!Pending(i, s) /\ Agent!Handled(i, s)
        /\ UNCHANGED <<diagnoses, reviews, task, executions, reports>>
        /\ active' \subseteq Incidents /\ setbacks' \subseteq Incidents /\ faults' \in Nat
    BY <1>4 DEF Agent!DecisionExpires, Agent!Setback, Agent!Fault
  <2>2. QED
    BY <2>1, HandledEvolves
<1>5. QED
  BY <1>1, <1>2, <1>3, <1>4

LEMMA RedeliveryEvolves ==
    ASSUME IInv, UNCHANGED safetyVars, NEW i \in Incidents, NEW s \in Statuses,
           Agent!DecisionRedelivered(i, s)
    PROVE  IInv'
<1> USE AgentTypes
<1>1. /\ decisions[i][s] > 0
      /\ decisions' = [decisions EXCEPT ![i][s] = @ + 1] /\ faults' \in Nat
      /\ UNCHANGED <<diagnoses, reviews, active, task, executions, reports, setbacks>>
  BY DEF Agent!DecisionRedelivered, Agent!Fault
<1>2. decisions' \in [Incidents -> [Statuses -> Nat]]
  BY <1>1, DecisionsKeepType
<1>3. Agent!TypeOK'
  BY <1>1 DEF Agent!TypeOK
<1>4. \A j \in Incidents : decisions'[j]["approved"] >= decisions[j]["approved"]
  BY <1>1
<1>5. Owed'
  <2>1. task # Agent!Idle =>
           /\ decisions[task.incident]["approved"] \in Nat
           /\ decisions[task.incident]["approved"] > 0
           /\ decisions'[task.incident]["approved"] \in Nat
           /\ decisions'[task.incident]["approved"] >= decisions[task.incident]["approved"]
    BY <1>2, <1>4 DEF IInv, Owed
  <2>2. QED
    BY <1>1, <2>1 DEF Owed, Agent!Idle
<1>6. NeverApproved'
  <2>1. ASSUME NEW j \in Vetted
        PROVE  decisions'[j]["approved"] = 0 /\ executions'[j] = 0
    <3>1. decisions[j]["approved"] = 0 /\ executions[j] = 0 /\ j \in Incidents
      BY DEF IInv, NeverApproved
    <3>2. ~(j = i /\ s = "approved")
      BY <1>1, <3>1
    <3>3. QED
      BY <1>1, <3>1, <3>2
  <2>2. QED
    BY <2>1 DEF NeverApproved
<1>7. QED
  BY <1>1, <1>2, <1>3, <1>5, <1>6, AgentFrame

\* An action runs only on an approval, and the approval is owed from then on.
LEMMA ExecuteEvolves ==
    ASSUME IInv, UNCHANGED safetyVars, NEW i \in Incidents, Agent!Execute(i)
    PROVE  IInv'
<1> USE AgentTypes
<1>1. /\ decisions[i]["approved"] > 0
      /\ executions' = [executions EXCEPT ![i] = @ + 1]
      /\ task' \in {Agent!Verifying(i), Agent!Reporting(i, "failed_execution")}
      /\ UNCHANGED <<diagnoses, reviews, decisions, active, reports, setbacks, faults>>
  BY DEF Agent!Execute, Agent!Pending
<1>2. task' \in Agent!Tasks /\ task'.incident = i
  BY <1>1 DEF Agent!Verifying, Agent!Reporting, Agent!Tasks, Agent!Results
<1>3. Agent!TypeOK'
  BY <1>1, <1>2 DEF Agent!TypeOK
<1>4. Owed'
  BY <1>1, <1>2 DEF Owed
<1>5. i \notin Vetted
  BY <1>1 DEF IInv, NeverApproved
<1>6. NeverApproved'
  BY <1>1, <1>5 DEF IInv, NeverApproved
<1>7. QED
  BY <1>1, <1>3, <1>4, <1>6, AgentFrame

LEMMA VerifyEvolves ==
    ASSUME IInv, UNCHANGED safetyVars, NEW i \in Incidents, Agent!Verify(i)
    PROVE  IInv'
<1> USE AgentTypes
<1>1. /\ task = Agent!Verifying(i)
      /\ \E r \in Agent!Results : task' = Agent!Reporting(i, r)
      /\ UNCHANGED <<diagnoses, reviews, decisions, active, executions, reports, setbacks, faults>>
  BY DEF Agent!Verify, Agent!Results
<1>2. task' \in Agent!Tasks /\ task'.incident = i
  BY <1>1 DEF Agent!Reporting, Agent!Tasks
<1>3. task # Agent!Idle /\ task.incident = i
  BY <1>1 DEF Agent!Verifying, Agent!Idle
<1>4. Agent!TypeOK'
  BY <1>1, <1>2 DEF Agent!TypeOK
<1>5. Owed' /\ NeverApproved'
  BY <1>1, <1>2, <1>3 DEF IInv, Owed, NeverApproved
<1>6. QED
  BY <1>1, <1>4, <1>5, AgentFrame

LEMMA ReportEvolves ==
    ASSUME IInv, UNCHANGED safetyVars, NEW i \in Incidents,
           Agent!Report(i) \/ Agent!ReportUnconfirmed(i)
    PROVE  IInv'
<1> USE AgentTypes
<1>1. Agent!AtReport(i)
  BY DEF Agent!Report, Agent!ReportUnconfirmed
<1>2. PICK r \in Agent!Results : task = Agent!Reporting(i, r)
  BY <1>1 DEF Agent!AtReport
<1>3. task # Agent!Idle /\ task.incident = i /\ task.result \in Agent!Results
  BY <1>2 DEF Agent!Reporting, Agent!Idle
<1>4. decisions[i]["approved"] > 0 /\ i \notin Vetted
  BY <1>3 DEF IInv, Owed, NeverApproved
<1>5. /\ task' = Agent!Idle /\ UNCHANGED <<diagnoses, reviews, executions, setbacks>>
      /\ active' \subseteq Incidents /\ faults' \in Nat
      /\ reports' \in [Incidents -> Agent!Results \union {"none"}]
      /\ decisions' = [decisions EXCEPT ![i]["approved"] = @ - 1] \/ UNCHANGED decisions
  BY <1>3 DEF Agent!Report, Agent!ReportUnconfirmed, Agent!Reported, Agent!Handled, Agent!Fault
<1>6. decisions' \in [Incidents -> [Statuses -> Nat]]
  <2>1. decisions \in [Incidents -> [Statuses -> Nat]] /\ "approved" \in Statuses
    OBVIOUS
  <2>2. [decisions EXCEPT ![i]["approved"] = @ - 1] \in [Incidents -> [Statuses -> Nat]]
    BY <1>4, <2>1, DecisionsKeepType
  <2>3. QED
    BY <1>5, <2>1, <2>2
<1>7. Agent!TypeOK'
  BY <1>5 DEF Agent!TypeOK, Agent!Tasks
<1>8. Owed'
  BY <1>5 DEF Owed, Agent!Idle
<1>9. NeverApproved'
  <2>1. \A j \in Incidents : j # i => decisions'[j] = decisions[j]
    BY <1>5
  <2>2. QED
    BY <1>4, <1>5, <2>1 DEF IInv, NeverApproved
<1>10. QED
  BY <1>5, <1>6, <1>7, <1>8, <1>9, AgentFrame

LEMMA AgentEvolves ==
    ASSUME IInv, UNCHANGED safetyVars, Agent!Next
    PROVE  IInv'
<1> USE AgentTypes
<1>1. CASE Agent!Restart
  <2>1. CASE Incidents = {}
    <3>1. /\ UNCHANGED <<diagnoses, reviews, decisions, executions, reports>>
          /\ task' = Agent!Idle /\ active' = {} /\ faults' \in Nat
          /\ setbacks' \subseteq Incidents
      BY <1>1 DEF Agent!Restart, Agent!Fault
    <3>2. Agent!TypeOK'
      BY <3>1 DEF Agent!TypeOK, Agent!Tasks
    <3>3. QED
      BY <3>1, <3>2, AgentFrame DEF IInv, Owed, NeverApproved, Agent!Idle
  <2>2. CASE Incidents # {}
    BY <1>1, <2>2, DiagnosisEvolves
  <2>3. QED
    BY <2>1, <2>2
<1>2. ASSUME NEW i \in Incidents, Agent!Proceed(i)
      PROVE  IInv'
  <2>1. CASE Agent!DropDiagnosis(i) \/ Agent!Propose(i)
    BY <2>1, DiagnosisEvolves
  <2>2. CASE \E s \in Agent!Statuses : Agent!IgnoreDecision(i, s)
    BY <2>2, DecisionEvolves
  <2>3. CASE Agent!HandleRejected(i) \/ Agent!HandlePending(i)
    BY <2>3, DecisionEvolves
  <2>4. CASE Agent!Execute(i)
    BY <2>4, ExecuteEvolves
  <2>5. CASE Agent!Verify(i)
    BY <2>5, VerifyEvolves
  <2>6. CASE Agent!Report(i)
    BY <2>6, ReportEvolves
  <2>7. QED
    BY <1>2, <2>1, <2>2, <2>3, <2>4, <2>5, <2>6 DEF Agent!Proceed
<1>3. ASSUME NEW i \in Incidents,
             Agent!ProposalUnconfirmed(i) \/ Agent!ReportUnconfirmed(i)
               \/ Agent!DiagnosisExpires(i)
      PROVE  IInv'
  BY <1>3, DiagnosisEvolves, ReportEvolves
<1>4. ASSUME NEW i \in Incidents, NEW s \in Agent!Statuses,
             Agent!DecisionRedelivered(i, s) \/ Agent!DecisionExpires(i, s)
      PROVE  IInv'
  BY <1>4, RedeliveryEvolves, DecisionEvolves
<1>5. QED
  BY <1>1, <1>2, <1>3, <1>4 DEF Agent!Next

-----------------------------------------------------------------------------

LEMMA StepHolds ==
    ASSUME IInv, [Next]_vars
    PROVE  IInv'
<1>1. CASE Next
  BY <1>1, TickEvolves, SafetyEvolves, AgentEvolves DEF Next
<1>2. CASE UNCHANGED vars
  BY <1>2
  DEF vars, safetyVars, agentVars, IInv, TypeOK, Safety!TypeOK, Agent!TypeOK,
      Owed, NeverApproved
<1>3. QED
  BY <1>1, <1>2

LEMMA InvariantHolds == Spec => []IInv
<1>1. Init => IInv
  BY InitHolds
<1>2. IInv /\ [Next]_vars => IInv'
  BY StepHolds
<1>3. QED
  BY <1>1, <1>2, PTL DEF Spec

\* Both agents keep their types, whatever the incidents, limits and bounds.
THEOREM TypesHold == Spec => []TypeOK
<1>1. IInv => TypeOK
  BY DEF IInv
<1>2. QED
  BY <1>1, InvariantHolds, PTL

\* No action runs that the policy hands to a human, however often requests and
\* decisions are lost, repeated or handled again after a restart.
THEOREM VettedActionsNeverRun == Spec => []VettedNeverRun
<1>1. IInv => VettedNeverRun
  BY DEF IInv, NeverApproved, VettedNeverRun
<1>2. QED
  BY <1>1, InvariantHolds, PTL

-----------------------------------------------------------------------------
(* The rate limit.                                                         *)

\* What the limiter keeps of the n-th grant.
Entry(n) == [key |-> granted[n].key, at |-> granted[n].at]

\* What the limiter has yet to remember of its present run.
Remembered ==
    \A n \in DOMAIN granted :
        granted[n].run = run /\ granted[n].at > clock - Window => Entry(n) \in history

\* No grant is of a run to come.
Dated == \A n \in DOMAIN granted : granted[n].run <= run

\* The history is a set: it would lose one of two equal entries.
Distinct ==
    \A m, n \in DOMAIN granted :
        m # n /\ granted[m].key = granted[n].key /\ granted[m].run = granted[n].run
            => granted[m].at # granted[n].at

LimitInv == IsFiniteSet(history) /\ Remembered /\ Dated /\ Distinct

LEMMA LimitInitHolds == Init => LimitInv
  BY FS_EmptySet DEF Init, Safety!Init, LimitInv, Remembered, Dated, Distinct

LEMMA GrantTypes ==
    ASSUME IInv
    PROVE  /\ clock \in Nat /\ run \in Nat
           /\ granted \in Seq(Grant)
           /\ \A n \in DOMAIN granted : granted[n].at \in Nat /\ granted[n].run \in Nat
           /\ \A h \in history : h.at \in Nat
           /\ Limit \in Nat \ {0} /\ Cooldown \in Nat \ {0} /\ Window \in Nat /\ Cooldown <= Window
<1>1. granted \in Seq(Grant) /\ clock \in Nat /\ run \in Nat /\ \A h \in history : h.at \in Nat
  BY DEF IInv, TypeOK, Safety!TypeOK, Grant
<1>2. \A n \in DOMAIN granted : granted[n] \in Grant
  BY <1>1
<1>3. \A n \in DOMAIN granted : granted[n].at \in Nat /\ granted[n].run \in Nat
  BY <1>2 DEF Grant
<1>4. QED
  BY <1>1, <1>3, RateAssumption

\* Whoever counts, the count is the same.
LEMMA SameCardinality ==
    \A S : Safety!Cardinality(S) = Cardinality(S) /\ Safety!Promise!Cardinality(S) = Cardinality(S)
  BY DEF Cardinality, Safety!Cardinality, Safety!Promise!Cardinality

\* The entries of one window of one run are as many as its grants.
LEMMA GrantsAreCounted ==
    ASSUME IInv, LimitInv, NEW i \in Incidents
    PROVE  LET recent == {n \in DOMAIN granted :
                            /\ granted[n].key = Key[i] /\ granted[n].run = run
                            /\ granted[n].at > clock - Window}
           IN  /\ \A n \in recent : Entry(n) \in Safety!Alike(i)
               /\ IsFiniteSet(Safety!Alike(i))
               /\ Cardinality(Safety!Alike(i)) \in Nat
               /\ Cardinality(recent) \in Nat
               /\ Cardinality(recent) <= Cardinality(Safety!Alike(i))
<1> DEFINE recent == {n \in DOMAIN granted :
                        /\ granted[n].key = Key[i] /\ granted[n].run = run
                        /\ granted[n].at > clock - Window}
           f == [n \in recent |-> Entry(n)]
<1>1. \A n \in recent : Entry(n) \in Safety!Alike(i)
  BY DEF LimitInv, Remembered, Safety!Alike, Safety!Recent, Entry
<1>2. IsFiniteSet(Safety!Alike(i))
  <2>1. Safety!Alike(i) \in SUBSET history
    BY DEF Safety!Alike, Safety!Recent
  <2>2. QED
    BY <2>1, FS_Subset DEF LimitInv
<1>3. f \in Injection(recent, Safety!Alike(i))
  <2>1. f \in [recent -> Safety!Alike(i)]
    BY <1>1
  <2>2. ASSUME NEW m \in recent, NEW n \in recent, f[m] = f[n]
        PROVE  m = n
    <3>1. granted[m].at = granted[n].at
      BY <2>2 DEF Entry
    <3>2. QED
      BY <3>1 DEF LimitInv, Distinct
  <2>3. QED
    BY <2>1, <2>2 DEF Injection, IsInjective
<1> HIDE DEF recent, f
<1>4. IsFiniteSet(recent) /\ Cardinality(recent) <= Cardinality(Safety!Alike(i))
  BY <1>2, <1>3, FS_Injection
<1>5. Cardinality(recent) \in Nat /\ Cardinality(Safety!Alike(i)) \in Nat
  BY <1>2, <1>4, FS_CardinalityType
<1>6. QED
  BY <1>1, <1>2, <1>4, <1>5 DEF recent

\* An approval is a grant that RateLimit allows.
LEMMA ApprovalIsGrant ==
    ASSUME IInv, LimitInv, NEW i \in Incidents, Safety!Allowed(i)
    PROVE  /\ \A n \in Safety!Promise!Earlier(Key[i]) : clock - granted[n].at >= Cooldown
           /\ Cardinality({n \in Safety!Promise!Earlier(Key[i]) :
                             granted[n].at > clock - Window}) < Limit
<1> USE GrantTypes
<1>1. ASSUME NEW n \in Safety!Promise!Earlier(Key[i])
      PROVE  clock - granted[n].at >= Cooldown
  <2>1. n \in DOMAIN granted /\ granted[n].key = Key[i] /\ granted[n].run = run
    BY DEF Safety!Promise!Earlier
  <2>2. CASE granted[n].at > clock - Window
    <3>1. Entry(n) \in Safety!Alike(i)
      BY <2>1, <2>2, GrantsAreCounted
    <3>2. clock - Entry(n).at >= Cooldown
      BY <3>1 DEF Safety!Allowed
    <3>3. QED
      BY <3>2 DEF Entry
  <2>3. CASE ~(granted[n].at > clock - Window)
    BY <2>1, <2>3
  <2>4. QED
    BY <2>2, <2>3
<1>2. {n \in Safety!Promise!Earlier(Key[i]) : granted[n].at > clock - Window}
        = {n \in DOMAIN granted :
             /\ granted[n].key = Key[i] /\ granted[n].run = run
             /\ granted[n].at > clock - Window}
  BY DEF Safety!Promise!Earlier
<1>3. Cardinality({n \in DOMAIN granted :
             /\ granted[n].key = Key[i] /\ granted[n].run = run
             /\ granted[n].at > clock - Window}) < Limit
  BY GrantsAreCounted, SameCardinality DEF Safety!Allowed
<1>4. QED
  BY <1>1, <1>2, <1>3

-----------------------------------------------------------------------------

\* A new grant is remembered, and none of its run and key is of the same time.
LEMMA EvaluateKeeps ==
    ASSUME IInv, LimitInv, NEW i \in Incidents, Safety!Evaluate(i), UNCHANGED <<clock, run>>
    PROVE  /\ LimitInv'
           /\ Safety!Promise!Grant(i, Key[i]) \/ UNCHANGED granted
<1> USE GrantTypes
<1>1. IsFiniteSet(Safety!Recent)
  <2>1. Safety!Recent \in SUBSET history
    BY DEF Safety!Recent
  <2>2. QED
    BY <2>1, FS_Subset DEF LimitInv
<1>2. \A n \in DOMAIN granted :
         granted[n].run = run /\ granted[n].at > clock - Window => Entry(n) \in Safety!Recent
  BY DEF LimitInv, Remembered, Safety!Recent, Entry
<1>3. CASE Safety!Verdict(i) # "approved"
  <2>1. history' = Safety!Recent /\ UNCHANGED granted
    BY <1>3 DEF Safety!Evaluate
  <2>2. LimitInv'
    BY <1>1, <1>2, <2>1 DEF LimitInv, Remembered, Dated, Distinct, Entry
  <2>3. QED
    BY <2>1, <2>2
<1>4. CASE Safety!Verdict(i) = "approved"
  <2> DEFINE g == [incident |-> i, key |-> Key[i], at |-> clock, run |-> run]
             e == [key |-> Key[i], at |-> clock]
  <2>1. history' = Safety!Recent \union {e} /\ granted' = Append(granted, g)
    BY <1>4 DEF Safety!Evaluate
  <2>2. Safety!Allowed(i)
    BY <1>4 DEF Safety!Verdict
  <2>3. Safety!Promise!Grant(i, Key[i])
    BY <2>1, <2>2, ApprovalIsGrant, SameCardinality DEF Safety!Promise!Grant
  <2>4. ASSUME NEW n \in DOMAIN granted, granted[n].key = Key[i], granted[n].run = run
        PROVE  granted[n].at # clock
    <3>1. n \in Safety!Promise!Earlier(Key[i])
      BY <2>4 DEF Safety!Promise!Earlier
    <3>2. clock - granted[n].at >= Cooldown
      BY <2>2, <3>1, ApprovalIsGrant
    <3>3. QED
      BY <3>2
  <2>5. IsFiniteSet(history')
    BY <1>1, <2>1, FS_AddElement
  <2>6. g \in Grant
    BY DEF Grant
  <2>7. /\ DOMAIN granted = 1..Len(granted) /\ Len(granted) \in Nat
        /\ DOMAIN granted' = 1..(Len(granted) + 1)
        /\ \A n \in DOMAIN granted : granted'[n] = granted[n]
        /\ granted'[Len(granted) + 1] = g
    <3> HIDE DEF g
    <3>1. QED
      BY <2>1, <2>6
  <2>8. \A n \in DOMAIN granted' : 
           n \in DOMAIN granted \/ (granted'[n] = g /\ n = Len(granted) + 1)
    BY <2>7
  <2>9. Remembered'
    <3>1. ASSUME NEW n \in DOMAIN granted', granted'[n].run = run',
                 granted'[n].at > clock' - Window
          PROVE  Entry(n)' \in history'
      <4>1. CASE n \in DOMAIN granted
        BY <1>2, <2>1, <2>7, <3>1, <4>1 DEF Entry
      <4>2. CASE granted'[n] = g
        BY <2>1, <4>2 DEF Entry
      <4>3. QED
        BY <2>8, <4>1, <4>2
    <3>2. QED
      BY <3>1 DEF Remembered
  <2>10. Dated'
    BY <2>7, <2>8 DEF LimitInv, Dated
  <2>11. Distinct'
    <3>1. ASSUME NEW m \in DOMAIN granted', NEW n \in DOMAIN granted', m # n,
                 granted'[m].key = granted'[n].key, granted'[m].run = granted'[n].run
          PROVE  granted'[m].at # granted'[n].at
      <4>1. CASE m \in DOMAIN granted /\ n \in DOMAIN granted
        BY <2>7, <3>1, <4>1 DEF LimitInv, Distinct
      <4>2. CASE m \in DOMAIN granted /\ granted'[n] = g
        BY <2>4, <2>7, <3>1, <4>2
      <4>3. CASE granted'[m] = g /\ n \in DOMAIN granted
        BY <2>4, <2>7, <3>1, <4>3
      <4>4. QED
        BY <2>8, <3>1, <4>1, <4>2, <4>3
    <3>2. QED
      BY <3>1 DEF Distinct
  <2>12. QED
    BY <2>3, <2>5, <2>9, <2>10, <2>11 DEF LimitInv
<1>5. QED
  BY <1>3, <1>4

\* Whatever happens is a step of RateLimit or changes nothing that it sees.
LEMMA StepKeepsLimit ==
    ASSUME IInv, LimitInv, [Next]_vars
    PROVE  LimitInv' /\ [Safety!Promise!Next]_(Safety!Promise!vars)
<1> USE GrantTypes
<1>1. CASE UNCHANGED safetyVars
  <2>1. LimitInv'
    BY <1>1 DEF LimitInv, Remembered, Dated, Distinct, Entry, safetyVars
  <2>2. QED
    BY <1>1, <2>1 DEF safetyVars, Safety!Promise!vars
<1>2. CASE Safety!Tick
  <2>1. clock' = clock + 1 /\ UNCHANGED <<history, run, granted>>
    BY <1>2 DEF Safety!Tick
  <2>2. LimitInv'
    BY <2>1 DEF LimitInv, Remembered, Dated, Distinct, Entry
  <2>3. Safety!Promise!Tick
    BY <2>1 DEF Safety!Promise!Tick
  <2>4. QED
    BY <2>2, <2>3 DEF Safety!Promise!Next
<1>3. CASE Safety!Restart
  <2>1. history' = {} /\ run' = run + 1 /\ UNCHANGED <<clock, granted>>
    BY <1>3 DEF Safety!Restart
  <2>2. LimitInv'
    BY <2>1, FS_EmptySet DEF LimitInv, Remembered, Dated, Distinct, Entry
  <2>3. Safety!Promise!Restart
    BY <2>1 DEF Safety!Promise!Restart
  <2>4. QED
    BY <2>2, <2>3 DEF Safety!Promise!Next
<1>4. ASSUME NEW i \in Incidents, Safety!HandleReview(i) \/ Safety!ReviewUnconfirmed(i)
      PROVE  LimitInv' /\ [Safety!Promise!Next]_(Safety!Promise!vars)
  <2>1. Safety!Evaluate(i) /\ UNCHANGED <<clock, run>>
    BY <1>4 DEF Safety!HandleReview, Safety!ReviewUnconfirmed
  <2>2. LimitInv' /\ (Safety!Promise!Grant(i, Key[i]) \/ UNCHANGED granted)
    BY <2>1, EvaluateKeeps
  <2>3. QED
    BY <2>1, <2>2 DEF Safety!Promise!Next, Safety!Promise!vars
<1>5. ASSUME NEW i \in Incidents, Safety!ReviewExpires(i)
      PROVE  UNCHANGED safetyVars
  BY <1>5 DEF Safety!ReviewExpires, safetyVars
<1>6. QED
  BY <1>1, <1>2, <1>3, <1>4, <1>5 DEF Next, Safety!Next, vars

\* The rate limiter keeps its promise in each run of the Safety agent, however
\* requests are redelivered or fail to be answered.
THEOREM LimitIsKept == Spec => KeepsRateLimit
<1>1. Init => LimitInv /\ Safety!Promise!Init
  BY LimitInitHolds DEF Init, Safety!Init, Safety!Promise!Init
<1>2. IInv /\ LimitInv /\ [Next]_vars => LimitInv' /\ [Safety!Promise!Next]_(Safety!Promise!vars)
  BY StepKeepsLimit
<1>3. Spec => Safety!Promise!Init /\ [][Safety!Promise!Next]_(Safety!Promise!vars)
  BY <1>1, <1>2, InvariantHolds, PTL DEF Spec
<1>4. QED
  BY <1>3 DEF KeepsRateLimit, Safety!KeepsRateLimit, Safety!Promise!Spec

-----------------------------------------------------------------------------
(* What decisions come to.                                                 *)

\* 1 while the action of i is under way.
Busy(i) == IF task # Agent!Idle /\ task.incident = i THEN 1 ELSE 0

\* How often the action of i has run or may still run on a decision that exists.
Chances(i) == executions[i] + decisions[i]["approved"] - Busy(i)

CountInv == \A i \in Incidents : Chances(i) <= Grants(i) + faults

\* What is under way about an incident is of use while the remediator knows of it.
Known(i) ==
    \/ i \in active \/ i \in setbacks \/ executions[i] > 0
    \/ reviews[i] = 0 /\ \A s \in Statuses : decisions[i][s] = 0

UseInv ==
    /\ \A i \in Incidents : Known(i)
    /\ task # Agent!Idle => executions[task.incident] > 0

DecisionInv == CountInv /\ UseInv

LEMMA GrantsAreNat == IInv => \A i \in Incidents : Grants(i) \in Nat
<1> SUFFICES ASSUME IInv, NEW i \in Incidents PROVE Grants(i) \in Nat
  OBVIOUS
<1>1. granted \in Seq(Grant)
  BY DEF IInv, TypeOK, Safety!TypeOK, Grant
<1>2. IsFiniteSet(1..Len(granted)) /\ DOMAIN granted = 1..Len(granted)
  BY <1>1, FS_Interval
<1>3. {n \in DOMAIN granted : granted[n].incident = i} \in SUBSET (1..Len(granted))
  BY <1>2
<1>4. QED
  BY <1>2, <1>3, FS_Subset, FS_CardinalityType DEF Grants

\* An evaluation counts one grant of its incident if it approves.
LEMMA EvaluateCounts ==
    ASSUME IInv, NEW i \in Incidents, Safety!Evaluate(i)
    PROVE  \A j \in Incidents :
              Grants(j)' = Grants(j) + (IF j = i /\ Safety!Verdict(i) = "approved" THEN 1 ELSE 0)
<1>1. granted \in Seq(Grant) /\ clock \in Nat /\ run \in Nat
  BY DEF IInv, TypeOK, Safety!TypeOK, Grant
<1>2. CASE Safety!Verdict(i) # "approved"
  <2>1. UNCHANGED granted
    BY <1>2 DEF Safety!Evaluate
  <2>2. QED
    BY <1>2, <2>1, GrantsAreNat DEF Grants
<1>3. CASE Safety!Verdict(i) = "approved"
  <2> DEFINE g == [incident |-> i, key |-> Key[i], at |-> clock, run |-> run]
             end == Len(granted) + 1
             of(j) == {n \in DOMAIN granted : granted[n].incident = j}
  <2>1. granted' = Append(granted, g)
    BY <1>3 DEF Safety!Evaluate
  <2>2. g \in Grant /\ g.incident = i
    BY <1>1 DEF Grant
  <2>3. /\ DOMAIN granted = 1..Len(granted) /\ Len(granted) \in Nat
        /\ DOMAIN granted' = DOMAIN granted \union {end} /\ end \notin DOMAIN granted
        /\ \A n \in DOMAIN granted : granted'[n] = granted[n]
        /\ granted'[end] = g
    <3> HIDE DEF g
    <3>1. QED
      BY <1>1, <2>1, <2>2
  <2> SUFFICES ASSUME NEW j \in Incidents
               PROVE  Grants(j)' = Grants(j) + (IF j = i THEN 1 ELSE 0)
    BY <1>3
  <2>4. IsFiniteSet(of(j)) /\ end \notin of(j)
    <3>1. IsFiniteSet(1..Len(granted))
      BY <2>3, FS_Interval
    <3>2. of(j) \in SUBSET (1..Len(granted))
      BY <2>3
    <3>3. QED
      BY <2>3, <3>1, <3>2, FS_Subset
  <2>5. {n \in DOMAIN granted' : granted'[n].incident = j}
          = IF j = i THEN of(j) \union {end} ELSE of(j)
    <3> HIDE DEF g, end
    <3>1. QED
      BY <2>2, <2>3
  <2>6. Grants(j)' = Cardinality(IF j = i THEN of(j) \union {end} ELSE of(j))
    BY <2>5 DEF Grants
  <2>7. Grants(j) = Cardinality(of(j)) /\ Grants(j) \in Nat
    BY GrantsAreNat DEF Grants
  <2> HIDE DEF of, end
  <2>8. Cardinality(of(j) \union {end}) = Cardinality(of(j)) + 1
    BY <2>4, FS_AddElement
  <2>9. CASE j = i
    BY <2>6, <2>7, <2>8, <2>9
  <2>10. CASE j # i
    BY <2>6, <2>7, <2>10
  <2>11. QED
    BY <2>9, <2>10
<1>4. QED
  BY <1>2, <1>3

LEMMA DecisionTypes ==
    ASSUME IInv
    PROVE  /\ \A i \in Incidents :
                /\ Grants(i) \in Nat /\ reviews[i] \in Nat /\ executions[i] \in Nat
                /\ \A s \in Statuses : decisions[i][s] \in Nat
                /\ Busy(i) \in {0, 1}
                /\ Busy(i) = 1 => decisions[i]["approved"] > 0
           /\ faults \in Nat
           /\ "approved" \in Statuses
<1> USE AgentTypes
<1>1. ASSUME NEW i \in Incidents
      PROVE  /\ reviews[i] \in Nat /\ executions[i] \in Nat
             /\ \A s \in Statuses : decisions[i][s] \in Nat
  OBVIOUS
<1>2. ASSUME NEW i \in Incidents
      PROVE  Busy(i) \in {0, 1} /\ (Busy(i) = 1 => decisions[i]["approved"] > 0)
  BY DEF Busy, IInv, Owed
<1>3. QED
  BY <1>1, <1>2, GrantsAreNat

-----------------------------------------------------------------------------

\* What a review makes of a request, whether or not it is acknowledged.
LEMMA ReviewDecides ==
    ASSUME IInv, IInv', DecisionInv, NEW i \in Incidents,
           Safety!HandleReview(i) \/ Safety!ReviewUnconfirmed(i),
           UNCHANGED agentVars
    PROVE  DecisionInv'
<1> USE DecisionTypes
<1>1. /\ Safety!Evaluate(i) /\ reviews[i] > 0
      /\ Safety!Decided(i) \/ UNCHANGED decisions
      /\ faults' >= faults /\ UNCHANGED <<setbacks, active, task, executions>>
      /\ reviews' = [reviews EXCEPT ![i] = @ - 1] \/ UNCHANGED reviews
  BY DEF Safety!HandleReview, Safety!ReviewUnconfirmed, Safety!Fault, agentVars
<1>2. \A j \in Incidents :
         Grants(j)' = Grants(j) + (IF j = i /\ Safety!Verdict(i) = "approved" THEN 1 ELSE 0)
  BY <1>1, EvaluateCounts
<1>3. \A j \in Incidents :
         /\ decisions'[j]["approved"]
              <= decisions[j]["approved"]
                   + (IF j = i /\ Safety!Verdict(i) = "approved" THEN 1 ELSE 0)
         /\ j # i => decisions'[j] = decisions[j] /\ reviews'[j] = reviews[j]
  BY <1>1, AgentTypes DEF Safety!Decided
<1>4. ASSUME NEW j \in Incidents
      PROVE  Chances(j)' <= Grants(j)' + faults' /\ Known(j)'
  <2>1. faults' \in Nat /\ decisions'[j]["approved"] \in Nat
    BY AgentTypes, <1>1, IInv' DEF IInv, TypeOK, Safety!TypeOK, Statuses
  <2>2. Busy(j)' = Busy(j)
    BY <1>1 DEF Busy
  <2>3. Chances(j) <= Grants(j) + faults
    BY DEF DecisionInv, CountInv
  <2>4. Chances(j)' <= Grants(j)' + faults'
    BY <1>1, <1>2, <1>3, <2>1, <2>2, <2>3 DEF Chances
  <2>5. Known(j)'
    BY <1>1, <1>3 DEF DecisionInv, UseInv, Known
  <2>6. QED
    BY <2>4, <2>5
<1>5. (task # Agent!Idle => executions[task.incident] > 0)'
  BY <1>1 DEF DecisionInv, UseInv, Agent!Idle
<1>6. QED
  BY <1>4, <1>5 DEF DecisionInv, CountInv, UseInv

\* What grants nothing keeps the count if it adds no chance without a fault.
LEMMA CountKept ==
    ASSUME IInv, IInv', DecisionInv, UNCHANGED granted,
           \A j \in Incidents : Chances(j)' <= Chances(j) + (faults' - faults)
    PROVE  CountInv'
<1>1. ASSUME NEW j \in Incidents
      PROVE  Chances(j)' <= Grants(j)' + faults'
  <2>1. Grants(j)' = Grants(j) /\ Grants(j) \in Nat
    BY GrantsAreNat DEF Grants
  <2>2. Chances(j) \in Int /\ Chances(j)' \in Int
    <3>1. Chances(j) \in Int
      BY DecisionTypes DEF Chances
    <3>2. Chances(j)' \in Int
      <4>1. \A k \in Incidents :
               /\ executions'[k] \in Nat /\ decisions'[k]["approved"] \in Nat
        BY AgentTypes DEF IInv, TypeOK, Safety!TypeOK, Agent!TypeOK, Statuses
      <4>2. Busy(j)' \in {0, 1}
        BY DEF Busy
      <4>3. QED
        BY <4>1, <4>2 DEF Chances
    <3>3. QED
      BY <3>1, <3>2
  <2>3. faults \in Nat /\ faults' \in Nat
    BY DEF IInv, TypeOK
  <2>4. Chances(j) <= Grants(j) + faults
    BY DEF DecisionInv, CountInv
  <2>5. QED
    BY <2>1, <2>2, <2>3, <2>4
<1>2. QED
  BY <1>1 DEF CountInv

\* Of a step of the remediator: no chance without a fault, and what it forgets
\* it has run or lost.
LEMMA AgentKept ==
    ASSUME IInv, IInv', DecisionInv, UNCHANGED safetyVars,
           \A j \in Incidents : Chances(j)' <= Chances(j) + (faults' - faults),
           \A j \in Incidents : Known(j)',
           task' # Agent!Idle => executions'[task'.incident] > 0
    PROVE  DecisionInv'
<1>1. CountInv'
  BY CountKept DEF safetyVars
<1>2. QED
  BY <1>1 DEF DecisionInv, UseInv, Agent!Idle

LEMMA DiagnosisDecides ==
    ASSUME IInv, IInv', DecisionInv, UNCHANGED safetyVars, NEW i \in Incidents,
           Agent!DropDiagnosis(i) \/ Agent!Propose(i) \/ Agent!ProposalUnconfirmed(i)
             \/ Agent!DiagnosisExpires(i)
    PROVE  DecisionInv'
<1> USE DecisionTypes
<1>1. /\ UNCHANGED <<decisions, task, executions>> /\ faults' \in Nat /\ faults' >= faults
      /\ active \subseteq active' /\ setbacks \subseteq setbacks'
      /\ \A j \in Incidents : j \in active' \/ reviews'[j] = reviews[j]
  BY AgentTypes
  DEF Agent!DropDiagnosis, Agent!Propose, Agent!ProposalUnconfirmed,
      Agent!DiagnosisExpires, Agent!Requested, Agent!Setback, Agent!Fault
<1>2. \A j \in Incidents : Chances(j)' <= Chances(j) + (faults' - faults)
  BY <1>1 DEF Chances, Busy
<1>3. \A j \in Incidents : Known(j)'
  BY <1>1 DEF DecisionInv, UseInv, Known
<1>4. task' # Agent!Idle => executions'[task'.incident] > 0
  BY <1>1 DEF DecisionInv, UseInv
<1>5. QED
  BY <1>2, <1>3, <1>4, AgentKept

LEMMA RestartDecides ==
    ASSUME IInv, IInv', DecisionInv, UNCHANGED safetyVars, Agent!Restart
    PROVE  DecisionInv'
<1> USE DecisionTypes
<1>1. /\ faults' = faults + 1 /\ task' = Agent!Idle
      /\ active' = {} /\ setbacks' = setbacks \union active
      /\ UNCHANGED <<reviews, decisions, executions>>
  BY DEF Agent!Restart, Agent!Fault
<1>2. \A j \in Incidents : Chances(j)' <= Chances(j) + (faults' - faults)
  BY <1>1 DEF Chances, Busy
<1>3. \A j \in Incidents : Known(j)'
  BY <1>1 DEF DecisionInv, UseInv, Known
<1>4. QED
  BY <1>1, <1>2, <1>3, AgentKept

\* A decision is used up that no action under way rests on.
LEMMA HandledDecides ==
    ASSUME IInv, IInv', DecisionInv, UNCHANGED safetyVars, NEW i \in Incidents, NEW s \in Statuses,
           Agent!IgnoreDecision(i, s) \/ Agent!HandleRejected(i)
             \/ Agent!HandlePending(i) \/ Agent!DecisionExpires(i, s)
    PROVE  DecisionInv'
<1> USE DecisionTypes
<1>1. /\ UNCHANGED <<reviews, task, executions>> /\ faults' \in Nat /\ faults' >= faults
      /\ active' \subseteq active /\ setbacks \subseteq setbacks'
      /\ active \subseteq active' \union setbacks'
  BY DEF Agent!IgnoreDecision, Agent!HandleRejected, Agent!HandlePending,
      Agent!DecisionExpires, Agent!Setback, Agent!Fault
<1>2. PICK t \in Statuses : Agent!Pending(i, t) /\ Agent!Handled(i, t)
  BY DEF Agent!IgnoreDecision, Agent!HandleRejected, Agent!HandlePending,
      Agent!DecisionExpires, Statuses, Safety!Statuses
<1>3. \A j \in Incidents, u \in Statuses :
         /\ decisions'[j][u] \in Nat
         /\ decisions'[j][u] <= decisions[j][u]
         /\ decisions[j][u] = 0 => decisions'[j][u] = 0
  BY <1>2, AgentTypes DEF Agent!Pending, Agent!Handled
<1>4. \A j \in Incidents : Chances(j)' <= Chances(j) + (faults' - faults)
  BY <1>1, <1>3 DEF Chances, Busy
<1>5. \A j \in Incidents : Known(j)'
  BY <1>1, <1>3 DEF DecisionInv, UseInv, Known
<1>6. task' # Agent!Idle => executions'[task'.incident] > 0
  BY <1>1 DEF DecisionInv, UseInv
<1>7. QED
  BY <1>4, <1>5, <1>6, AgentKept

LEMMA RedeliveryDecides ==
    ASSUME IInv, IInv', DecisionInv, UNCHANGED safetyVars, NEW i \in Incidents, NEW s \in Statuses,
           Agent!DecisionRedelivered(i, s)
    PROVE  DecisionInv'
<1> USE DecisionTypes
<1>1. /\ UNCHANGED <<reviews, active, task, executions, setbacks>> /\ faults' = faults + 1
      /\ decisions' = [decisions EXCEPT ![i][s] = @ + 1] /\ decisions[i][s] > 0
  BY DEF Agent!DecisionRedelivered, Agent!Fault
<1>2. \A j \in Incidents, t \in Statuses :
         /\ decisions'[j][t] <= decisions[j][t] + 1
         /\ decisions[j][t] = 0 => decisions'[j][t] = 0
  BY <1>1, AgentTypes
<1>3. \A j \in Incidents : Chances(j)' <= Chances(j) + (faults' - faults)
  BY <1>1, <1>2 DEF Chances, Busy
<1>4. \A j \in Incidents : Known(j)'
  BY <1>1, <1>2 DEF DecisionInv, UseInv, Known
<1>5. task' # Agent!Idle => executions'[task'.incident] > 0
  BY <1>1 DEF DecisionInv, UseInv
<1>6. QED
  BY <1>1, <1>3, <1>4, <1>5, AgentKept

LEMMA ExecuteDecides ==
    ASSUME IInv, IInv', DecisionInv, UNCHANGED safetyVars, NEW i \in Incidents,
           Agent!Execute(i) \/ Agent!Verify(i)
    PROVE  DecisionInv'
<1> USE DecisionTypes
<1>1. /\ UNCHANGED <<reviews, decisions, active, setbacks, faults>>
      /\ task' # Agent!Idle /\ task'.incident = i
  BY DEF Agent!Execute, Agent!Verify, Agent!Verifying, Agent!Reporting, Agent!Idle
<1>2. CASE Agent!Execute(i)
  <2>1. task = Agent!Idle /\ executions' = [executions EXCEPT ![i] = @ + 1]
    BY <1>2 DEF Agent!Execute, Agent!Pending
  <2>2. \A j \in Incidents : executions'[j] = executions[j] + (IF j = i THEN 1 ELSE 0)
    BY <2>1, AgentTypes
  <2>3. \A j \in Incidents : Busy(j) = 0 /\ Busy(j)' = (IF j = i THEN 1 ELSE 0)
    BY <1>1, <2>1 DEF Busy
  <2>4. \A j \in Incidents : Chances(j)' <= Chances(j) + (faults' - faults)
    BY <1>1, <2>2, <2>3 DEF Chances
  <2>5. \A j \in Incidents : Known(j)'
    BY <1>1, <2>2 DEF DecisionInv, UseInv, Known
  <2>6. QED
    BY <1>1, <2>2, <2>4, <2>5, AgentKept
<1>3. CASE Agent!Verify(i)
  <2>1. task # Agent!Idle /\ task.incident = i /\ UNCHANGED executions
    BY <1>3 DEF Agent!Verify, Agent!Verifying, Agent!Idle
  <2>2. \A j \in Incidents : Busy(j)' = Busy(j)
    BY <1>1, <2>1 DEF Busy
  <2>3. \A j \in Incidents : Chances(j)' <= Chances(j) + (faults' - faults)
    BY <1>1, <2>1, <2>2 DEF Chances
  <2>4. \A j \in Incidents : Known(j)'
    BY <1>1, <2>1 DEF DecisionInv, UseInv, Known
  <2>5. QED
    BY <1>1, <2>1, <2>3, <2>4, AgentKept DEF DecisionInv, UseInv
<1>4. QED
  BY <1>2, <1>3

LEMMA AtReportIsBusy ==
    ASSUME NEW i \in Incidents, Agent!Report(i) \/ Agent!ReportUnconfirmed(i)
    PROVE  task # Agent!Idle /\ task.incident = i
<1>1. PICK r \in Agent!Results : task = Agent!Reporting(i, r)
  BY DEF Agent!Report, Agent!ReportUnconfirmed, Agent!AtReport
<1>2. QED
  BY <1>1 DEF Agent!Reporting, Agent!Idle

LEMMA ReportDecides ==
    ASSUME IInv, IInv', DecisionInv, UNCHANGED safetyVars, NEW i \in Incidents,
           Agent!Report(i) \/ Agent!ReportUnconfirmed(i)
    PROVE  DecisionInv'
<1> USE DecisionTypes
<1>1. task # Agent!Idle /\ task.incident = i /\ executions[i] > 0
  BY AtReportIsBusy DEF DecisionInv, UseInv
<1>2. /\ UNCHANGED <<reviews, executions, setbacks>>
      /\ task' = Agent!Idle /\ active \subseteq active' \union {i}
  BY DEF Agent!Report, Agent!ReportUnconfirmed
<1>3. /\ \A j \in Incidents : j # i => decisions'[j] = decisions[j]
      /\ \/ decisions'[i]["approved"] = decisions[i]["approved"] - 1 /\ faults' = faults
         \/ decisions'[i]["approved"] = decisions[i]["approved"] /\ faults' = faults + 1
  BY AgentTypes DEF Agent!Report, Agent!ReportUnconfirmed, Agent!Handled, Agent!Fault
<1>4. \A j \in Incidents : Busy(j)' = 0 /\ Busy(j) = (IF j = i THEN 1 ELSE 0)
  BY <1>1, <1>2 DEF Busy
<1>5. \A j \in Incidents : Chances(j)' <= Chances(j) + (faults' - faults)
  BY <1>2, <1>3, <1>4 DEF Chances
<1>6. \A j \in Incidents : Known(j)'
  BY <1>1, <1>2, <1>3 DEF DecisionInv, UseInv, Known
<1>7. QED
  BY <1>2, <1>5, <1>6, AgentKept

-----------------------------------------------------------------------------

\* What the Safety agent does without deciding.
LEMMA SafetyIdles ==
    ASSUME IInv, IInv', DecisionInv,
           \/ Safety!Tick /\ UNCHANGED <<reviews, decisions, setbacks, faults, agentVars>>
           \/ Safety!Restart /\ UNCHANGED agentVars
           \/ UNCHANGED agentVars /\ \E i \in Incidents : Safety!ReviewExpires(i)
           \/ UNCHANGED vars
    PROVE  DecisionInv'
<1> USE DecisionTypes
<1>1. /\ UNCHANGED <<granted, decisions, active, task, executions>>
      /\ faults' \in Nat /\ faults' >= faults /\ setbacks \subseteq setbacks'
      /\ \A j \in Incidents : j \in setbacks' \/ reviews'[j] = reviews[j]
  BY AgentTypes
  DEF Safety!Tick, Safety!Restart, Safety!ReviewExpires, Safety!Fault, agentVars, vars, safetyVars
<1>2. \A j \in Incidents : Chances(j)' <= Chances(j) + (faults' - faults)
  BY <1>1 DEF Chances, Busy
<1>3. CountInv'
  BY <1>1, <1>2, CountKept
<1>4. \A j \in Incidents : Known(j)'
  BY <1>1 DEF DecisionInv, UseInv, Known
<1>5. QED
  BY <1>1, <1>3, <1>4 DEF DecisionInv, UseInv, Agent!Idle

LEMMA AgentDecides ==
    ASSUME IInv, IInv', DecisionInv, UNCHANGED safetyVars, Agent!Next
    PROVE  DecisionInv'
<1> USE AgentTypes
<1>1. ASSUME NEW i \in Incidents, Agent!Proceed(i)
      PROVE  DecisionInv'
  <2>1. CASE Agent!DropDiagnosis(i) \/ Agent!Propose(i)
    BY <2>1, DiagnosisDecides
  <2>2. CASE \E s \in Agent!Statuses : Agent!IgnoreDecision(i, s)
    BY <2>2, HandledDecides
  <2>3. CASE Agent!HandleRejected(i) \/ Agent!HandlePending(i)
    BY <2>3, HandledDecides
  <2>4. CASE Agent!Execute(i) \/ Agent!Verify(i)
    BY <2>4, ExecuteDecides
  <2>5. CASE Agent!Report(i)
    BY <2>5, ReportDecides
  <2>6. QED
    BY <1>1, <2>1, <2>2, <2>3, <2>4, <2>5 DEF Agent!Proceed
<1>2. ASSUME NEW i \in Incidents,
             Agent!ProposalUnconfirmed(i) \/ Agent!ReportUnconfirmed(i)
               \/ Agent!DiagnosisExpires(i)
      PROVE  DecisionInv'
  BY <1>2, DiagnosisDecides, ReportDecides
<1>3. ASSUME NEW i \in Incidents, NEW s \in Agent!Statuses,
             Agent!DecisionRedelivered(i, s) \/ Agent!DecisionExpires(i, s)
      PROVE  DecisionInv'
  BY <1>3, RedeliveryDecides, HandledDecides
<1>4. QED
  BY <1>1, <1>2, <1>3, RestartDecides DEF Agent!Next

LEMMA StepDecides ==
    ASSUME IInv, DecisionInv, [Next]_vars
    PROVE  DecisionInv'
<1>1. IInv'
  BY StepHolds
<1>2. CASE Agent!Next /\ UNCHANGED safetyVars
  BY <1>1, <1>2, AgentDecides
<1>3. CASE Safety!Next /\ UNCHANGED agentVars
  BY <1>1, <1>3, ReviewDecides, SafetyIdles DEF Safety!Next
<1>4. CASE \/ Safety!Tick /\ UNCHANGED <<reviews, decisions, setbacks, faults, agentVars>>
           \/ UNCHANGED vars
  BY <1>1, <1>4, SafetyIdles
<1>5. QED
  BY <1>2, <1>3, <1>4 DEF Next

LEMMA DecisionInitHolds == Init => DecisionInv
<1> SUFFICES ASSUME Init PROVE DecisionInv
  OBVIOUS
<1>1. IInv /\ \A i \in Incidents : Grants(i) \in Nat
  BY InitHolds, GrantsAreNat
<1>2. \A i \in Incidents : Chances(i) = 0 /\ faults = 0
  BY DEF Init, Safety!Init, Safety!Statuses, Agent!Init, Chances, Busy
<1>3. QED
  BY <1>1, <1>2
  DEF Init, Safety!Init, Safety!Statuses, Statuses, Agent!Init, DecisionInv, CountInv, UseInv, Known

LEMMA DecisionInvHolds == Spec => []DecisionInv
<1>1. IInv /\ DecisionInv /\ [Next]_vars => DecisionInv'
  BY StepDecides
<1>2. QED
  BY <1>1, DecisionInitHolds, InvariantHolds, PTL DEF Spec

\* An action runs as often as it was approved and counted against the rate
\* limit, and once more at most for each fault.
THEOREM ExecutionsStayGranted == Spec => []ExecutionsAreGranted
<1>1. IInv /\ DecisionInv => ExecutionsAreGranted
  <2> SUFFICES ASSUME IInv, DecisionInv, NEW i \in Incidents
               PROVE  executions[i] <= Grants(i) + faults
    BY DEF ExecutionsAreGranted
  <2>1. Chances(i) <= Grants(i) + faults
    BY DEF DecisionInv, CountInv
  <2>2. QED
    BY <2>1, DecisionTypes DEF Chances
<1>2. QED
  BY <1>1, InvariantHolds, DecisionInvHolds, PTL

\* ApprovalsAreUsed, of one step.
Used ==
    \A i \in Incidents :
        decisions'[i]["approved"] < decisions[i]["approved"]
            => executions[i] > 0 \/ i \in setbacks'

\* Only what ignores, reports on or loses an approval uses one up.
LEMMA StepUses ==
    ASSUME IInv, DecisionInv, [Next]_vars
    PROVE  Used
<1> USE DecisionTypes
<1> SUFFICES ASSUME NEW i \in Incidents,
                    decisions'[i]["approved"] < decisions[i]["approved"]
             PROVE  executions[i] > 0 \/ i \in setbacks'
  BY DEF Used
<1>1. /\ decisions' # decisions /\ decisions[i]["approved"] # 0
      /\ decisions'[i]["approved"] \in Nat
  <2>1. IInv'
    BY StepHolds
  <2>2. decisions'[i]["approved"] \in Nat
    BY <2>1 DEF IInv, TypeOK, Safety!TypeOK, Safety!Statuses
  <2>3. QED
    BY <2>2
<1>2. Known(i)
  BY DEF DecisionInv, UseInv
<1>3. CASE Agent!Next
  <2>1. \A j \in Incidents, s \in Statuses :
           Agent!Handled(j, s) => j = i /\ s = "approved"
    BY AgentTypes DEF Agent!Handled
  <2>2. ASSUME Agent!IgnoreDecision(i, "approved")
        PROVE  executions[i] > 0 \/ i \in setbacks'
    BY <1>1, <1>2, <2>2 DEF Agent!IgnoreDecision, Known
  <2>3. Agent!Report(i) => executions[i] > 0
    BY AtReportIsBusy DEF DecisionInv, UseInv
  <2>4. Agent!DecisionExpires(i, "approved") => i \in setbacks'
    BY DEF Agent!DecisionExpires, Agent!Setback
  <2>5. \/ \E j \in Incidents, s \in Agent!Statuses :
              Agent!IgnoreDecision(j, s) \/ Agent!DecisionExpires(j, s)
        \/ \E j \in Incidents :
              Agent!HandleRejected(j) \/ Agent!HandlePending(j) \/ Agent!Report(j)
        \/ \E j \in Incidents, s \in Agent!Statuses : Agent!DecisionRedelivered(j, s)
    BY <1>1, <1>3
    DEF Agent!Next, Agent!Proceed, Agent!Restart, Agent!DropDiagnosis, Agent!Propose,
        Agent!Execute, Agent!Verify, Agent!ProposalUnconfirmed, Agent!ReportUnconfirmed,
        Agent!DiagnosisExpires
  <2>6. CASE \E j \in Incidents, s \in Agent!Statuses :
                Agent!IgnoreDecision(j, s) \/ Agent!DecisionExpires(j, s)
    BY <2>1, <2>2, <2>4, <2>6, AgentTypes DEF Agent!IgnoreDecision, Agent!DecisionExpires
  <2>7. CASE \E j \in Incidents :
                Agent!HandleRejected(j) \/ Agent!HandlePending(j) \/ Agent!Report(j)
    BY <2>1, <2>3, <2>7
    DEF Agent!HandleRejected, Agent!HandlePending, Agent!Report, Statuses, Safety!Statuses
  <2>8. CASE \E j \in Incidents, s \in Agent!Statuses : Agent!DecisionRedelivered(j, s)
    BY <2>8, AgentTypes DEF Agent!DecisionRedelivered
  <2>9. QED
    BY <2>5, <2>6, <2>7, <2>8
<1>4. CASE Safety!Next
  <2>1. PICK j \in Incidents : Safety!Decided(j)
    BY <1>1, <1>4
    DEF Safety!Next, Safety!Restart, Safety!HandleReview, Safety!ReviewUnconfirmed,
        Safety!ReviewExpires
  <2>2. decisions'[i]["approved"] >= decisions[i]["approved"]
    BY <2>1, AgentTypes DEF Safety!Decided
  <2>3. QED
    BY <1>1, <2>2
<1>5. QED
  BY <1>1, <1>3, <1>4 DEF Next, vars

\* An approval is used up without the action ever having run only if the entry
\* or a message about it was lost, or another decision rejected it.
THEOREM ApprovalsStayUsed == Spec => ApprovalsAreUsed
<1>1. IInv /\ DecisionInv /\ [Next]_vars => [Used]_vars
  BY StepUses
<1>2. Spec => [][Used]_vars
  BY <1>1, InvariantHolds, DecisionInvHolds, PTL DEF Spec
<1>3. QED
  BY <1>2 DEF ApprovalsAreUsed, Used
=============================================================================
