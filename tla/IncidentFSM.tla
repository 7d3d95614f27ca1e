---------------------------- MODULE IncidentFSM ----------------------------
(***************************************************************************)
(* The incident state machine of agents/orchestrator/src/incident_fsm.py,  *)
(* as values and operators: the class is pure, its callers supply the      *)
(* steps.  An FSM is a record                                              *)
(*    state   - the lifecycle state, or NoState when there is no object;   *)
(*    retries - retry_count;                                               *)
(*    late    - TRUE when is_timed_out() would answer TRUE.  The clock     *)
(*              itself (state_entered_at, STATE_TIMEOUTS) is abstracted to *)
(*              this bit: it is cleared where the code resets              *)
(*              state_entered_at and may be set at any time in a state     *)
(*              that has a timeout.                                        *)
(***************************************************************************)
EXTENDS Naturals

CONSTANT
    MaxRetries              \* MAX_RETRIES_PER_STATE

ASSUME MaxRetriesAssumption == MaxRetries \in Nat

NoState == "none"

States == {"detecting", "diagnosing", "proposing_remediation",
           "safety_review", "executing", "verifying", "resolved", "closed"}

Terminal == {"resolved", "closed"}

\* STATE_TIMEOUTS has an entry for every state but the terminal ones.
TimedStates == States \ Terminal

Transitions ==
    [ detecting             |-> {"diagnosing"},
      diagnosing            |-> {"proposing_remediation"},
      proposing_remediation |-> {"safety_review"},
      safety_review         |-> {"executing", "proposing_remediation"},
      executing             |-> {"verifying", "proposing_remediation"},
      verifying             |-> {"resolved", "executing"},
      resolved              |-> {"closed"},
      closed                |-> {} ]

FSMs == [state : States \union {NoState}, retries : Nat, late : BOOLEAN]

\* A freshly constructed object; overdue says whether the state_entered_at
\* it was given already lies further back than the timeout of its state.
NewFSM(state, overdue) ==
    [state |-> state, retries |-> 0, late |-> overdue /\ state \in TimedStates]

NoFSM == NewFSM(NoState, FALSE)

CanTransition(fsm, target) ==
    /\ fsm.state # NoState
    /\ target \in Transitions[fsm.state]

\* The effect of transition(target) once can_transition has allowed it.
Moved(fsm, target) == [state |-> target, retries |-> 0, late |-> FALSE]

\* transition(target) under a handler that ignores the ValueError.
TryTransition(fsm, target) ==
    IF CanTransition(fsm, target) THEN Moved(fsm, target) ELSE fsm

\* Mutant of ShouldRetry: the comparison is off by one.
ShouldRetryOnceMore(fsm) == fsm.retries <= MaxRetries

ShouldRetry(fsm) == fsm.retries < MaxRetries

\* Mutant of IncrementRetry: the clock is reset and the retry not counted.
RestartClock(fsm) == [state |-> fsm.state, retries |-> fsm.retries, late |-> FALSE]

IncrementRetry(fsm) ==
    [state |-> fsm.state, retries |-> fsm.retries + 1, late |-> FALSE]

IsTerminal(fsm) == fsm.state \in Terminal
=============================================================================
