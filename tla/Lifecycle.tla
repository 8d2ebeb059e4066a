----------------------------- MODULE Lifecycle -----------------------------
(* The states of a task, and how it may move between them.                 *)

TaskStates == {"pending", "ready", "dispatched", "completed", "failed", "blocked", "cancelled"}
TerminalTaskStates == {"completed", "cancelled"}

Outcomes == {"succeeded", "failed", "blocked"}
\* Mutants: an outcome used as a state; a blocked report completing the task.
OutcomeToTaskState_Raw == [o \in Outcomes |-> o]
OutcomeToTaskState_BlockedCompletes ==
    [succeeded |-> "completed", failed |-> "failed", blocked |-> "completed"]
OutcomeToTaskState == [succeeded |-> "completed", failed |-> "failed", blocked |-> "blocked"]

TaskTransitions ==
    [pending    |-> {"ready", "cancelled", "blocked"},
     ready      |-> {"pending", "dispatched", "cancelled", "blocked"},
     dispatched |-> {"completed", "failed", "blocked", "cancelled", "ready"},
     failed     |-> {"ready", "dispatched", "cancelled"},
     blocked    |-> {"ready", "pending", "dispatched", "cancelled"},
     completed  |-> {},
     cancelled  |-> {}]

CanTransitionTask(from, to) == from = to \/ to \in TaskTransitions[from]

=============================================================================
