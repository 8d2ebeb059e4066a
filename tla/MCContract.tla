----------------------------- MODULE MCContract -----------------------------
(* Instances of Contract for TLC.                                          *)
EXTENDS Contract, TLC

\* The first task, and every other task depending on it.
MCDeps ==
    LET first == CHOOSE t \in Tasks : TRUE
    IN  [t \in Tasks |-> IF t = first THEN {} ELSE {first}]

\* Dispatch ids are random and processes are alike; tasks are not (MCDeps).
MCSymmetry == Permutations(Dispatches) \cup Permutations(Procs)

WorkerCommands == {"done", "message"}
LaunchCommands == {"start", "no_agent", "trust", "dry_run", "dispatch_cancel", "task_cancel"}
CleanupCommands == {"release", "doctor", "hook"}
WatchCommands == {"wait", "nudge"}
OperatorCommands == {"task_update", "task_list"}
RetryCommands == {"start", "no_agent", "done", "dispatch_cancel", "doctor"} \cup OperatorCommands
AllButUpdate == WorkerCommands \cup LaunchCommands \cup CleanupCommands \cup WatchCommands
LaunchAndReport == {"start", "no_agent", "done"}
=============================================================================
