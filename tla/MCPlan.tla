------------------------------- MODULE MCPlan -------------------------------
(* Instances of Plan for TLC.                                              *)
EXTENDS Plan, TLC

MCSymmetry == Permutations(Tasks) \cup Permutations(Gates) \cup Permutations(Procs)
              \cup Permutations(Choices)
Decisions == {"gate_create", "gate_resolve", "gate_cancel"}
PlanAndWork == Decisions \cup {"create", "list", "start", "done", "task_cancel"}
AllCommands == PlanAndWork \cup {"update", "dispatch_cancel", "close", "close_force"}
=============================================================================
