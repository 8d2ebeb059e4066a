-------------------------------- MODULE Plan --------------------------------
(***************************************************************************)
(* What the coordinator has planned: tasks and their dependencies, the     *)
(* decision gates that hold a task back, the run that can be closed; and   *)
(* the launch that must obey all of it.                                    *)
(*                                                                         *)
(* A gate command and a launch read and write one file per step, and keep  *)
(* in mem[p] what they have read.  Every other command is one step here:   *)
(* module Contract has its file operations, and the attempts.              *)
(***************************************************************************)
EXTENDS Lifecycle, FiniteSets

CONSTANTS
    Tasks,          \* the task ids newTaskId may return (bound)
    Gates,          \* the gate ids newGateId may return (bound)
    Choices,        \* the resolutions of a gate
    Procs,          \* the cbds processes that may run at the same time (bound)
    None,
    Commands,       \* the commands that are invoked
    Atomic          \* does a command run to its end before another one starts?

ASSUME NoneIsNoPlanId == None \notin Tasks \cup Gates \cup Choices \cup Outcomes
ASSUME AtomicIsBoolean == Atomic \in BOOLEAN

VARIABLES
    run,        \* run.json: its state
    task,       \* tasks/<id>.json: state, deps and the outcome in result
    gate,       \* gates/<id>.json
    live,       \* the tasks that have a dispatch in state dispatched
    pc, mem     \* where each process is, and what it has read

vars == <<run, task, gate, live, pc, mem>>

TaskRecord == [state : TaskStates \cup {"none"}, deps : SUBSET Tasks,
               result : Outcomes \cup {"cancelled", None}]
GateRecord == [state : {"none", "open", "resolved", "cancelled"},
               task : Tasks \cup {None}, choice : Choices \cup {None}]
Memory == [t : Tasks \cup {None}, g : Gates \cup {None}, task : TaskRecord, gate : GateRecord]
NoTask == [state |-> "none", deps |-> {}, result |-> None]
NoGate == [state |-> "none", task |-> None, choice |-> None]
NoMemory == [t |-> None, g |-> None, task |-> NoTask, gate |-> NoGate]

Init ==
    /\ run = "open"
    /\ task = [t \in Tasks |-> NoTask] /\ gate = [g \in Gates |-> NoGate] /\ live = {}
    /\ pc = [p \in Procs |-> "idle"] /\ mem = [p \in Procs |-> NoMemory]

Exists(t) == task[t].state # "none"
Terminal(t) == task[t].state \in TerminalTaskStates
DepsSatisfied(r) == \A dep \in r.deps : task[dep].state = "completed"

\* reconcileTaskReadiness of the record r.
Reconciled(r) ==
    IF r.state \in {"pending", "ready"}
    THEN [r EXCEPT !.state = IF DepsSatisfied(r) THEN "ready" ELSE "pending"] ELSE r

\* Mutant: gates that have been decided count too.
OpenGates_Any(t) == {g \in Gates : gate[g].task = t}
OpenGates(t) == {g \in Gates : gate[g].task = t /\ gate[g].state = "open"}

At(p, label) == pc[p] = label
Goto(p, label, m) == pc' = [pc EXCEPT ![p] = label] /\ mem' = [mem EXCEPT ![p] = m]
Finish(p) == Goto(p, "idle", NoMemory)
Free == Atomic => \A p \in Procs : pc[p] = "idle"
Begins(p, command) == At(p, "idle") /\ Free /\ command \in Commands
\* A command that is one step.
Runs(command) == Free /\ command \in Commands /\ UNCHANGED <<pc, mem>>

SetTask(t, r) == task' = [task EXCEPT ![t] = r]
SetState(t, s) == SetTask(t, [task[t] EXCEPT !.state = s])

-----------------------------------------------------------------------------
(* Tasks                                                                   *)

\* Mutant: a task may depend on itself.
TaskCreate_Self(t) ==
    /\ Runs("create") /\ run = "open" /\ ~Exists(t)
    /\ \E deps \in SUBSET ({u \in Tasks : Exists(u)} \cup {t}) :
          SetTask(t, [NoTask EXCEPT !.state = IF deps = {} THEN "ready" ELSE "pending",
                                    !.deps = deps])
    /\ UNCHANGED <<run, gate, live>>

\* Dependencies are tasks that exist, in whatever state.
TaskCreate(t) ==
    /\ Runs("create") /\ run = "open" /\ ~Exists(t)
    /\ \E deps \in SUBSET {u \in Tasks : Exists(u)} :
          SetTask(t, [NoTask EXCEPT !.state = IF deps = {} THEN "ready" ELSE "pending",
                                    !.deps = deps])
    /\ UNCHANGED <<run, gate, live>>

\* task update --state and --deps; the record is saved, then refreshed.
TaskUpdate(t) ==
    /\ Runs("update") /\ Exists(t)
    /\ \E s \in TaskStates \ {"completed"}, deps \in SUBSET {u \in Tasks : Exists(u)} :
          /\ CanTransitionTask(task[t].state, s)
          /\ SetTask(t, Reconciled([task[t] EXCEPT !.state = s, !.deps = deps]))
    /\ UNCHANGED <<run, gate, live>>

\* task list, task show, board.
Refresh(t) ==
    /\ Runs("list") /\ Exists(t)
    /\ SetTask(t, Reconciled(task[t]))
    /\ UNCHANGED <<run, gate, live>>

TaskCancel(t) ==
    /\ Runs("task_cancel") /\ Exists(t) /\ CanTransitionTask(task[t].state, "cancelled")
    /\ SetTask(t, [task[t] EXCEPT !.state = "cancelled", !.result = "cancelled"])
    /\ live' = live \ {t}
    /\ UNCHANGED <<run, gate>>

-----------------------------------------------------------------------------
(* Gates                                                                   *)

GateCreate(p) ==
    /\ Begins(p, "gate_create")
    /\ \E t \in Tasks, g \in Gates :
          /\ Exists(t) /\ ~Terminal(t) /\ gate[g] = NoGate /\ \A q \in Procs : mem[q].g # g
          /\ Goto(p, "file", [t |-> t, g |-> g, task |-> task[t],
                              gate |-> [NoGate EXCEPT !.state = "open", !.task = t]])
    /\ UNCHANGED <<run, task, gate, live>>

\* The gate is written; then the task, if it was pending or ready.
GateFile(p) ==
    /\ At(p, "file")
    /\ gate' = [gate EXCEPT ![mem[p].g] = mem[p].gate]
    /\ IF mem[p].task.state \in {"pending", "ready"} THEN Goto(p, "block", mem[p]) ELSE Finish(p)
    /\ UNCHANGED <<run, task, live>>

GateBlock(p) ==
    /\ At(p, "block")
    /\ SetTask(mem[p].t, [mem[p].task EXCEPT !.state = "blocked"])
    /\ Finish(p)
    /\ UNCHANGED <<run, gate, live>>

GateResolve(p) ==
    /\ Begins(p, "gate_resolve")
    /\ \E g \in Gates, c \in Choices :
          /\ gate[g].state = "open"
          /\ Goto(p, "decide", [NoMemory EXCEPT !.t = gate[g].task, !.g = g,
                      !.gate = [gate[g] EXCEPT !.state = "resolved", !.choice = c]])
    /\ UNCHANGED <<run, task, gate, live>>

\* gate cancel does not look at the gate's state.
GateCancel(p) ==
    /\ Begins(p, "gate_cancel")
    /\ \E g \in Gates :
          /\ gate[g] # NoGate
          /\ Goto(p, "decide", [NoMemory EXCEPT !.t = gate[g].task, !.g = g,
                      !.gate = [gate[g] EXCEPT !.state = "cancelled", !.choice = None]])
    /\ UNCHANGED <<run, task, gate, live>>

GateDecide(p) ==
    /\ At(p, "decide")
    /\ gate' = [gate EXCEPT ![mem[p].g] = mem[p].gate]
    /\ Goto(p, "look", mem[p])
    /\ UNCHANGED <<run, task, live>>

\* Mutant: the first decision lifts the block.
GateLook_First(p) ==
    /\ At(p, "look")
    /\ LET r == task[mem[p].t] IN
       IF r.state = "blocked"
       THEN Goto(p, "lift", [mem[p] EXCEPT !.task = r]) ELSE Finish(p)
    /\ UNCHANGED <<run, task, gate, live>>

\* The block is lifted when no gate of the task is open.
GateLook(p) ==
    /\ At(p, "look")
    /\ LET r == task[mem[p].t] IN
       IF OpenGates(mem[p].t) = {} /\ r.state = "blocked"
       THEN Goto(p, "lift", [mem[p] EXCEPT !.task = r]) ELSE Finish(p)
    /\ UNCHANGED <<run, task, gate, live>>

GateLift(p) ==
    /\ At(p, "lift")
    /\ SetTask(mem[p].t, [mem[p].task EXCEPT !.state = "ready"])
    /\ Finish(p)
    /\ UNCHANGED <<run, gate, live>>

-----------------------------------------------------------------------------
(* Launches, reports, and the run                                          *)

MayStart(t) == run = "open" /\ OpenGates(t) = {} /\ DepsSatisfied(task[t]) /\ ~Terminal(t)

\* The readiness is refreshed whether the launch is refused or not.  A live task needs
\* --retry-of, and its worker loses authority.
Start(p) ==
    /\ Begins(p, "start")
    /\ \E t \in Tasks :
          /\ Exists(t)
          /\ SetTask(t, Reconciled(task[t]))
          /\ \/ ~MayStart(t) /\ Finish(p) /\ UNCHANGED live
             \/ /\ MayStart(t) /\ live' = live \ {t}
                /\ Goto(p, "launch", [NoMemory EXCEPT !.t = t, !.task = Reconciled(task[t])])
    /\ UNCHANGED <<run, gate>>

\* Herdr, an agent or the delivery of the prompt failed.
StartFails(p) ==
    /\ At(p, "launch")
    /\ Finish(p)
    /\ UNCHANGED <<run, task, gate, live>>

StartCommit(p) ==
    /\ At(p, "launch")
    /\ live' = live \cup {mem[p].t}
    /\ Goto(p, "commit", mem[p])
    /\ UNCHANGED <<run, task, gate>>

StartTask(p) ==
    /\ At(p, "commit")
    /\ SetTask(mem[p].t, [mem[p].task EXCEPT !.state = "dispatched"])
    /\ Finish(p)
    /\ UNCHANGED <<run, gate, live>>

\* done, by the worker of t.
Report(t) ==
    /\ Runs("done") /\ t \in live
    /\ \E o \in Outcomes :
          SetTask(t, [task[t] EXCEPT !.state = OutcomeToTaskState[o], !.result = o])
    /\ live' = live \ {t}
    /\ UNCHANGED <<run, gate>>

DispatchCancel(t) ==
    /\ Runs("dispatch_cancel") /\ t \in live
    /\ SetState(t, IF task[t].state = "dispatched" THEN "ready" ELSE task[t].state)
    /\ live' = live \ {t}
    /\ UNCHANGED <<run, gate>>

\* Closing a closed run does nothing.
RunClose ==
    /\ run' = "closed"
    /\ (Runs("close") /\ (run = "closed" \/ live = {})) \/ Runs("close_force")
    /\ UNCHANGED <<task, gate, live>>

-----------------------------------------------------------------------------
ProcNext(p) ==
    \/ GateCreate(p) \/ GateFile(p) \/ GateBlock(p)
    \/ GateResolve(p) \/ GateCancel(p) \/ GateDecide(p) \/ GateLook(p) \/ GateLift(p)
    \/ Start(p) \/ StartFails(p) \/ StartCommit(p) \/ StartTask(p)
TaskNext(t) ==
    \/ TaskCreate(t) \/ TaskUpdate(t) \/ Refresh(t) \/ TaskCancel(t)
    \/ Report(t) \/ DispatchCancel(t)

Next == RunClose \/ (\E p \in Procs : ProcNext(p)) \/ (\E t \in Tasks : TaskNext(t))

Spec == Init /\ [][Next]_vars

\* Commands run to their end, the coordinator tries every task again and again, a launch that
\* is tried for ever is delivered, and a worker that is started for ever succeeds.
Launches(p, t) == Start(p) /\ mem'[p].t = t
Succeeds(t) == Report(t) /\ task'[t].state = "completed"
DiligentSpec ==
    /\ Spec
    /\ \A p \in Procs : WF_vars(GateFile(p) \/ GateBlock(p) \/ GateDecide(p) \/ GateLook(p)
                                \/ GateLift(p) \/ StartFails(p) \/ StartCommit(p) \/ StartTask(p))
    /\ \A p \in Procs : SF_vars(GateResolve(p)) /\ SF_vars(StartCommit(p))
    /\ \A p \in Procs, t \in Tasks : SF_vars(Launches(p, t))
    /\ \A t \in Tasks : SF_vars(Succeeds(t))

-----------------------------------------------------------------------------
(* Properties                                                              *)

TypeOK ==
    /\ run \in {"open", "closed"} /\ live \in SUBSET Tasks
    /\ task \in [Tasks -> TaskRecord] /\ gate \in [Gates -> GateRecord]
    /\ pc \in [Procs -> {"idle", "file", "block", "decide", "look", "lift", "launch", "commit"}]
    /\ mem \in [Procs -> Memory]

Quiescent == \A p \in Procs : pc[p] = "idle"

\* An undecided task is parked: while a gate is open its task is neither pending nor ready.
ParkedWhileGated ==
    Quiescent => \A g \in Gates :
        gate[g].state = "open" => task[gate[g].task].state \notin {"pending", "ready"}

\* Deciding the last gate frees the task: nothing stays blocked but what an open gate or a
\* blocked report holds.
FreedWhenDecided ==
    Quiescent => \A t \in Tasks :
        task[t].state = "blocked" =>
            \/ task[t].result = "blocked"
            \/ \E g \in Gates : gate[g].task = t /\ gate[g].state = "open"

\* A plan whose dependencies are not edited completes, however its tasks depend on each other
\* and whatever is decided, unless one of its tasks is cancelled.
PlanCompletes ==
    \A t \in Tasks : Exists(t) ~> \/ task[t].state = "completed"
                                 \/ \E u \in Tasks : task[u].state = "cancelled"

=============================================================================
