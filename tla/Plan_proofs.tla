---------------------------- MODULE Plan_proofs ----------------------------
(***************************************************************************)
(* Gates, dependencies and launches, for any numbers of tasks, gates and   *)
(* processes.  What a gate promises holds while commands run one after     *)
(* another; module MCPlan shows with TLC what interleaving does to it.     *)
(***************************************************************************)
EXTENDS Plan, TLAPS

Labels == {"idle", "file", "block", "decide", "look", "lift", "launch", "commit"}

\* A gate is of a task that exists, also the one a process is about to write.
GatesOK == \A g \in Gates : gate[g] = NoGate \/ (gate[g].task \in Tasks /\ Exists(gate[g].task))

Held(l, m) ==
    /\ l # "idle" => m.t \in Tasks /\ Exists(m.t)
    /\ l \in {"file", "block", "decide"} => m.g \in Gates /\ m.gate.task = m.t
    /\ l \in {"file", "block"} => m.gate.state = "open"
    /\ l = "decide" => m.gate.state \in {"resolved", "cancelled"}

PlanInv == TypeOK /\ GatesOK /\ \A p \in Procs : Held(pc[p], mem[p])

-----------------------------------------------------------------------------
LEMMA NothingIsTyped == NoTask \in TaskRecord /\ NoGate \in GateRecord /\ NoMemory \in Memory
<1>1. NoTask \in TaskRecord /\ NoGate \in GateRecord
  BY DEF NoTask, NoGate, TaskRecord, GateRecord
<1> QED BY <1>1 DEF NoMemory, Memory

\* The updates of a task, and what the refresh of its readiness leaves alone.
LEMMA TaskUpdates ==
    ASSUME NEW r \in TaskRecord, NEW s \in TaskStates, NEW D \in SUBSET Tasks,
           NEW o \in Outcomes \cup {"cancelled"}
    PROVE  /\ [r EXCEPT !.state = s] \in TaskRecord /\ [r EXCEPT !.state = s].state = s
           /\ [r EXCEPT !.state = s, !.deps = D] \in TaskRecord
           /\ [r EXCEPT !.state = s, !.deps = D].state = s
           /\ [r EXCEPT !.state = s, !.result = o] \in TaskRecord
           /\ [r EXCEPT !.state = s, !.result = o].state = s
           /\ [r EXCEPT !.state = s, !.result = o].result = o
BY DEF TaskRecord

LEMMA ReadinessOnly ==
    ASSUME NEW r \in TaskRecord
    PROVE  /\ Reconciled(r) \in TaskRecord
           /\ Reconciled(r).result = r.result
           /\ Reconciled(r).state \in {"pending", "ready"} <=> r.state \in {"pending", "ready"}
           /\ r.state \notin {"pending", "ready"} => Reconciled(r) = r
<1>1. CASE r.state \in {"pending", "ready"}
  <2>1. PICK s \in {"pending", "ready"} : Reconciled(r) = [r EXCEPT !.state = s]
    BY <1>1 DEF Reconciled
  <2>2. s \in TaskStates
    BY DEF TaskStates
  <2> QED BY <1>1, <2>1, <2>2 DEF TaskRecord
<1>2. CASE r.state \notin {"pending", "ready"}
  BY <1>2 DEF Reconciled
<1> QED BY <1>1, <1>2

LEMMA InitPlan == Init => PlanInv
<1> SUFFICES ASSUME Init PROVE PlanInv
  OBVIOUS
<1>1. TypeOK
  BY NothingIsTyped DEF Init, TypeOK
<1>2. GatesOK /\ \A p \in Procs : Held(pc[p], mem[p])
  BY DEF Init, GatesOK, Held
<1> QED BY <1>1, <1>2 DEF PlanInv

\* A step that keeps the types and the tasks: it remains to say what its process holds.
LEMMA ProcMoves ==
    ASSUME PlanInv, NEW p \in Procs, NEW l \in Labels, NEW m \in Memory, Goto(p, l, m),
           Held(l, m), \A t \in Tasks : Exists(t) => Exists(t)', GatesOK',
           run' = run, live' \in SUBSET Tasks,
           task' \in [Tasks -> TaskRecord], gate' \in [Gates -> GateRecord]
    PROVE  PlanInv'
<1>1. /\ pc' \in [Procs -> Labels] /\ mem' \in [Procs -> Memory]
      /\ pc'[p] = l /\ mem'[p] = m
      /\ \A q \in Procs \ {p} : pc'[q] = pc[q] /\ mem'[q] = mem[q]
  BY DEF PlanInv, TypeOK, Goto, Labels
<1>2. TypeOK'
  BY <1>1 DEF PlanInv, TypeOK, Labels
<1>3. \A q \in Procs : Held(pc[q], mem[q])'
  BY <1>1 DEF PlanInv, Held, Exists
<1> QED BY <1>2, <1>3 DEF PlanInv

\* Where the tasks stay.
LEMMA SetTaskKeeps ==
    ASSUME PlanInv, NEW t \in Tasks, NEW r \in TaskRecord, SetTask(t, r),
           Exists(t) => r.state # "none", gate' = gate
    PROVE  /\ task' \in [Tasks -> TaskRecord] /\ task'[t] = r
           /\ \A u \in Tasks \ {t} : task'[u] = task[u]
           /\ \A u \in Tasks : Exists(u) => Exists(u)'
           /\ GatesOK'
<1>1. /\ task' \in [Tasks -> TaskRecord] /\ task'[t] = r
      /\ \A u \in Tasks \ {t} : task'[u] = task[u]
  BY DEF PlanInv, TypeOK, SetTask
<1>2. \A u \in Tasks : Exists(u) => Exists(u)'
  BY <1>1 DEF Exists
<1> QED BY <1>1, <1>2 DEF PlanInv, GatesOK

LEMMA SetGateKeeps ==
    ASSUME PlanInv, NEW g \in Gates, NEW x \in GateRecord, gate' = [gate EXCEPT ![g] = x],
           x.task \in Tasks, Exists(x.task), task' = task
    PROVE  /\ gate' \in [Gates -> GateRecord] /\ gate'[g] = x
           /\ \A h \in Gates \ {g} : gate'[h] = gate[h]
           /\ GatesOK' /\ \A u \in Tasks : Exists(u) => Exists(u)'
BY DEF PlanInv, TypeOK, GatesOK, Exists

LEMMA ProcKeeps ==
    ASSUME PlanInv, NEW p \in Procs, ProcNext(p)
    PROVE  PlanInv'
<1> DEFINE n == mem[p]
<1> USE DEF At, Begins, Finish
<1>1. /\ n \in Memory /\ Held(pc[p], n) /\ pc[p] \in Labels
      /\ n.task \in TaskRecord /\ n.gate \in GateRecord
      /\ task \in [Tasks -> TaskRecord] /\ gate \in [Gates -> GateRecord]
      /\ live \in SUBSET Tasks /\ GatesOK
  BY DEF PlanInv, TypeOK, Labels, Memory
<1>2. NoMemory \in Memory /\ "idle" \in Labels /\ Held("idle", NoMemory)
  BY NothingIsTyped DEF Labels, Held
<1>3. ASSUME UNCHANGED <<task, gate>> PROVE (\A t \in Tasks : Exists(t) => Exists(t)') /\ GatesOK'
  BY <1>1, <1>3 DEF Exists, GatesOK
<1>4. CASE GateCreate(p)
  <2>1. PICK t \in Tasks, g \in Gates :
            /\ Exists(t)
            /\ Goto(p, "file", [t |-> t, g |-> g, task |-> task[t],
                               gate |-> [NoGate EXCEPT !.state = "open", !.task = t]])
    BY <1>4 DEF GateCreate
  <2> DEFINE m == [t |-> t, g |-> g, task |-> task[t],
                               gate |-> [NoGate EXCEPT !.state = "open", !.task = t]]
  <2>2. /\ [NoGate EXCEPT !.state = "open", !.task = t] \in GateRecord
        /\ m.gate.state = "open" /\ m.gate.task = t
    BY DEF NoGate, GateRecord
  <2>3. m \in Memory
    BY <1>1, <2>2 DEF Memory
  <2>4. UNCHANGED <<run, task, gate, live>>
    BY <1>4 DEF GateCreate
  <2>5. Held("file", m)
    BY <2>1, <2>2, <2>4 DEF Held, Exists
  <2>6. "file" \in Labels
    BY DEF Labels
  <2> HIDE DEF m
  <2> QED BY <1>1, <1>3, <2>1, <2>3, <2>4, <2>5, <2>6, ProcMoves DEF m
<1>5. CASE GateFile(p)
  <2>1. /\ n.g \in Gates /\ n.t \in Tasks /\ Exists(n.t) /\ n.gate.task = n.t
        /\ n.gate.state = "open" /\ pc[p] = "file"
    BY <1>1, <1>5 DEF GateFile, Held
  <2>2. gate' = [gate EXCEPT ![n.g] = n.gate] /\ UNCHANGED <<run, task, live>>
    BY <1>5 DEF GateFile
  <2>3. gate' \in [Gates -> GateRecord] /\ GatesOK' /\ \A u \in Tasks : Exists(u) => Exists(u)'
    BY <1>1, <2>1, <2>2, SetGateKeeps
  <2>4. Held("block", n)
    BY <2>1, <2>2 DEF Held, Exists
  <2>5. Goto(p, "block", n) \/ Goto(p, "idle", NoMemory)
    BY <1>5 DEF GateFile
  <2> QED BY <1>1, <1>2, <2>2, <2>3, <2>4, <2>5, ProcMoves DEF Labels
<1>6. CASE GateBlock(p) \/ GateLift(p) \/ StartTask(p)
  <2>1. PICK s \in {"blocked", "ready", "dispatched"} : SetTask(n.t, [n.task EXCEPT !.state = s])
    BY <1>6 DEF GateBlock, GateLift, StartTask
  <2>2. n.t \in Tasks
    BY <1>1, <1>6 DEF GateBlock, GateLift, StartTask, Held
  <2>3. s \in TaskStates /\ s # "none"
    BY DEF TaskStates
  <2>4. [n.task EXCEPT !.state = s] \in TaskRecord /\ [n.task EXCEPT !.state = s].state = s
    BY <1>1, <2>3 DEF TaskRecord
  <2>5. UNCHANGED <<run, gate, live>> /\ Goto(p, "idle", NoMemory)
    BY <1>6 DEF GateBlock, GateLift, StartTask
  <2>6. /\ task' \in [Tasks -> TaskRecord] /\ GatesOK'
        /\ \A u \in Tasks : Exists(u) => Exists(u)'
    BY <2>1, <2>2, <2>3, <2>4, <2>5, SetTaskKeeps
  <2> QED BY <1>1, <1>2, <2>5, <2>6, ProcMoves
<1>7. CASE GateResolve(p) \/ GateCancel(p)
  <2>1. PICK g \in Gates, s \in {"resolved", "cancelled"}, c \in Choices \cup {None} :
            /\ gate[g] # NoGate
            /\ Goto(p, "decide", [NoMemory EXCEPT !.t = gate[g].task, !.g = g,
                        !.gate = [gate[g] EXCEPT !.state = s, !.choice = c]])
    <3>1. CASE GateResolve(p)
      <4>1. PICK g \in Gates, c \in Choices :
                /\ gate[g].state = "open"
                /\ Goto(p, "decide", [NoMemory EXCEPT !.t = gate[g].task, !.g = g,
                        !.gate = [gate[g] EXCEPT !.state = "resolved", !.choice = c]])
        BY <3>1 DEF GateResolve
      <4>2. gate[g] # NoGate
        BY <4>1 DEF NoGate
      <4> QED BY <4>1, <4>2
    <3>2. CASE GateCancel(p)
      BY <3>2 DEF GateCancel
    <3> QED BY <1>7, <3>1, <3>2
  <2> DEFINE x == [gate[g] EXCEPT !.state = s, !.choice = c]
             m == [NoMemory EXCEPT !.t = gate[g].task, !.g = g, !.gate = x]
  <2>2. gate[g].task \in Tasks /\ Exists(gate[g].task)
    BY <1>1, <2>1 DEF GatesOK
  <2>3. x \in GateRecord /\ x.state = s /\ x.task = gate[g].task
    BY <1>1 DEF GateRecord
  <2>4. UNCHANGED <<run, task, gate, live>>
    BY <1>7 DEF GateResolve, GateCancel
  <2> HIDE DEF x
  <2>5. m \in Memory /\ m.t = gate[g].task /\ m.g = g /\ m.gate = x
    BY <2>2, <2>3, NothingIsTyped DEF Memory, NoMemory
  <2>6. Held("decide", m)
    BY <2>2, <2>3, <2>4, <2>5 DEF Held, Exists
  <2>7. Goto(p, "decide", m) /\ "decide" \in Labels
    BY <2>1 DEF x, Labels
  <2> HIDE DEF m
  <2> QED BY <1>1, <1>3, <2>4, <2>5, <2>6, <2>7, ProcMoves
<1>8. CASE GateDecide(p)
  <2>1. n.g \in Gates /\ n.t \in Tasks /\ Exists(n.t) /\ n.gate.task = n.t
    BY <1>1, <1>8 DEF GateDecide, Held
  <2>2. /\ gate' = [gate EXCEPT ![n.g] = n.gate] /\ UNCHANGED <<run, task, live>>
        /\ Goto(p, "look", n)
    BY <1>8 DEF GateDecide
  <2>3. gate' \in [Gates -> GateRecord] /\ GatesOK' /\ \A u \in Tasks : Exists(u) => Exists(u)'
    BY <1>1, <2>1, <2>2, SetGateKeeps
  <2>4. Held("look", n)
    BY <2>1, <2>2 DEF Held, Exists
  <2> QED BY <1>1, <2>2, <2>3, <2>4, ProcMoves DEF Labels
<1>9. CASE GateLook(p)
  <2> DEFINE m == [n EXCEPT !.task = task[n.t]]
  <2>1. n.t \in Tasks /\ Exists(n.t)
    BY <1>1, <1>9 DEF GateLook, Held
  <2>2. m \in Memory /\ m.t = n.t
    BY <1>1, <2>1 DEF Memory
  <2>3. UNCHANGED <<run, task, gate, live>>
    BY <1>9 DEF GateLook
  <2>4. Goto(p, "lift", m) \/ Goto(p, "idle", NoMemory)
    BY <1>9 DEF GateLook
  <2> HIDE DEF m
  <2>5. Held("lift", m)
    BY <2>1, <2>2, <2>3 DEF Held, Exists
  <2> QED BY <1>1, <1>2, <1>3, <2>2, <2>3, <2>4, <2>5, ProcMoves DEF Labels
<1>10. CASE Start(p)
  <2>1. PICK t \in Tasks :
            /\ Exists(t) /\ SetTask(t, Reconciled(task[t]))
            /\ \/ Goto(p, "idle", NoMemory) /\ UNCHANGED live
               \/ /\ live' = live \ {t}
                  /\ Goto(p, "launch", [NoMemory EXCEPT !.t = t, !.task = Reconciled(task[t])])
    BY <1>10 DEF Start
  <2> DEFINE m == [NoMemory EXCEPT !.t = t, !.task = Reconciled(task[t])]
  <2>2. Reconciled(task[t]) \in TaskRecord /\ Reconciled(task[t]).state # "none"
    BY <1>1, <2>1, ReadinessOnly DEF Exists
  <2>3. m \in Memory /\ m.t = t
    BY <2>2, NothingIsTyped DEF Memory, NoMemory
  <2>4. UNCHANGED <<run, gate>> /\ live' \in SUBSET Tasks
    BY <1>1, <1>10, <2>1 DEF Start
  <2>5. /\ task' \in [Tasks -> TaskRecord] /\ GatesOK'
        /\ \A u \in Tasks : Exists(u) => Exists(u)'
    BY <2>1, <2>2, <2>4, SetTaskKeeps
  <2> HIDE DEF m
  <2>6. Held("launch", m)
    BY <2>1, <2>3, <2>5 DEF Held
  <2>7. Goto(p, "idle", NoMemory) \/ Goto(p, "launch", m)
    BY <2>1 DEF m
  <2> QED BY <1>1, <1>2, <2>3, <2>4, <2>5, <2>6, <2>7, ProcMoves DEF Labels
<1>11. CASE StartFails(p)
  BY <1>1, <1>2, <1>3, <1>11, ProcMoves DEF StartFails
<1>12. CASE StartCommit(p)
  <2>1. n.t \in Tasks /\ Exists(n.t)
    BY <1>1, <1>12 DEF StartCommit, Held
  <2>2. Goto(p, "commit", n) /\ live' = live \cup {n.t} /\ UNCHANGED <<run, task, gate>>
    BY <1>12 DEF StartCommit
  <2>3. Held("commit", n)
    BY <2>1, <2>2 DEF Held, Exists
  <2> QED BY <1>1, <1>3, <2>1, <2>2, <2>3, ProcMoves DEF Labels
<1> QED BY <1>4, <1>5, <1>6, <1>7, <1>8, <1>9, <1>10, <1>11, <1>12 DEF ProcNext

\* The record a command of one step writes.
LEMMA TaskWrites ==
    ASSUME PlanInv, NEW t \in Tasks, TaskNext(t)
    PROVE  \E r \in TaskRecord : SetTask(t, r) /\ (Exists(t) => r.state # "none")
<1>1. task \in [Tasks -> TaskRecord] /\ task[t] \in TaskRecord
  BY DEF PlanInv, TypeOK
<1>2. CASE TaskCreate(t)
  <2>1. PICK deps \in SUBSET Tasks :
            SetTask(t, [NoTask EXCEPT !.state = IF deps = {} THEN "ready" ELSE "pending",
                                      !.deps = deps])
    BY <1>2 DEF TaskCreate
  <2>2. PICK s \in {"ready", "pending"} : SetTask(t, [NoTask EXCEPT !.state = s, !.deps = deps])
    BY <2>1
  <2>3. s \in TaskStates /\ s # "none"
    BY DEF TaskStates
  <2> DEFINE r == [NoTask EXCEPT !.state = s, !.deps = deps]
  <2>4. r \in TaskRecord /\ r.state # "none"
    BY <2>3, NothingIsTyped, TaskUpdates DEF NoTask
  <2>5. SetTask(t, r)
    BY <2>2
  <2> HIDE DEF r
  <2> QED BY <2>4, <2>5
<1>3. CASE TaskUpdate(t)
  <2>1. PICK s \in TaskStates, deps \in SUBSET Tasks :
            SetTask(t, Reconciled([task[t] EXCEPT !.state = s, !.deps = deps]))
    BY <1>3 DEF TaskUpdate
  <2> DEFINE r == [task[t] EXCEPT !.state = s, !.deps = deps]
  <2>2. r \in TaskRecord /\ r.state # "none"
    BY <1>1 DEF TaskRecord, TaskStates
  <2> HIDE DEF r
  <2>3. Reconciled(r) \in TaskRecord /\ Reconciled(r).state # "none"
    BY <2>2, ReadinessOnly
  <2> QED BY <2>1, <2>3 DEF r
<1>4. CASE Refresh(t)
  <2>1. Reconciled(task[t]) \in TaskRecord /\ Reconciled(task[t]).state # "none"
    BY <1>1, <1>4, ReadinessOnly DEF Refresh, Exists
  <2> QED BY <1>4, <2>1 DEF Refresh
<1>5. CASE TaskCancel(t)
  <2> DEFINE r == [task[t] EXCEPT !.state = "cancelled", !.result = "cancelled"]
  <2>1. "cancelled" \in TaskStates
    BY DEF TaskStates
  <2>2. r \in TaskRecord /\ r.state # "none"
    BY <1>1, <2>1 DEF TaskRecord
  <2>3. SetTask(t, r)
    BY <1>5 DEF TaskCancel
  <2> HIDE DEF r
  <2> QED BY <2>2, <2>3
<1>6. CASE Report(t)
  <2>1. PICK o \in Outcomes :
            SetTask(t, [task[t] EXCEPT !.state = OutcomeToTaskState[o], !.result = o])
    BY <1>6 DEF Report
  <2>2. OutcomeToTaskState[o] \in {"completed", "failed", "blocked"}
    BY DEF OutcomeToTaskState, Outcomes
  <2>3. OutcomeToTaskState[o] \in TaskStates /\ OutcomeToTaskState[o] # "none"
    BY <2>2 DEF TaskStates
  <2> DEFINE r == [task[t] EXCEPT !.state = OutcomeToTaskState[o], !.result = o]
  <2>4. r \in TaskRecord /\ r.state # "none"
    BY <1>1, <2>3 DEF TaskRecord
  <2>5. SetTask(t, r)
    BY <2>1
  <2> HIDE DEF r
  <2> QED BY <2>4, <2>5
<1>7. CASE DispatchCancel(t)
  <2> DEFINE s == IF task[t].state = "dispatched" THEN "ready" ELSE task[t].state
             r == [task[t] EXCEPT !.state = s]
  <2>1. task[t].state \in TaskStates \cup {"none"}
    BY <1>1 DEF TaskRecord
  <2>2. s \in TaskStates \cup {"none"} /\ (Exists(t) => s # "none")
    BY <2>1 DEF TaskStates, Exists
  <2>3. SetTask(t, r)
    BY <1>7 DEF DispatchCancel, SetState
  <2> HIDE DEF s
  <2>4. r \in TaskRecord /\ (Exists(t) => r.state # "none")
    BY <1>1, <2>2 DEF TaskRecord
  <2> HIDE DEF r
  <2> QED BY <2>3, <2>4
<1> QED BY <1>2, <1>3, <1>4, <1>5, <1>6, <1>7 DEF TaskNext

LEMMA NextPlan == PlanInv /\ [Next]_vars => PlanInv'
<1> SUFFICES ASSUME PlanInv, [Next]_vars PROVE PlanInv'
  OBVIOUS
<1>1. CASE RunClose
  <2>1. UNCHANGED <<task, gate, live, pc, mem>> /\ run' = "closed"
    BY <1>1 DEF RunClose, Runs
  <2> QED BY <2>1 DEF PlanInv, TypeOK, GatesOK, Held, Exists
<1>2. CASE \E p \in Procs : ProcNext(p)
  BY <1>2, ProcKeeps
<1>3. ASSUME NEW t \in Tasks, TaskNext(t) PROVE PlanInv'
  <2>1. PICK r \in TaskRecord : SetTask(t, r) /\ (Exists(t) => r.state # "none")
    BY <1>3, TaskWrites
  <2>2. UNCHANGED <<run, gate, pc, mem>> /\ live' \in SUBSET Tasks
    BY <1>3 DEF TaskNext, TaskCreate, TaskUpdate, Refresh, TaskCancel, Report, DispatchCancel,
                Runs, PlanInv, TypeOK
  <2>3. /\ task' \in [Tasks -> TaskRecord] /\ GatesOK'
        /\ \A u \in Tasks : Exists(u) => Exists(u)'
    BY <2>1, <2>2, SetTaskKeeps
  <2>4. TypeOK'
    BY <2>2, <2>3 DEF PlanInv, TypeOK
  <2>5. \A p \in Procs : Held(pc[p], mem[p])'
    BY <2>2, <2>3 DEF PlanInv, Held, Exists
  <2> QED BY <2>3, <2>4, <2>5 DEF PlanInv
<1>4. CASE UNCHANGED vars
  BY <1>4 DEF vars, PlanInv, TypeOK, GatesOK, Held, Exists
<1> QED BY <1>1, <1>2, <1>3, <1>4 DEF Next

\* Every file holds what its schema allows, a gate is of a task that exists, and so is what a
\* process is about to write, however commands interleave.
THEOREM PlanInvariant == Spec => []PlanInv
BY InitPlan, NextPlan, PTL DEF Spec

\* The type invariant: every task, gate and run file holds what its schema allows.
THEOREM PlanTyped == Spec => []TypeOK
BY PlanInvariant, PTL DEF PlanInv

-----------------------------------------------------------------------------
(* Commands that run one after another                                     *)

Alone == \A p, q \in Procs : pc[p] # "idle" /\ pc[q] # "idle" => p = q

\* What a process has read is still so.
Now(l, m) ==
    /\ l = "file" => m.task = task[m.t] /\ gate[m.g] = NoGate
    /\ l = "block" => gate[m.g] = m.gate
    /\ l = "decide" => gate[m.g].task = m.t
    /\ l \in {"lift", "launch"} => OpenGates(m.t) = {}
    /\ l = "launch" => run = "open"

AtomInv == PlanInv /\ Alone /\ \A p \in Procs : Now(pc[p], mem[p])

LEMMA InitAtom == Init => AtomInv
<1> SUFFICES ASSUME Init PROVE AtomInv
  OBVIOUS
<1>1. \A p \in Procs : pc[p] = "idle"
  BY DEF Init
<1> QED BY <1>1, InitPlan DEF AtomInv, Alone, Now

\* While a process takes a step, the others wait for their turn.
LEMMA OthersWait ==
    ASSUME Atomic, AtomInv, NEW p \in Procs, ProcNext(p)
    PROVE  /\ \A q \in Procs \ {p} : pc[q] = "idle" /\ pc'[q] = pc[q] /\ mem'[q] = mem[q]
           /\ pc' \in [Procs -> Labels] /\ mem' \in [Procs -> Memory]
           /\ Alone'
<1>1. pc \in [Procs -> Labels] /\ mem \in [Procs -> Memory]
  BY DEF AtomInv, PlanInv, TypeOK, Labels
<1>2. \A q \in Procs \ {p} : pc[q] = "idle"
  <2>1. Free \/ pc[p] # "idle"
    BY DEF ProcNext, GateCreate, GateFile, GateBlock, GateResolve, GateCancel, GateDecide,
           GateLook, GateLift, Start, StartFails, StartCommit, StartTask, Begins, At
  <2> QED BY <2>1 DEF Free, AtomInv, Alone
<1>3. PICK l \in Labels : \E m : Goto(p, l, m)
  BY DEF ProcNext, GateCreate, GateFile, GateBlock, GateResolve, GateCancel, GateDecide,
         GateLook, GateLift, Start, StartFails, StartCommit, StartTask, Finish, Labels
<1>4. \A q \in Procs \ {p} : pc'[q] = pc[q] /\ mem'[q] = mem[q]
  BY <1>1, <1>3 DEF Goto
<1>5. PlanInv'
  BY ProcKeeps DEF AtomInv
<1> QED BY <1>2, <1>4, <1>5 DEF Alone, PlanInv, TypeOK, Labels

LEMMA NowHolds ==
    ASSUME Atomic, AtomInv, NEW p \in Procs, ProcNext(p)
    PROVE  Now(pc[p], mem[p])'
<1> DEFINE n == mem[p]
<1> USE DEF At, Begins, Finish
<1>1. /\ n \in Memory /\ Held(pc[p], n) /\ Now(pc[p], n)
      /\ n.task \in TaskRecord /\ n.gate \in GateRecord
      /\ task \in [Tasks -> TaskRecord] /\ gate \in [Gates -> GateRecord] /\ GatesOK
  BY DEF AtomInv, PlanInv, TypeOK, Memory
<1>2. \A l, m : Goto(p, l, m) => pc'[p] = l /\ mem'[p] = m
  BY DEF Goto, AtomInv, PlanInv, TypeOK
<1>3. CASE GateCreate(p)
  <2>1. PICK t \in Tasks, g \in Gates :
            /\ gate[g] = NoGate
            /\ Goto(p, "file", [t |-> t, g |-> g, task |-> task[t],
                               gate |-> [NoGate EXCEPT !.state = "open", !.task = t]])
    BY <1>3 DEF GateCreate
  <2>2. UNCHANGED <<task, gate>>
    BY <1>3 DEF GateCreate
  <2> QED BY <1>2, <2>1, <2>2 DEF Now
<1>4. CASE GateFile(p)
  <2>1. gate'[n.g] = n.gate
    BY <1>1, <1>4 DEF GateFile, Held
  <2>2. Goto(p, "block", n) \/ Goto(p, "idle", NoMemory)
    BY <1>4 DEF GateFile
  <2> QED BY <1>2, <2>1, <2>2 DEF Now
<1>5. CASE GateResolve(p) \/ GateCancel(p)
  <2>1. PICK g \in Gates : \E x :
            Goto(p, "decide", [NoMemory EXCEPT !.t = gate[g].task, !.g = g, !.gate = x])
    BY <1>5 DEF GateResolve, GateCancel
  <2>2. UNCHANGED gate
    BY <1>5 DEF GateResolve, GateCancel
  <2>3. PICK x : Goto(p, "decide", [NoMemory EXCEPT !.t = gate[g].task, !.g = g, !.gate = x])
    BY <2>1
  <2> DEFINE m == [NoMemory EXCEPT !.t = gate[g].task, !.g = g, !.gate = x]
  <2>4. m.t = gate[g].task /\ m.g = g
    BY DEF NoMemory
  <2>5. Goto(p, "decide", m)
    BY <2>3
  <2> HIDE DEF m
  <2>6. pc'[p] = "decide" /\ mem'[p] = m
    BY <1>2, <2>5
  <2> QED BY <2>2, <2>4, <2>6 DEF Now
<1>6. CASE GateLook(p)
  <2> DEFINE m == [n EXCEPT !.task = task[n.t]]
  <2>1. m.t = n.t
    BY <1>1 DEF Memory
  <2>2. Goto(p, "idle", NoMemory) \/ (Goto(p, "lift", m) /\ OpenGates(n.t) = {})
    BY <1>6 DEF GateLook
  <2>3. UNCHANGED gate
    BY <1>6 DEF GateLook
  <2> HIDE DEF m
  <2> QED BY <1>2, <2>1, <2>2, <2>3 DEF Now, OpenGates
<1>7. CASE Start(p)
  <2>1. PICK t \in Tasks : \E r :
            \/ Goto(p, "idle", NoMemory)
            \/ MayStart(t) /\ Goto(p, "launch", [NoMemory EXCEPT !.t = t, !.task = r])
    BY <1>7 DEF Start
  <2>2. UNCHANGED <<run, gate>>
    BY <1>7 DEF Start
  <2>3. PICK r : \/ Goto(p, "idle", NoMemory)
                 \/ MayStart(t) /\ Goto(p, "launch", [NoMemory EXCEPT !.t = t, !.task = r])
    BY <2>1
  <2> DEFINE m == [NoMemory EXCEPT !.t = t, !.task = r]
  <2>4. m.t = t
    BY DEF NoMemory
  <2>5. Goto(p, "idle", NoMemory) \/ (MayStart(t) /\ Goto(p, "launch", m))
    BY <2>3
  <2> HIDE DEF m
  <2>6. pc'[p] = "idle" \/ (MayStart(t) /\ pc'[p] = "launch" /\ mem'[p] = m)
    BY <1>2, <2>5
  <2> QED BY <2>2, <2>4, <2>6 DEF Now, OpenGates, MayStart
<1>8. CASE \/ GateBlock(p) \/ GateDecide(p) \/ GateLift(p)
           \/ StartFails(p) \/ StartCommit(p) \/ StartTask(p)
  <2>1. PICK l \in {"idle", "look", "commit"} : \E m : Goto(p, l, m)
    BY <1>8 DEF GateBlock, GateDecide, GateLift, StartFails, StartCommit, StartTask
  <2> QED BY <1>2, <2>1 DEF Now
<1> QED BY <1>3, <1>4, <1>5, <1>6, <1>7, <1>8 DEF ProcNext

\* Between two commands nobody holds anything.
LEMMA CommandsInTurn ==
    ASSUME Atomic, AtomInv, RunClose \/ \E t \in Tasks : TaskNext(t)
    PROVE  (\A p \in Procs : pc[p] = "idle") /\ UNCHANGED <<pc, mem>>
BY DEF RunClose, TaskNext, TaskCreate, TaskUpdate, Refresh, TaskCancel, Report, DispatchCancel,
       Runs, Free

LEMMA NextAtom == Atomic /\ AtomInv /\ [Next]_vars => AtomInv'
<1> SUFFICES ASSUME Atomic, AtomInv, [Next]_vars PROVE AtomInv'
  OBVIOUS
<1>1. PlanInv'
  BY NextPlan DEF AtomInv
<1>2. CASE RunClose \/ \E t \in Tasks : TaskNext(t)
  BY <1>1, <1>2, CommandsInTurn DEF AtomInv, Alone, Now
<1>3. ASSUME NEW p \in Procs, ProcNext(p) PROVE AtomInv'
  <2>1. Alone' /\ \A q \in Procs \ {p} : pc'[q] = "idle"
    BY <1>3, OthersWait
  <2>2. \A q \in Procs \ {p} : Now(pc[q], mem[q])'
    BY <2>1 DEF Now
  <2> QED BY <1>1, <1>3, <2>1, <2>2, NowHolds DEF AtomInv
<1>4. CASE UNCHANGED vars
  BY <1>1, <1>4 DEF vars, AtomInv, Alone, Now, OpenGates
<1> QED BY <1>2, <1>3, <1>4 DEF Next

\* While commands run one after another, what each has read of the gates, of its task and of
\* the run is still so when it writes.
THEOREM PlanIsCurrent ==
    ASSUME Atomic
    PROVE  Spec => []AtomInv
<1>1. AtomInv /\ [Next]_vars => AtomInv'
  BY NextAtom
<1> QED BY <1>1, InitAtom, PTL DEF Spec

-----------------------------------------------------------------------------
(* What a gate promises                                                    *)

\* An open gate parks its task, but for the moment between the gate's write and the task's.
Waits(t) == task[t].state \notin {"pending", "ready"}
Parked ==
    \A g \in Gates : gate[g].state = "open" =>
        \/ Waits(gate[g].task)
        \/ \E p \in Procs : pc[p] = "block" /\ mem[p].t = gate[g].task

\* A task that is blocked was reported blocked, or has an open gate, or is being freed.
Freed ==
    \A t \in Tasks : task[t].state = "blocked" =>
        \/ task[t].result = "blocked"
        \/ OpenGates(t) # {}
        \/ \E p \in Procs : pc[p] \in {"look", "lift"} /\ mem[p].t = t

\* The steps of a process that write nothing, and what the others write.
LEMMA ProcWrites ==
    ASSUME AtomInv, NEW p \in Procs, ProcNext(p)
    PROVE  \/ /\ UNCHANGED <<task, gate>>
              /\ pc[p] \in {"idle", "launch"} \/ GateLook(p)
           \/ GateFile(p) \/ GateDecide(p) \/ GateBlock(p) \/ GateLift(p) \/ StartTask(p)
           \/ \E t \in Tasks : SetTask(t, Reconciled(task[t])) /\ gate' = gate /\ pc[p] = "idle"
BY DEF ProcNext, GateCreate, GateResolve, GateCancel, GateLook, Start, StartFails, StartCommit,
       Begins, At

LEMMA ProcParks ==
    ASSUME Atomic, AtomInv, Parked, NEW p \in Procs, ProcNext(p)
    PROVE  Parked'
<1> DEFINE n == mem[p]
<1> USE DEF At, Finish, Waits
<1>1. /\ n \in Memory /\ Held(pc[p], n) /\ Now(pc[p], n)
      /\ n.task \in TaskRecord /\ n.gate \in GateRecord
      /\ task \in [Tasks -> TaskRecord] /\ gate \in [Gates -> GateRecord] /\ GatesOK
  BY DEF AtomInv, PlanInv, TypeOK, Memory
<1>2. \A l, m : Goto(p, l, m) => pc'[p] = l /\ mem'[p] = m
  BY DEF Goto, AtomInv, PlanInv, TypeOK
<1>3. \A g \in Gates : gate[g].state = "open" =>
          Waits(gate[g].task) \/ (pc[p] = "block" /\ n.t = gate[g].task)
  BY OthersWait DEF Parked
<1>4. SUFFICES ASSUME NEW g \in Gates, gate'[g].state = "open"
               PROVE  \/ task'[gate'[g].task].state \notin {"pending", "ready"}
                      \/ pc'[p] = "block" /\ mem'[p].t = gate'[g].task
  BY DEF Parked
<1>5. CASE UNCHANGED <<task, gate>> /\ pc[p] # "block"
  BY <1>3, <1>4, <1>5
<1>6. CASE GateFile(p)
  <2>1. /\ n.g \in Gates /\ n.gate.task = n.t /\ n.task = task[n.t] /\ pc[p] = "file"
    BY <1>1, <1>6 DEF GateFile, Held, Now
  <2>2. gate' = [gate EXCEPT ![n.g] = n.gate] /\ task' = task
    BY <1>6 DEF GateFile
  <2>3. CASE g = n.g
    <3>1. gate'[g].task = n.t
      BY <1>1, <2>1, <2>2, <2>3
    <3>2. n.task.state \in {"pending", "ready"} => Goto(p, "block", n)
      BY <1>6 DEF GateFile
    <3> QED BY <1>2, <2>1, <2>2, <3>1, <3>2
  <2>4. CASE g # n.g
    BY <1>1, <1>3, <1>4, <2>1, <2>2, <2>4
  <2> QED BY <2>3, <2>4
<1>7. CASE GateDecide(p)
  <2>1. /\ n.g \in Gates /\ n.gate.state # "open" /\ pc[p] = "decide"
    BY <1>1, <1>7 DEF GateDecide, Held
  <2>2. gate' = [gate EXCEPT ![n.g] = n.gate] /\ task' = task
    BY <1>7 DEF GateDecide
  <2> QED BY <1>1, <1>3, <1>4, <2>1, <2>2
<1>8. CASE GateBlock(p) \/ GateLift(p) \/ StartTask(p)
  <2>1. PICK s \in {"blocked", "ready", "dispatched"} :
            /\ SetTask(n.t, [n.task EXCEPT !.state = s])
            /\ s = "ready" => pc[p] = "lift"
    BY <1>8 DEF GateBlock, GateLift, StartTask
  <2>2. n.t \in Tasks /\ gate' = gate
    BY <1>1, <1>8 DEF GateBlock, GateLift, StartTask, Held
  <2>3. /\ task'[n.t].state = s /\ \A u \in Tasks \ {n.t} : task'[u] = task[u]
    BY <1>1, <2>1, <2>2 DEF SetTask, TaskRecord
  <2>4. gate[g].task \in Tasks
    BY <1>1, <1>4, <2>2 DEF GatesOK, NoGate
  <2>5. s = "ready" => gate[g].task # n.t
    BY <1>1, <1>4, <2>1, <2>2 DEF Now, OpenGates
  <2> QED BY <1>3, <1>4, <2>2, <2>3, <2>4, <2>5
<1>9. ASSUME NEW t \in Tasks, SetTask(t, Reconciled(task[t])), gate' = gate, pc[p] = "idle"
      PROVE  task'[gate'[g].task].state \notin {"pending", "ready"}
  <2>1. /\ task'[t] = Reconciled(task[t]) /\ \A u \in Tasks \ {t} : task'[u] = task[u]
    BY <1>1, <1>9 DEF SetTask
  <2>2. gate[g].task \in Tasks /\ Waits(gate[g].task)
    BY <1>1, <1>3, <1>4, <1>9 DEF GatesOK, NoGate
  <2> QED BY <1>1, <1>9, <2>1, <2>2, ReadinessOnly
<1>10. GateLook(p) => pc[p] # "block"
  BY DEF GateLook
<1> QED BY <1>5, <1>6, <1>7, <1>8, <1>9, <1>10, ProcWrites

LEMMA TaskParks ==
    ASSUME Atomic, Commands \cap {"update", "dispatch_cancel"} = {}, AtomInv, Parked,
           NEW t \in Tasks, TaskNext(t)
    PROVE  Parked'
<1> USE DEF Waits
<1>1. task \in [Tasks -> TaskRecord] /\ GatesOK
  BY DEF AtomInv, PlanInv, TypeOK
<1>2. gate' = gate
  BY DEF TaskNext, TaskCreate, TaskUpdate, Refresh, TaskCancel, Report, DispatchCancel
<1>3. \A g \in Gates : gate[g].state = "open" =>
          gate[g].task \in Tasks /\ Exists(gate[g].task) /\ Waits(gate[g].task)
  BY <1>1, CommandsInTurn DEF Parked, GatesOK, NoGate
<1>4. SUFFICES ASSUME Exists(t), Waits(t) PROVE task'[t].state \notin {"pending", "ready"}
  <2>1. PICK r : SetTask(t, r)
    BY TaskWrites DEF AtomInv
  <2>2. \A u \in Tasks \ {t} : task'[u] = task[u]
    BY <1>1, <2>1 DEF SetTask
  <2> QED BY <1>2, <1>3, <1>4, <2>2 DEF Parked
<1>5. CASE Refresh(t)
  BY <1>1, <1>4, <1>5, ReadinessOnly DEF Refresh, SetTask
<1>6. CASE TaskCancel(t)
  BY <1>1, <1>6, TaskUpdates DEF TaskCancel, SetTask, TaskRecord
<1>7. CASE Report(t)
  <2>1. PICK o \in Outcomes :
            SetTask(t, [task[t] EXCEPT !.state = OutcomeToTaskState[o], !.result = o])
    BY <1>7 DEF Report
  <2>2. OutcomeToTaskState[o] \in {"completed", "failed", "blocked"}
    BY DEF OutcomeToTaskState, Outcomes
  <2> QED BY <1>1, <2>1, <2>2 DEF SetTask, TaskRecord
<1>8. ~TaskCreate(t) /\ ~TaskUpdate(t) /\ ~DispatchCancel(t)
  BY <1>4 DEF TaskCreate, TaskUpdate, DispatchCancel, Runs
<1> QED BY <1>5, <1>6, <1>7, <1>8 DEF TaskNext

\* An undecided task is parked, while task update and dispatch cancel, which move it by hand,
\* are not used: between two commands, the task of an open gate is neither pending nor ready.
THEOREM GateParksItsTask ==
    ASSUME Atomic, Commands \cap {"update", "dispatch_cancel"} = {}
    PROVE  Spec => []ParkedWhileGated
<1>1. Init => Parked
  BY DEF Init, Parked, NoGate
<1>2. AtomInv /\ Parked /\ [Next]_vars => Parked'
  <2> SUFFICES ASSUME AtomInv, Parked, [Next]_vars PROVE Parked'
    OBVIOUS
  <2>1. CASE RunClose \/ UNCHANGED vars
    BY <2>1, CommandsInTurn DEF RunClose, vars, Parked, Waits
  <2> QED BY <2>1, ProcParks, TaskParks DEF Next
<1>3. Parked => ParkedWhileGated
  BY DEF Parked, ParkedWhileGated, Waits, Quiescent
<1> QED BY <1>1, <1>2, <1>3, PlanIsCurrent, PTL DEF Spec

LEMMA ProcFrees ==
    ASSUME Atomic, AtomInv, Freed, NEW p \in Procs, ProcNext(p)
    PROVE  Freed'
<1> DEFINE n == mem[p]
<1> USE DEF At, Finish
<1>1. /\ n \in Memory /\ Held(pc[p], n) /\ Now(pc[p], n)
      /\ n.task \in TaskRecord /\ n.gate \in GateRecord
      /\ task \in [Tasks -> TaskRecord] /\ gate \in [Gates -> GateRecord]
  BY DEF AtomInv, PlanInv, TypeOK, Memory
<1>2. \A l, m : Goto(p, l, m) => pc'[p] = l /\ mem'[p] = m
  BY DEF Goto, AtomInv, PlanInv, TypeOK
<1>3. \A t \in Tasks : task[t].state = "blocked" =>
          \/ task[t].result = "blocked" \/ OpenGates(t) # {}
          \/ pc[p] \in {"look", "lift"} /\ n.t = t
  BY OthersWait DEF Freed
<1>4. SUFFICES ASSUME NEW t \in Tasks, task'[t].state = "blocked"
               PROVE  \/ task'[t].result = "blocked" \/ OpenGates(t)' # {}
                      \/ pc'[p] \in {"look", "lift"} /\ mem'[p].t = t
  BY DEF Freed
<1>5. CASE UNCHANGED <<task, gate>> /\ pc[p] \in {"idle", "launch"}
  BY <1>3, <1>4, <1>5 DEF OpenGates
<1>6. CASE GateLook(p)
  <2> DEFINE m == [n EXCEPT !.task = task[n.t]]
  <2>1. m.t = n.t
    BY <1>1 DEF Memory
  <2>2. UNCHANGED <<task, gate>> /\ pc[p] = "look"
    BY <1>6 DEF GateLook
  <2>3. OpenGates(n.t) = {} /\ task[n.t].state = "blocked" => Goto(p, "lift", m)
    BY <1>6 DEF GateLook
  <2> HIDE DEF m
  <2>4. CASE task[t].result = "blocked" \/ OpenGates(t) # {}
    BY <2>2, <2>4 DEF OpenGates
  <2>5. CASE n.t = t /\ OpenGates(t) = {}
    BY <1>2, <1>4, <2>1, <2>2, <2>3, <2>5
  <2> QED BY <1>3, <1>4, <2>2, <2>4, <2>5
<1>7. CASE GateFile(p)
  <2>1. n.g \in Gates /\ n.gate.state = "open" /\ gate[n.g] = NoGate /\ pc[p] = "file"
    BY <1>1, <1>7 DEF GateFile, Held, Now
  <2>2. gate' = [gate EXCEPT ![n.g] = n.gate] /\ task' = task
    BY <1>7 DEF GateFile
  <2>3. OpenGates(t) \subseteq OpenGates(t)'
    BY <1>1, <2>1, <2>2 DEF OpenGates, NoGate
  <2> QED BY <1>3, <1>4, <2>1, <2>2, <2>3
<1>8. CASE GateDecide(p)
  <2>1. n.g \in Gates /\ gate[n.g].task = n.t /\ pc[p] = "decide"
    BY <1>1, <1>8 DEF GateDecide, Held, Now
  <2>2. /\ gate' = [gate EXCEPT ![n.g] = n.gate] /\ task' = task
        /\ pc'[p] = "look" /\ mem'[p] = n
    BY <1>2, <1>8 DEF GateDecide
  <2>3. t # n.t => OpenGates(t) \subseteq OpenGates(t)'
    BY <1>1, <2>1, <2>2 DEF OpenGates
  <2> QED BY <1>3, <1>4, <2>1, <2>2, <2>3
<1>9. CASE GateBlock(p)
  <2>1. /\ n.g \in Gates /\ gate[n.g] = n.gate /\ n.gate.state = "open" /\ n.gate.task = n.t
        /\ n.t \in Tasks /\ pc[p] = "block"
    BY <1>1, <1>9 DEF GateBlock, Held, Now
  <2>2. gate' = gate /\ \A u \in Tasks \ {n.t} : task'[u] = task[u]
    BY <1>1, <1>9 DEF GateBlock, SetTask
  <2>3. OpenGates(n.t) # {}
    BY <2>1 DEF OpenGates
  <2> QED BY <1>3, <1>4, <2>1, <2>2, <2>3 DEF OpenGates
<1>10. CASE GateLift(p) \/ StartTask(p)
  <2>1. PICK s \in {"ready", "dispatched"} : SetTask(n.t, [n.task EXCEPT !.state = s])
    BY <1>10 DEF GateLift, StartTask
  <2>2. n.t \in Tasks /\ gate' = gate /\ pc[p] \in {"lift", "commit"}
    BY <1>1, <1>10 DEF GateLift, StartTask, Held
  <2>3. task'[n.t].state = s /\ \A u \in Tasks \ {n.t} : task'[u] = task[u]
    BY <1>1, <2>1, <2>2 DEF SetTask, TaskRecord
  <2>4. t # n.t
    BY <1>4, <2>3
  <2> QED BY <1>3, <1>4, <2>2, <2>3, <2>4 DEF OpenGates
<1>11. ASSUME NEW u \in Tasks, SetTask(u, Reconciled(task[u])), gate' = gate, pc[p] = "idle"
       PROVE  task'[t].result = "blocked" \/ OpenGates(t)' # {}
  <2>1. task'[t] = task[t]
    <3>1. task'[u] = Reconciled(task[u]) /\ \A v \in Tasks \ {u} : task'[v] = task[v]
      BY <1>1, <1>11 DEF SetTask
    <3>2. t = u => task[u].state \notin {"pending", "ready"}
      BY <1>1, <1>4, <3>1, ReadinessOnly
    <3> QED BY <1>1, <3>1, <3>2, ReadinessOnly
  <2> QED BY <1>3, <1>4, <1>11, <2>1 DEF OpenGates
<1> QED BY <1>5, <1>6, <1>7, <1>8, <1>9, <1>10, <1>11, ProcWrites

LEMMA TaskFrees ==
    ASSUME Atomic, "update" \notin Commands, AtomInv, Freed, NEW t \in Tasks, TaskNext(t)
    PROVE  Freed'
<1>1. task \in [Tasks -> TaskRecord]
  BY DEF AtomInv, PlanInv, TypeOK
<1>2. gate' = gate /\ \A u \in Tasks : OpenGates(u)' = OpenGates(u)
  BY DEF TaskNext, TaskCreate, TaskUpdate, Refresh, TaskCancel, Report, DispatchCancel, OpenGates
<1>3. \A u \in Tasks : task[u].state = "blocked" => task[u].result = "blocked" \/ OpenGates(u) # {}
  BY CommandsInTurn DEF Freed
<1>4. SUFFICES ASSUME task'[t].state = "blocked"
               PROVE  \/ task'[t].result = "blocked"
                      \/ task[t].state = "blocked" /\ task'[t].result = task[t].result
  <2>1. PICK r : SetTask(t, r)
    BY TaskWrites DEF AtomInv
  <2>2. \A u \in Tasks \ {t} : task'[u] = task[u]
    BY <1>1, <2>1 DEF SetTask
  <2> QED BY <1>2, <1>3, <1>4, <2>2 DEF Freed
<1>5. CASE TaskCreate(t)
  <2>1. PICK s \in {"pending", "ready"} :
            \E D : SetTask(t, [NoTask EXCEPT !.state = s, !.deps = D])
    BY <1>5 DEF TaskCreate
  <2> QED BY <1>1, <1>4, <2>1 DEF SetTask, NoTask
<1>6. CASE Refresh(t)
  <2>1. task'[t] = Reconciled(task[t])
    BY <1>1, <1>6 DEF Refresh, SetTask
  <2> QED BY <1>1, <1>4, <2>1, ReadinessOnly
<1>7. CASE TaskCancel(t)
  BY <1>1, <1>4, <1>7 DEF TaskCancel, SetTask, TaskRecord
<1>8. CASE Report(t)
  <2>1. PICK o \in Outcomes :
            SetTask(t, [task[t] EXCEPT !.state = OutcomeToTaskState[o], !.result = o])
    BY <1>8 DEF Report
  <2>2. OutcomeToTaskState[o] = "blocked" => o = "blocked"
    BY DEF OutcomeToTaskState, Outcomes
  <2> QED BY <1>1, <1>4, <2>1, <2>2 DEF SetTask, TaskRecord
<1>9. CASE DispatchCancel(t)
  BY <1>1, <1>4, <1>9 DEF DispatchCancel, SetState, SetTask, TaskRecord
<1>10. ~TaskUpdate(t)
  BY DEF TaskUpdate, Runs
<1> QED BY <1>5, <1>6, <1>7, <1>8, <1>9, <1>10 DEF TaskNext

\* Deciding the last gate frees the task, while task update is not used: between two commands,
\* nothing is blocked but what an open gate or a blocked report holds.
THEOREM DecisionFreesTheTask ==
    ASSUME Atomic, "update" \notin Commands
    PROVE  Spec => []FreedWhenDecided
<1>1. Init => Freed
  BY DEF Init, Freed, NoTask
<1>2. AtomInv /\ Freed /\ [Next]_vars => Freed'
  <2> SUFFICES ASSUME AtomInv, Freed, [Next]_vars PROVE Freed'
    OBVIOUS
  <2>1. CASE RunClose \/ UNCHANGED vars
    BY <2>1, CommandsInTurn DEF RunClose, vars, Freed, OpenGates
  <2> QED BY <2>1, ProcFrees, TaskFrees DEF Next
<1>3. Freed => FreedWhenDecided
  BY DEF Freed, FreedWhenDecided, OpenGates, Quiescent
<1> QED BY <1>1, <1>2, <1>3, PlanIsCurrent, PTL DEF Spec
=============================================================================
