------------------------------ MODULE Contract ------------------------------
(***************************************************************************)
(* The completion contract of cbds: who may settle a task, and when.       *)
(*                                                                         *)
(* Every cbds command is an operating-system process that reads whole JSON *)
(* records from the store, decides, and writes whole records back.  A      *)
(* command is modelled as a sequence of steps; between two steps it keeps  *)
(* in mem[p] the records it read (its snapshot), which is what it later    *)
(* writes.  The constant Grain says where another process may step in:     *)
(*                                                                         *)
(*   "command"  only between commands (how the test-suite runs the CLI);   *)
(*   "file"     between any two file operations (separate processes).      *)
(***************************************************************************)
EXTENDS Naturals, FiniteSets, Lifecycle

CONSTANTS
    Tasks,          \* the tasks of one open run
    Dispatches,     \* the dispatch ids newDispatchId may return (bound)
    Procs,          \* the cbds processes that may run at the same time (bound)
    None,           \* null
    Deps,           \* Deps[t]: the tasks t depends on
    MaxAttempts,    \* max_attempts of every task
    MaxSeq,         \* bound on the message sequence number
    Commands,       \* the commands that are invoked; flags of dispatch start among them
    Grain,          \* where processes interleave
    Faults          \* what may go wrong: "crash", "herdr", "pane"

ASSUME NoneIsNoId == None \notin Tasks \cup Dispatches
ASSUME DepsAreTasks == Deps \in [Tasks -> SUBSET Tasks]
ASSUME BoundsAreNat == MaxAttempts \in Nat /\ MaxSeq \in Nat
ASSUME GrainIsKnown == Grain \in {"command", "file"}

VARIABLES
    task,       \* tasks/<id>.json
    disp,       \* dispatches/<id>.json
    inbox,      \* inbox/*.json: accepted reports and other worker messages
    rejected,   \* inbox/rejected/*.json
    seq,        \* .seq, the last claimed sequence number
    pane,       \* Herdr: the pane a dispatch was given, and what runs in it
    everLive,   \* history: the dispatches the event log has seen dispatched
    pc,         \* pc[p]: where process p is
    mem         \* mem[p]: the arguments and snapshots of process p

store == <<task, disp, inbox, rejected, seq, everLive>>
vars == <<task, disp, inbox, rejected, seq, pane, everLive, pc, mem>>

-----------------------------------------------------------------------------
(* Records                                                                 *)

DispatchStates == {"starting", "dispatched", "settled", "superseded", "abandoned"}

\* "none" is the id no dispatch has been created under yet.
TaskRecord == [state: TaskStates, live: Dispatches \cup {None}, attempts: 0..MaxAttempts]
DispatchRecord == [state: DispatchStates \cup {"none"}, task: Tasks \cup {None}, auth: BOOLEAN,
                   outcome: Outcomes \cup {None}, report: Nat, pane: BOOLEAN,
                   released: BOOLEAN]

MessageTypes == {"report", "question", "heartbeat"}
Message == [seq: Nat, type: MessageTypes, task: Tasks, disp: Dispatches,
            outcome: Outcomes \cup {None}]

\* An escalation is a "question" here: same authority check, same message, no other write.
Reasons == {"dispatch_task_mismatch", "already_settled", "stale_dispatch"}
ASSUME NoneIsNoReason == None \notin Reasons
Rejection == [seq: Nat, task: Tasks, disp: Dispatches, reason: Reasons]

NoDispatch == [state |-> "none", task |-> None, auth |-> FALSE, outcome |-> None,
               report |-> 0, pane |-> FALSE, released |-> FALSE]
NewTask(t) == [state |-> IF Deps[t] = {} THEN "ready" ELSE "pending", live |-> None,
               attempts |-> 0]
NewDispatch(t) == [NoDispatch EXCEPT !.state = "starting", !.task = t, !.auth = TRUE]

Created(d) == disp[d].task # None
Superseded(r) == [r EXCEPT !.state = "superseded", !.auth = FALSE]
Abandoned(r) == [r EXCEPT !.state = "abandoned", !.auth = FALSE]

DepsSatisfied(t) == \A dep \in Deps[t] : task[dep].state = "completed"

\* reconcileTaskReadiness, on a copy r of task t: what the copy becomes.
Reconciled(t, r) ==
    IF r.state \in {"pending", "ready"}
    THEN [r EXCEPT !.state = IF DepsSatisfied(t) THEN "ready" ELSE "pending"]
    ELSE r

\* scanInbox, filtered on a dispatch: every message there has acceptance.accepted.
MessagesOf(d) == {m \in inbox : m.disp = d}

-----------------------------------------------------------------------------
(* Processes                                                               *)

PCs == {"idle", "st_guards", "st_supersede", "st_create", "st_new", "st_pane", "st_pane_ready",
        "st_launch", "st_undelivered", "st_commit", "st_commit_now", "st_task",
        "dn_persist", "dn_dispatch", "dn_task", "ms_write", "dc_save", "dc_task",
        "tc_dispatch", "tc_task", "up_save", "rc_save", "rl_save", "dr_scan", "dr_task",
        "zb_close", "hk_save", "wt_block", "wt_confirm", "wt_abandon", "nd_save"}

YieldPCs == IF Grain = "command" THEN {"idle"} ELSE PCs

MayStep(p) == \A q \in Procs \ {p} : pc[q] \in YieldPCs

\* dispatch start with an agent, with --no-agent, with --dry-run.
StartModes == {"agent", "bare", "dry"}

\* t, d: the task and dispatch a command is about; arg: its outcome, filter or target
\* state; retry, mode: flags of dispatch start; why: the verdict; n: a sequence number;
\* ts, ds: the copies of the task and of the dispatches it has in memory.
Memory == [t: Tasks \cup {None}, d: Dispatches \cup {None},
           arg: Outcomes \cup TaskStates \cup MessageTypes \cup {None},
           retry: Dispatches \cup {None}, mode: StartModes, why: Reasons \cup {None}, n: Nat,
           ts: TaskRecord, ds: [Dispatches -> DispatchRecord]]

NoTask == [state |-> "ready", live |-> None, attempts |-> 0]
Blank == [t |-> None, d |-> None, arg |-> None, retry |-> None, mode |-> "agent",
          why |-> None, n |-> 0, ts |-> NoTask, ds |-> [d \in Dispatches |-> NoDispatch]]

Begins(p, c) == c \in Commands /\ pc[p] = "idle" /\ MayStep(p)
At(p, label) == pc[p] = label /\ MayStep(p)
Goto(p, label, m) == pc' = [pc EXCEPT ![p] = label] /\ mem' = [mem EXCEPT ![p] = m]
Finish(p) == Goto(p, "idle", Blank)

SaveDispatch(d, r) ==
    /\ disp' = [disp EXCEPT ![d] = r]
    /\ everLive' = everLive \cup (IF r.state = "dispatched" THEN {d} ELSE {})
SaveTask(t, r) == task' = [task EXCEPT ![t] = r]

\* Room for one more message once every process about to write one has done so (bound).
HasSeqRoom == seq + Cardinality({q \in Procs : pc[q] \in {"dn_persist", "ms_write"}}) < MaxSeq

-----------------------------------------------------------------------------
(* cbds done, run by the occupant of a pane that holds the identity        *)

\* Mutants: only the two ids are compared; authority and supersession are not looked at; any
\* dispatch that is not live counts as settled.
Verdict_IdsOnly(t, d) == IF disp[d].task # t THEN "dispatch_task_mismatch" ELSE None
Verdict_NoSupersession(t, d) ==
    CASE disp[d].task # t -> "dispatch_task_mismatch"
      [] disp[d].task = t /\ disp[d].state = "settled" -> "already_settled"
      [] OTHER -> None
Verdict_NotLiveIsSettled(t, d) ==
    CASE disp[d].task # t -> "dispatch_task_mismatch"
      [] disp[d].task = t /\ disp[d].state # "dispatched" -> "already_settled"
      [] OTHER -> None

Verdict(t, d) ==
    CASE disp[d].task # t -> "dispatch_task_mismatch"
      [] disp[d].task = t /\ disp[d].state = "settled" -> "already_settled"
      [] /\ disp[d].task = t /\ disp[d].state # "settled"
         /\ \/ ~disp[d].auth
            \/ disp[d].state = "superseded"
            \/ task[t].live \notin {None, d} -> "stale_dispatch"
      [] OTHER -> None

\* The critical section reads both records; it writes nothing, and the lock ends with it.
DoneVerdict(p) ==
    /\ Begins(p, "done") /\ HasSeqRoom
    /\ \E t \in Tasks, d \in Dispatches, o \in Outcomes :
          /\ pane[d] = "working"
          /\ Goto(p, "dn_persist",
                  [Blank EXCEPT !.t = t, !.d = d, !.arg = o, !.why = Verdict(t, d),
                                !.ts = task[t], !.ds[d] = disp[d]])
    /\ UNCHANGED <<store, pane>>

\* Mutant: the report's number is taken from the counter before it is incremented.
DonePersist_StaleSeq(p) ==
    /\ At(p, "dn_persist") /\ mem[p].why = None
    /\ seq' = seq + 1
    /\ inbox' = inbox \cup {[seq |-> seq + 1, type |-> "report", task |-> mem[p].t,
                             disp |-> mem[p].d, outcome |-> mem[p].arg]}
    /\ Goto(p, "dn_dispatch", [mem[p] EXCEPT !.n = seq])
    /\ UNCHANGED <<task, disp, everLive, rejected, pane>>

DonePersist(p) ==
    /\ At(p, "dn_persist")
    /\ seq' = seq + 1
    /\ LET m == mem[p] IN
       \/ /\ m.why = None
          /\ inbox' = inbox \cup {[seq |-> seq + 1, type |-> "report", task |-> m.t,
                                   disp |-> m.d, outcome |-> m.arg]}
          /\ Goto(p, "dn_dispatch", [m EXCEPT !.n = seq + 1])
          /\ UNCHANGED rejected
       \/ /\ m.why # None
          /\ rejected' = rejected \cup {[seq |-> seq + 1, task |-> m.t, disp |-> m.d,
                                         reason |-> m.why]}
          /\ Finish(p)
          /\ UNCHANGED inbox
    /\ UNCHANGED <<task, disp, everLive, pane>>

DoneDispatch(p) ==
    /\ At(p, "dn_dispatch")
    /\ LET m == mem[p] IN
       /\ SaveDispatch(m.d, [m.ds[m.d] EXCEPT !.state = "settled", !.outcome = m.arg,
                                              !.report = m.n, !.auth = FALSE])
       /\ Goto(p, "dn_task", m)
    /\ UNCHANGED <<task, inbox, rejected, seq, pane>>

DoneTask(p) ==
    /\ At(p, "dn_task")
    /\ LET m == mem[p] IN
       SaveTask(m.t, [m.ts EXCEPT !.state = OutcomeToTaskState[m.arg],
                                  !.live = IF m.arg = "succeeded" THEN None ELSE @])
    /\ Finish(p)
    /\ UNCHANGED <<disp, everLive, inbox, rejected, seq, pane>>

-----------------------------------------------------------------------------
(* cbds heartbeat, ask, escalate: selfDispatch, then the message           *)

SelfDispatch(p) ==
    /\ Begins(p, "message") /\ HasSeqRoom
    /\ \E d \in Dispatches, type \in {"heartbeat", "question"} :
          /\ pane[d] = "working"
          /\ Created(d) /\ disp[d].auth /\ disp[d].state # "settled"
          /\ Goto(p, "ms_write", [Blank EXCEPT !.t = disp[d].task, !.d = d, !.arg = type,
                                               !.ds[d] = disp[d]])
    /\ UNCHANGED <<store, pane>>

\* A heartbeat also saves the dispatch it read, with a longer hint trail.
WriteMessage(p) ==
    /\ At(p, "ms_write")
    /\ seq' = seq + 1
    /\ LET m == mem[p] IN
       /\ inbox' = inbox \cup {[seq |-> seq + 1, type |-> m.arg, task |-> m.t,
                                disp |-> m.d, outcome |-> None]}
       /\ IF m.arg = "heartbeat" THEN SaveDispatch(m.d, m.ds[m.d])
                                 ELSE UNCHANGED <<disp, everLive>>
    /\ Finish(p)
    /\ UNCHANGED <<task, rejected, pane>>

-----------------------------------------------------------------------------
(* cbds dispatch start                                                     *)

Start(p) ==
    /\ Begins(p, "start")
    /\ \E t \in Tasks, mode \in StartModes, retry \in {d \in Dispatches : Created(d)} \cup {None} :
          /\ mode = "dry" => "dry_run" \in Commands
          /\ mode = "bare" => "no_agent" \in Commands
          /\ Goto(p, "st_guards", [Blank EXCEPT !.t = t, !.mode = mode, !.retry = retry,
                                                !.ts = task[t]])
    /\ UNCHANGED <<store, pane>>

\* Mutants: dependencies are no guard; a completed task may be retried.
MayStart_Completed(t, r, retry) ==
    /\ DepsSatisfied(t)
    /\ r.attempts < MaxAttempts
    /\ r.state # "cancelled"
    /\ r.state = "dispatched" /\ r.live # None => retry # None
    /\ retry # None => disp[retry].task = t
MayStart_NoDeps(t, r, retry) ==
    /\ r.attempts < MaxAttempts
    /\ r.state \notin TerminalTaskStates
    /\ r.state = "dispatched" /\ r.live # None => retry # None
    /\ retry # None => disp[retry].task = t

MayStart(t, r, retry) ==
    /\ DepsSatisfied(t)
    /\ r.attempts < MaxAttempts
    /\ r.state \notin TerminalTaskStates
    /\ r.state = "dispatched" /\ r.live # None => retry # None
    /\ retry # None => disp[retry].task = t

\* The task is reconciled (and saved if that changed it) before the guards are evaluated.
StartGuards(p) ==
    /\ At(p, "st_guards")
    /\ LET m == mem[p]
           r == Reconciled(m.t, m.ts)
       IN  /\ IF r # m.ts THEN SaveTask(m.t, r) ELSE UNCHANGED task
           /\ \/ /\ MayStart(m.t, r, m.retry)
                 /\ Goto(p, "st_supersede", [m EXCEPT !.ts = r, !.ds = disp])
              \/ /\ ~MayStart(m.t, r, m.retry)
                 /\ Finish(p)
    /\ UNCHANGED <<disp, everLive, inbox, rejected, seq, pane>>

\* Mutants: only --retry-of is superseded; a settled attempt is superseded as well.
ToSupersede_RetryOnly(m) == {d \in Dispatches : d = m.retry /\ m.ds[d].state # "settled"}
ToSupersede_Settled(m) ==
    {d \in Dispatches : d = m.retry \/ (m.ds[d].task = m.t /\ m.ds[d].auth)}

\* --retry-of, then every other unsettled dispatch of the task that has authority.
ToSupersede(m) ==
    {d \in Dispatches : /\ m.ds[d].state # "settled"
                        /\ d = m.retry \/ (m.ds[d].task = m.t /\ m.ds[d].auth)}

StartSupersede(p) ==
    /\ At(p, "st_supersede")
    /\ LET m == mem[p] IN
       /\ disp' = [d \in Dispatches |-> IF d \in ToSupersede(m) THEN Superseded(m.ds[d])
                                                                ELSE disp[d]]
       /\ Goto(p, "st_create", [m EXCEPT !.ds = Blank.ds, !.retry = None])
    /\ UNCHANGED <<task, everLive, inbox, rejected, seq, pane>>

\* An unsupported agent kind is discovered only after the old attempts were superseded.
StartBadKind(p) ==
    /\ At(p, "st_create")
    /\ Finish(p)
    /\ UNCHANGED <<store, pane>>

\* The record exists before the pane, so that its id can go into the pane's environment.
StartCreate(p) ==
    /\ At(p, "st_create")
    /\ LET m == mem[p] IN
       \E d \in Dispatches :
          /\ ~Created(d)
          /\ SaveDispatch(d, NewDispatch(m.t))
          /\ Goto(p, "st_new", [m EXCEPT !.d = d, !.ds[d] = NewDispatch(m.t)])
    /\ UNCHANGED <<task, inbox, rejected, seq, pane>>

\* --dry-run, or no Herdr: the new record is withdrawn; the old attempts stay superseded.
StartWithdrawn(p) ==
    /\ At(p, "st_new")
    /\ SaveDispatch(mem[p].d, Superseded(mem[p].ds[mem[p].d]))
    /\ Finish(p)
    /\ UNCHANGED <<task, inbox, rejected, seq, pane>>

\* --trust reads workCwd before its declaration: the command dies with the record created.
StartTrustFails(p) ==
    /\ At(p, "st_new") /\ "trust" \in Commands /\ mem[p].mode = "agent"
    /\ Finish(p)
    /\ UNCHANGED <<store, pane>>

StartPlacement(p) ==
    /\ At(p, "st_new") /\ mem[p].mode # "dry"
    /\ Goto(p, "st_pane", mem[p])
    /\ UNCHANGED <<store, pane>>

StartPaneFails(p) ==
    /\ At(p, "st_pane") /\ "herdr" \in Faults
    /\ SaveDispatch(mem[p].d, Superseded(mem[p].ds[mem[p].d]))
    /\ Finish(p)
    /\ UNCHANGED <<task, inbox, rejected, seq, pane>>

\* The pane's environment carries the identity; in a bare shell its occupant may use it.
StartPane(p) ==
    /\ At(p, "st_pane")
    /\ pane' = [pane EXCEPT ![mem[p].d] = IF mem[p].mode = "bare" THEN "working" ELSE "open"]
    /\ Goto(p, "st_pane_ready", mem[p])
    /\ UNCHANGED store

StartPaneReady(p) ==
    /\ At(p, "st_pane_ready")
    /\ LET m == [mem[p] EXCEPT !.ds[mem[p].d].pane = TRUE] IN
       /\ SaveDispatch(m.d, m.ds[m.d])
       /\ Goto(p, IF m.mode = "bare" THEN "st_commit_now" ELSE "st_launch", m)
    /\ UNCHANGED <<task, inbox, rejected, seq, pane>>

\* The handler of a failed agent start calls cleanupPane before its declaration, so the
\* command dies there: the record stays as it was saved, and the pane stays open.
StartAgentFails(p) ==
    /\ At(p, "st_launch") /\ "herdr" \in Faults
    /\ Finish(p)
    /\ UNCHANGED <<store, pane>>

\* The prompt is refused, or fails, perhaps after the worker has already received it.
StartUndelivered(p) ==
    /\ At(p, "st_launch") \/ At(p, "st_commit")
    /\ "herdr" \in Faults
    /\ Goto(p, "st_undelivered", mem[p])
    /\ UNCHANGED <<store, pane>>

\* cleanupPane closes the pane, unless told to keep it or the close fails.
StartUndeliveredSave(p) ==
    /\ At(p, "st_undelivered")
    /\ LET d == mem[p].d IN
       /\ pane' \in {pane, [pane EXCEPT ![d] = "gone"]}
       /\ SaveDispatch(d, Abandoned(mem[p].ds[d]))
    /\ Finish(p)
    /\ UNCHANGED <<task, inbox, rejected, seq>>

\* The contract reaches the worker, which may act on it before the prompt call returns.
StartDelivered(p) ==
    /\ At(p, "st_launch") /\ pane[mem[p].d] = "open"
    /\ pane' = [pane EXCEPT ![mem[p].d] = "working"]
    /\ Goto(p, "st_commit", mem[p])
    /\ UNCHANGED store

StartCommit(p) ==
    /\ At(p, "st_commit") \/ At(p, "st_commit_now")
    /\ LET m == mem[p] IN
       /\ SaveDispatch(m.d, [m.ds[m.d] EXCEPT !.state = "dispatched"])
       /\ Goto(p, "st_task", m)
    /\ UNCHANGED <<task, inbox, rejected, seq, pane>>

\* Mutants: the attempt is not counted; the task does not name its live dispatch.
StartTask_Uncounted(p) ==
    /\ At(p, "st_task")
    /\ SaveTask(mem[p].t, [mem[p].ts EXCEPT !.state = "dispatched", !.live = mem[p].d])
    /\ Finish(p)
    /\ UNCHANGED <<disp, everLive, inbox, rejected, seq, pane>>
StartTask_NotLive(p) ==
    /\ At(p, "st_task")
    /\ SaveTask(mem[p].t, [mem[p].ts EXCEPT !.attempts = @ + 1, !.state = "dispatched"])
    /\ Finish(p)
    /\ UNCHANGED <<disp, everLive, inbox, rejected, seq, pane>>

StartTask(p) ==
    /\ At(p, "st_task")
    /\ LET m == mem[p] IN
       SaveTask(m.t, [m.ts EXCEPT !.attempts = @ + 1, !.state = "dispatched", !.live = m.d])
    /\ Finish(p)
    /\ UNCHANGED <<disp, everLive, inbox, rejected, seq, pane>>

-----------------------------------------------------------------------------
(* cbds dispatch cancel                                                    *)

DispatchCancel(p) ==
    /\ Begins(p, "dispatch_cancel")
    /\ \E d \in Dispatches :
          /\ Created(d) /\ disp[d].state # "settled"
          /\ Goto(p, "dc_save", [Blank EXCEPT !.d = d, !.t = disp[d].task, !.ds[d] = disp[d]])
    /\ UNCHANGED <<store, pane>>

\* The write, and the read of the task that follows it.
DispatchCancelSave(p) ==
    /\ At(p, "dc_save")
    /\ LET m == mem[p] IN
       /\ SaveDispatch(m.d, Superseded(m.ds[m.d]))
       /\ IF task[m.t].live = m.d THEN Goto(p, "dc_task", [m EXCEPT !.ts = task[m.t]])
                                  ELSE Finish(p)
    /\ UNCHANGED <<task, inbox, rejected, seq, pane>>

DispatchCancelTask(p) ==
    /\ At(p, "dc_task")
    /\ LET r == mem[p].ts IN
       SaveTask(mem[p].t, [r EXCEPT !.live = None,
                                    !.state = IF @ = "dispatched" THEN "ready" ELSE @])
    /\ Finish(p)
    /\ UNCHANGED <<disp, everLive, inbox, rejected, seq, pane>>

-----------------------------------------------------------------------------
(* cbds task cancel, task update, and the readiness refresh of task list   *)

\* Mutant: a task is cancelled in any state.
TaskCancel_Any(p) ==
    /\ Begins(p, "task_cancel")
    /\ \E t \in Tasks :
          LET m == [Blank EXCEPT !.t = t, !.ts = task[t], !.d = task[t].live] IN
          IF m.d = None THEN Goto(p, "tc_task", m)
                        ELSE Goto(p, "tc_dispatch", [m EXCEPT !.ds[m.d] = disp[m.d]])
    /\ UNCHANGED <<store, pane>>

TaskCancel(p) ==
    /\ Begins(p, "task_cancel")
    /\ \E t \in Tasks :
          /\ CanTransitionTask(task[t].state, "cancelled")
          /\ LET m == [Blank EXCEPT !.t = t, !.ts = task[t], !.d = task[t].live] IN
             IF m.d = None THEN Goto(p, "tc_task", m)
                           ELSE Goto(p, "tc_dispatch", [m EXCEPT !.ds[m.d] = disp[m.d]])
    /\ UNCHANGED <<store, pane>>

TaskCancelDispatch(p) ==
    /\ At(p, "tc_dispatch")
    /\ LET m == mem[p] IN
       /\ IF m.ds[m.d].state = "settled" THEN UNCHANGED <<disp, everLive>>
                                         ELSE SaveDispatch(m.d, Superseded(m.ds[m.d]))
       /\ Goto(p, "tc_task", m)
    /\ UNCHANGED <<task, inbox, rejected, seq, pane>>

TaskCancelTask(p) ==
    /\ At(p, "tc_task")
    /\ SaveTask(mem[p].t, [mem[p].ts EXCEPT !.state = "cancelled", !.live = None])
    /\ Finish(p)
    /\ UNCHANGED <<disp, everLive, inbox, rejected, seq, pane>>

\* With --state, any legal transition but completion; without it, an edit of the task.
TaskUpdate(p) ==
    /\ Begins(p, "task_update")
    /\ \E t \in Tasks, to \in TaskStates :
          /\ to = task[t].state \/ (to # "completed" /\ CanTransitionTask(task[t].state, to))
          /\ Goto(p, "up_save", [Blank EXCEPT !.t = t, !.ts = [task[t] EXCEPT !.state = to]])
    /\ UNCHANGED <<store, pane>>

\* The save, then the readiness refresh of the same copy.
TaskUpdateSave(p) ==
    /\ At(p, "up_save")
    /\ SaveTask(mem[p].t, Reconciled(mem[p].t, mem[p].ts))
    /\ Finish(p)
    /\ UNCHANGED <<disp, everLive, inbox, rejected, seq, pane>>

Readiness(p) ==
    /\ Begins(p, "task_list")
    /\ \E t \in Tasks :
          /\ Reconciled(t, task[t]) # task[t]
          /\ Goto(p, "rc_save", [Blank EXCEPT !.t = t, !.ts = Reconciled(t, task[t])])
    /\ UNCHANGED <<store, pane>>

ReadinessSave(p) ==
    /\ At(p, "rc_save")
    /\ SaveTask(mem[p].t, mem[p].ts)
    /\ Finish(p)
    /\ UNCHANGED <<disp, everLive, inbox, rejected, seq, pane>>

-----------------------------------------------------------------------------
(* cbds release: transcript and pane first, then the record read before    *)

Release(p) ==
    /\ Begins(p, "release")
    /\ \E d \in Dispatches, force \in BOOLEAN :
          /\ Created(d) /\ ~disp[d].released
          /\ disp[d].state = "dispatched" => force
          /\ Goto(p, "rl_save", [Blank EXCEPT !.d = d, !.ds[d] = disp[d]])
    /\ UNCHANGED <<store, pane>>

\* The pane closes unless it is kept, the record has none, or the close fails.
ReleaseSave(p) ==
    /\ At(p, "rl_save")
    /\ LET d == mem[p].d
           r == [mem[p].ds[d] EXCEPT !.released = TRUE]
       IN  /\ \/ UNCHANGED pane
              \/ r.pane /\ pane' = [pane EXCEPT ![d] = "gone"]
           /\ SaveDispatch(d, IF r.state = "settled" THEN r ELSE Abandoned(r))
    /\ Finish(p)
    /\ UNCHANGED <<task, inbox, rejected, seq>>

-----------------------------------------------------------------------------
(* cbds doctor --fix                                                       *)

DoctorOrphan(p) ==
    /\ Begins(p, "doctor")
    /\ \E d \in Dispatches :
          /\ Created(d) /\ disp[d].state = "dispatched" /\ disp[d].pane
          /\ Goto(p, "dr_scan", [Blank EXCEPT !.d = d, !.t = disp[d].task, !.ds[d] = disp[d]])
    /\ UNCHANGED <<store, pane>>

IsOrphan(d) == pane[d] = "gone" /\ MessagesOf(d) = {}

\* Only a dispatch with a dead pane and no message at all is abandoned; then its task is read.
DoctorAbandon(p) ==
    /\ At(p, "dr_scan")
    /\ LET m == mem[p] IN
       /\ IsOrphan(m.d)
       /\ SaveDispatch(m.d, Abandoned(m.ds[m.d]))
       /\ IF task[m.t].live = m.d THEN Goto(p, "dr_task", [m EXCEPT !.ts = task[m.t]])
                                  ELSE Finish(p)
    /\ UNCHANGED <<task, inbox, rejected, seq, pane>>

DoctorTask(p) ==
    /\ At(p, "dr_task")
    /\ LET r == mem[p].ts IN
       SaveTask(mem[p].t, [r EXCEPT !.live = None,
                             !.state = IF r.attempts >= MaxAttempts THEN "failed" ELSE "ready"])
    /\ Finish(p)
    /\ UNCHANGED <<disp, everLive, inbox, rejected, seq, pane>>

DoctorZombie(p) ==
    /\ Begins(p, "doctor")
    /\ \E d \in Dispatches :
          /\ disp[d].state \in {"abandoned", "superseded"}
          /\ disp[d].pane /\ ~disp[d].released
          /\ Goto(p, "zb_close", [Blank EXCEPT !.d = d, !.ds[d] = disp[d]])
    /\ UNCHANGED <<store, pane>>

DoctorClose(p) ==
    /\ At(p, "zb_close")
    /\ LET d == mem[p].d IN
       /\ pane[d] # "gone"
       /\ pane' = [pane EXCEPT ![d] = "gone"]
       /\ SaveDispatch(d, [mem[p].ds[d] EXCEPT !.released = TRUE])
    /\ Finish(p)
    /\ UNCHANGED <<task, inbox, rejected, seq>>

\* Nothing to fix: the pane is alive (or dead, for a zombie), or Herdr could not say.
DoctorSkip(p) ==
    /\ \/ At(p, "dr_scan") /\ (~IsOrphan(mem[p].d) \/ "herdr" \in Faults)
       \/ At(p, "zb_close") /\ (pane[mem[p].d] = "gone" \/ "herdr" \in Faults)
    /\ Finish(p)
    /\ UNCHANGED <<store, pane>>

-----------------------------------------------------------------------------
(* The plugin's pane-closed hook                                           *)

PaneClosedHook(p) ==
    /\ Begins(p, "hook")
    /\ \E d \in Dispatches :
          /\ pane[d] = "gone" /\ disp[d].pane /\ disp[d].state = "dispatched"
          /\ MessagesOf(d) = {}
          /\ Goto(p, "hk_save", [Blank EXCEPT !.d = d, !.ds[d] = disp[d]])
    /\ UNCHANGED <<store, pane>>

PaneClosedSave(p) ==
    /\ At(p, "hk_save")
    /\ SaveDispatch(mem[p].d, Abandoned(mem[p].ds[mem[p].d]))
    /\ Finish(p)
    /\ UNCHANGED <<task, inbox, rejected, seq, pane>>

-----------------------------------------------------------------------------
(* cbds wait --dispatch d, and cbds nudge                                  *)

WaitMatches(m) ==
    \E msg \in MessagesOf(m.d) :
        /\ msg.seq > m.n
        /\ msg.type # "heartbeat"
        /\ msg.type = "report" /\ m.arg # None => msg.outcome = m.arg

\* n is the ack cursor when the wait began: nothing acked, or everything so far.  A wait that
\* finds a match on disk returns at once.
Wait(p) ==
    /\ Begins(p, "wait")
    /\ \E d \in Dispatches, filter \in Outcomes \cup {None}, n \in {0, seq} :
          LET m == [Blank EXCEPT !.d = d, !.arg = filter, !.n = n, !.ds[d] = disp[d]] IN
          /\ disp[d].state = "dispatched" /\ ~WaitMatches(m)
          /\ Goto(p, "wt_block", m)
    /\ UNCHANGED <<store, pane>>

WaitFound(p) ==
    /\ At(p, "wt_block") /\ WaitMatches(mem[p])
    /\ Finish(p)
    /\ UNCHANGED <<store, pane>>

\* At the deadline the dispatch that was pending at the start is saved with one more hint.
\* There is no last scan, so a report may just have arrived.
WaitTimeout(p) ==
    /\ At(p, "wt_block")
    /\ SaveDispatch(mem[p].d, mem[p].ds[mem[p].d])
    /\ Finish(p)
    /\ UNCHANGED <<task, inbox, rejected, seq, pane>>

\* A pane event, then a re-scan that finds nothing: confirm with Herdr.
WaitPaneEvent(p) ==
    /\ At(p, "wt_block") /\ ~WaitMatches(mem[p])
    /\ mem[p].ds[mem[p].d].pane
    /\ Goto(p, "wt_confirm", mem[p])
    /\ UNCHANGED <<store, pane>>

WaitSpurious(p) ==
    /\ At(p, "wt_confirm") /\ pane[mem[p].d] # "gone"
    /\ SaveDispatch(mem[p].d, mem[p].ds[mem[p].d])
    /\ Goto(p, "wt_block", mem[p])
    /\ UNCHANGED <<task, inbox, rejected, seq, pane>>

\* A Herdr call that fails counts as a dead pane.  The record is read afresh.
WaitConfirmed(p) ==
    /\ At(p, "wt_confirm") /\ (pane[mem[p].d] = "gone" \/ "herdr" \in Faults)
    /\ Goto(p, "wt_abandon", [mem[p] EXCEPT !.ds[mem[p].d] = disp[mem[p].d]])
    /\ UNCHANGED <<store, pane>>

WaitAbandon(p) ==
    /\ At(p, "wt_abandon")
    /\ LET r == mem[p].ds[mem[p].d] IN
       SaveDispatch(mem[p].d, IF r.state = "settled" THEN [r EXCEPT !.auth = FALSE]
                                                     ELSE Abandoned(r))
    /\ Finish(p)
    /\ UNCHANGED <<task, inbox, rejected, seq, pane>>

Nudge(p) ==
    /\ Begins(p, "nudge")
    /\ \E d \in Dispatches :
          /\ disp[d].state = "dispatched" /\ disp[d].pane
          /\ Goto(p, "nd_save", [Blank EXCEPT !.d = d, !.ds[d] = disp[d]])
    /\ UNCHANGED <<store, pane>>

NudgeSave(p) ==
    /\ At(p, "nd_save")
    /\ SaveDispatch(mem[p].d, mem[p].ds[mem[p].d])
    /\ Finish(p)
    /\ UNCHANGED <<task, inbox, rejected, seq, pane>>

-----------------------------------------------------------------------------
(* The environment                                                         *)

PaneDies(d) ==
    /\ "pane" \in Faults /\ pane[d] \in {"open", "working"}
    /\ pane' = [pane EXCEPT ![d] = "gone"]
    /\ UNCHANGED <<store, pc, mem>>

Crash(p) ==
    /\ "crash" \in Faults /\ pc[p] # "idle"
    /\ Finish(p)
    /\ UNCHANGED <<store, pane>>

-----------------------------------------------------------------------------
Init ==
    /\ task = [t \in Tasks |-> NewTask(t)]
    /\ disp = [d \in Dispatches |-> NoDispatch]
    /\ inbox = {} /\ rejected = {} /\ seq = 0 /\ everLive = {}
    /\ pane = [d \in Dispatches |-> "none"]
    /\ pc = [p \in Procs |-> "idle"]
    /\ mem = [p \in Procs |-> Blank]

DoneNext(p) == DoneVerdict(p) \/ DonePersist(p) \/ DoneDispatch(p) \/ DoneTask(p)
MessageNext(p) == SelfDispatch(p) \/ WriteMessage(p)
StartNext(p) ==
    \/ Start(p) \/ StartGuards(p) \/ StartSupersede(p) \/ StartBadKind(p)
    \/ StartCreate(p) \/ StartWithdrawn(p) \/ StartTrustFails(p) \/ StartPlacement(p)
    \/ StartPaneFails(p)
    \/ StartPane(p) \/ StartPaneReady(p) \/ StartAgentFails(p) \/ StartUndelivered(p)
    \/ StartUndeliveredSave(p) \/ StartDelivered(p) \/ StartCommit(p) \/ StartTask(p)
CancelNext(p) ==
    \/ DispatchCancel(p) \/ DispatchCancelSave(p) \/ DispatchCancelTask(p)
    \/ TaskCancel(p) \/ TaskCancelDispatch(p) \/ TaskCancelTask(p)
TaskNext(p) == TaskUpdate(p) \/ TaskUpdateSave(p) \/ Readiness(p) \/ ReadinessSave(p)
CleanupNext(p) ==
    \/ Release(p) \/ ReleaseSave(p)
    \/ DoctorOrphan(p) \/ DoctorAbandon(p) \/ DoctorTask(p)
    \/ DoctorZombie(p) \/ DoctorClose(p) \/ DoctorSkip(p)
    \/ PaneClosedHook(p) \/ PaneClosedSave(p)
WaitNext(p) ==
    \/ Wait(p) \/ WaitFound(p) \/ WaitTimeout(p) \/ WaitPaneEvent(p)
    \/ WaitSpurious(p) \/ WaitConfirmed(p) \/ WaitAbandon(p)
    \/ Nudge(p) \/ NudgeSave(p)

ProcNext(p) ==
    \/ DoneNext(p) \/ MessageNext(p) \/ StartNext(p) \/ CancelNext(p)
    \/ TaskNext(p) \/ CleanupNext(p) \/ WaitNext(p) \/ Crash(p)

Next == (\E p \in Procs : ProcNext(p)) \/ (\E d \in Dispatches : PaneDies(d))

Spec == Init /\ [][Next]_vars

-----------------------------------------------------------------------------
(* Properties                                                              *)

\* Every record in the store, and every copy a process holds, has its type.
TypeOK ==
    /\ task \in [Tasks -> TaskRecord]
    /\ disp \in [Dispatches -> DispatchRecord]
    /\ inbox \in SUBSET Message
    /\ rejected \in SUBSET Rejection
    /\ seq \in Nat
    /\ pane \in [Dispatches -> {"none", "open", "working", "gone"}]
    /\ everLive \in SUBSET Dispatches
    /\ pc \in [Procs -> PCs]
    /\ mem \in [Procs -> Memory]

Reports == {m \in inbox : m.type = "report"}
Quiescent == \A p \in Procs : pc[p] = "idle"

\* A dispatch is settled only by an accepted report that is in the inbox: the one its
\* record names, sent for that dispatch, with the outcome the record shows.
SettledHasReport ==
    \A d \in Dispatches : disp[d].state = "settled" =>
        \E m \in Reports : m.seq = disp[d].report /\ m.disp = d /\ m.outcome = disp[d].outcome

\* Nothing but an accepted `succeeded` report, durable in the inbox, moves a task to
\* completed, whatever runs at the same time.
CompletedHasReport ==
    \A t \in Tasks : task[t].state = "completed" =>
        \E m \in Reports : m.task = t /\ m.outcome = "succeeded"

\* A report is turned away as a duplicate only if an earlier report for that dispatch is
\* durable: no worker is told that its first report stands when there is none.
DuplicateHasOriginal ==
    \A x \in rejected : x.reason = "already_settled" =>
        \E m \in Reports : m.disp = x.disp /\ m.seq < x.seq

\* A worker reports exactly once: no dispatch has two accepted reports.
OneReportPerDispatch ==
    \A m1, m2 \in Reports : m1.disp = m2.disp => m1 = m2

\* The first report stands: what a settled dispatch says is never rewritten.
FirstReportStands ==
    [][\A d \in Dispatches : disp[d].state = "settled" =>
          /\ disp'[d].state = "settled"
          /\ disp'[d].outcome = disp[d].outcome
          /\ disp'[d].report = disp[d].report]_disp

\* Once superseded, a dispatch can never settle its task.
SupersededNeverSettles ==
    [][\A d \in Dispatches : disp[d].state = "superseded" =>
          disp'[d].state \notin {"starting", "dispatched", "settled"}]_disp

\* At most one attempt of a task holds the authority to complete it.
OneAuthorityPerTask ==
    \A d1, d2 \in Dispatches :
        disp[d1].auth /\ disp[d2].auth /\ disp[d1].task = disp[d2].task => d1 = d2

\* The abstract promise (module Authority): who holds the authority to complete a task, and
\* how each attempt ends.
Holder(t) == {d \in Dispatches : disp[d].auth /\ disp[d].task = t}
Fate(d) == CASE disp[d].state = "none" -> "unborn"
             [] disp[d].state = "settled" -> disp[d].outcome
             [] OTHER -> IF disp[d].auth THEN "live" ELSE "ended"
Promise == INSTANCE Authority WITH holder <- [t \in Tasks |-> Holder(t)],
                                   fate <- [d \in Dispatches |-> Fate(d)]

\* cbds keeps the promise of module Authority.
KeepsPromise == Promise!Spec

\* When no command runs, a live dispatch that still has authority is the one its task names,
\* so its report will be accepted.
AuthorityMatchesLive ==
    Quiescent => \A d \in Dispatches :
        disp[d].state = "dispatched" /\ disp[d].auth => task[disp[d].task].live = d

\* A task only makes the transitions of the lifecycle table.
LegalTransitions ==
    [][\A t \in Tasks : CanTransitionTask(task[t].state, task'[t].state)]_task

\* The circuit breaker of max_attempts counts every worker, once: when no command runs, a
\* task's attempts are the dispatches of it that were ever live, whether they still are, have
\* settled, or have since been superseded by --retry-of, cancelled, released or given up for
\* dead.  A launch that was withdrawn, or that failed, is not counted.
AttemptsCountWorkers ==
    Quiescent => \A t \in Tasks :
        task[t].attempts = Cardinality({d \in everLive : disp[d].task = t})

\* No attempt is ever counted for a task with a dependency that is not completed.
DepsBeforeWork ==
    \A t \in Tasks : task[t].attempts > 0 => DepsSatisfied(t)

\* Completed is final, and nobody is left who could say otherwise: no retry, repair, edit or
\* crashed launch reopens a completed task, and no attempt holds the authority to report on
\* it, in any step after the one that completed it.
CompletedIsOver ==
    [][\A t \in Tasks : task[t].state = "completed" =>
          task'[t].state = "completed" /\ Holder(t)' = {}]_<<task, disp>>

=============================================================================
