# A verification project for cbds

cbds lets a coordinator (an agent or a person) hand tasks to worker agents in Herdr panes and
be sure when they are done: a task is completed by an accepted report, never by a prompt that
reappeared or a pane that closed. There is no daemon. Every `cbds` command is a process that
reads JSON records, decides, and writes JSON records back; many of them run at the same time,
any of them may be killed. The modules in this directory model that program as it is in
`src/`, TLC checks them on small instances, and TLAPS proves the properties that matter most
for every instance.

Paths below are relative to `src/`, so `src/core/store.mjs` is the file
`src/src/core/store.mjs` of the workspace.

## 1. The system

### Components, their state and their operations

| Component | State | Operations | Module |
|---|---|---|---|
| Reports and acceptance (`commands/done.mjs`) | `inbox/*.json`, `inbox/rejected/*.json` | `done`: verdict under the lock, file the report, settle the dispatch, move the task, tell the coordinator | Contract, Inbox |
| Dispatch lifecycle (`commands/dispatch.mjs`, `core/model.mjs`) | `dispatches/<id>.json`: state, authority, report, pane | `dispatch start` (with `--retry-of`, `--pane`, `--trust`, `--dry-run`, bare shell), `dispatch cancel` | Contract, Panes |
| Task lifecycle (`commands/task.mjs`, `core/model.mjs`) | `tasks/<id>.json`: state, live dispatch, attempts | `task create`, `update`, `cancel`, readiness refresh (`list`, `show`, board) | Contract, Plan |
| Decision gates (`commands/gate.mjs`) | `gates/<id>.json` | `gate create`, `resolve`, `cancel` | Plan |
| Runs (`commands/run.mjs`, `core/context.mjs`) | `run.json` | `run create`, `close`, `use` | Plan |
| Worker messages (`commands/messaging.mjs`) | `inbox/`, `outbox/`, one mail cursor per dispatch | `heartbeat`, `ask`, `escalate`, `check`; the coordinator's `reply` and `send` | Contract, Mail |
| Sequence numbers, inbox, ack cursor (`core/inbox.mjs`, `commands/report.mjs`) | `.seq`, `cursor.json` | `claimSeq`, `writeReport`, `scanInbox`, `ackUpTo`, `report ack` | Inbox, StoreLock |
| Waiting (`commands/wait.mjs`, `herdr/events.mjs`) | `waiters/*.json`, memory of the wait | first scan, polls, deadline, pane events, acks | Inbox, Contract |
| Cleanup (`commands/lifecycle.mjs`, `commands/doctor.mjs`, `commands/nudge.mjs`, `plugin/event-pane-closed.mjs`, `plugin/action-release.mjs`, `plugin/startup.mjs`) | the records above, panes, `transcripts/` | `release`, `retain`, `doctor --fix`, the pane-closed hook, `nudge` | Contract, Panes |
| Directory trust (`commands/trust.mjs`) | the configuration files of Claude and Codex, `*.cbds-bak` | `trust`, `trust --check` | Trust |
| Run lock (`core/store.mjs`) | `seq.lock/`, `owner.json` | `withLock`, breaking stale locks, `doctor --break-locks` | StoreLock |
| Labels and placement, Herdr client, preamble, CLI, views | none of the protocol | | not modelled, section 8 |

The components meet in the store only. `done` and the pane-closed hook, `doctor`, `release`
and `wait` all write the dispatch record; `done`, `dispatch start`, the cancels, gates and the
readiness refresh all write the task record; `wait` tells `done` through the registry of
waiters that it need not prompt the coordinator. Herdr is called in between and may take
seconds, fail, or succeed and then fail to say so.

### What is hard

* **Whole records from stale copies.** Every save writes the whole record a process read
  earlier. The lock covers the claim of a number, the ack cursor and the verdict of `done`,
  and nothing that is saved afterwards.
* **Steps that wait.** `dispatch start` holds its copies across a dozen Herdr calls, `wait`
  across its deadline, `nudge` across a prompt: the worker acts in the meantime, often
  because of that very call.
* **Crashes between writes.** A report is durable before the dispatch is settled, the
  dispatch before the task; a cursor advances before the output is printed; a counter is
  emptied before it is written.
* **Numbers and files.** A message's number is claimed in one step and its file appears in
  another, so the order of arrival is not the order of the numbers, but cursors assume it is.
* **Panes have several owners.** The operator's, the one cbds opens for an attempt, and one
  that a later attempt is attached to; each may go at any time, and three commands close panes.
* **Files of others.** `trust` edits in place a file that the agent writes too.
* **Who is listening.** A push is suppressed because somebody waits; that somebody may be
  about to stop, or may be waiting for something else.

`PROJECT.json` lists these as hazards, at their lines, with the properties aimed at each.

### What makes each component correct

* reports: at most one accepted report per dispatch; no settled dispatch, completed task or
  "already settled" rejection without the report that justifies it; the first report stands;
* dispatches: at most one attempt of a task with authority; superseded is for ever; every
  worker that went live is counted; a failed launch can be found and cleaned;
* tasks: terminal states are final; only listed transitions; no work before its dependencies
  and open decisions; the refresh never touches a live task;
* inbox and waiting: numbers are fresh; the cursor swallows nothing; a crash replays; nobody is told twice, and everybody once; a dead worker is noticed;
* panes: cbds closes only what it made, after the transcript, and not the pane of a live
  attempt unless it is told to;
* trust: nothing is trusted unasked; the agent's own settings survive;
* mail: all of it, once; a question that is answered gets its answer;
* lock: one process at a time; a crashed holder does not block the run.

## 2. The modules

| Module | Grain of a step | What it is for |
|---|---|---|
| `Authority` | a change of authority | the abstract promise: who may complete a task |
| `Contract` | chosen by `Grain`: a command or a file operation | tasks, dispatches, reports, every command that writes them |
| `Contract_proofs` | every grain | proofs about `Contract`: types, evidence |
| `Serial_proofs` | a command | proofs about `Contract`: authority, tasks, workers, the refinement of `Authority` |
| `StoreLock` | a file-system call | the run lock and the counter |
| `StoreLock_proofs` | | proofs about `StoreLock` |
| `Inbox` | a file operation | numbers, inbox, cursor, `wait`, waiters, the push of `done` |
| `Inbox_proofs` | | proofs about `Inbox` |
| `Mail` | a file operation | `ask`, `check`, `reply`, `send` and the mail cursor |
| `Mail_proofs` | | proofs about `Mail` |
| `Lifecycle` | | the table of task states, shared by `Contract` and `Plan` |
| `Plan` | a file operation | gates, dependencies, readiness and run state against a launch |
| `Plan_proofs` | | proofs about `Plan` |
| `Panes` | a command; launch, release and repair step by step | what cbds opens and closes in Herdr, and who notices |
| `Panes_proofs` | | proofs about `Panes` |
| `Trust` | a read or write of a file | `trust` on an agent's configuration |
| `Trust_proofs` | | proofs about `Trust` |
| `MC*` | | instances for TLC: symmetry, dependencies, scopes |

### Contract

State: `task`, `disp`, `inbox`, `rejected`, `seq` are the store; `pane` is what Herdr knows;
`pc[p]` and `mem[p]` say where process `p` is in its command and which records it has read.
`everLive` is history: the dispatches that have been saved as dispatched at some time, whatever
became of them since. No action reads it.
A command is a chain of actions named after it (`Start`, `StartGuards`, ..., `StartTask`);
each action reads or writes the store once (the exceptions are listed in section 7), and
what it writes is `mem[p]`, the copy, as in the code. The constant `Grain` decides where
another process may step in:

* `"command"`: only between commands. This is how `test/contract.test.mjs` runs the CLI and
  how a reader of the documents thinks of it.
* `"file"`: between any two file operations. This is what the operating system does.

One module at two grains lets a property be checked where it holds, and the same property
be refuted where it does not: the runs below say which is which. `Faults` adds crashes of a
command between two of its steps, failing Herdr calls and dying panes.

`Authority` is what the README of cbds promises, with no processes: grant, revoke, settle.
`Contract` defines the refinement mapping (`Holder`, `Fate`) and `KeepsPromise` states that
it implements `Authority`.

### StoreLock

`dir` is the lock directory with its owner and age, `counter` is `.seq` (a torn one has been
truncated and not yet written). A process begins for a number (`claimSeq`) or for something
else, tries `mkdir`, and on failure reads the owner, judges, and breaks or tries again.
`disturbed` is history: a holder has crashed or slept. Exclusion and fresh numbers are promised
until then, recovery also afterwards.

### Inbox

`inbox`, `rejected`, `seq` and `cursor` are files, `waiting` is the registry. A worker goes
through `Claim`, `FileMessage`, `Settle`, `Notify`, `Push`; a coordinator process through
`Wait`, `WaitRegister`, `WaitScan`, subscribes to the panes of the live dispatches one by one
(`WaitWatch`), then polls, events and deadline, then `WaitAck` and `WaitReturn`. A pane event
wakes a wait that listens; one that comes while it still subscribes is kept (`vanished`) but
wakes nobody, as in the code. `returned` and `told` are history: what the coordinator has been
shown, and the events that reached a wait while it listened.
`Overlap = FALSE` restricts the workers to claiming and filing one after another, so that
the effect of that race (section 6) can be told apart from the rest; `Scopes` are the sets of
dispatches a wait may be about, `Wants` the types of message. While a wait blocks, its timer may
remind an idle worker (`NudgeLook`, `NudgeSave`).

### Mail

A worker asks (or resumes a question), checks (with `--wait` or `--all`), and is shown mail; the coordinator replies to
a question or sends a follow-up; `acked` is the cursor of each dispatch. `Owner` says in whose
pane a reading process runs; a worker has one process in the run.

### Plan

`task`, `gate` and `run` are files; `live` is the set of tasks with a dispatch in state
`dispatched`. A gate command (`GateCreate`, `GateFile`, `GateBlock`; `GateResolve` or
`GateCancel`, `GateDecide`, `GateLook`, `GateLift`) and a launch (`Start`, `StartCommit` or
`StartFails`, `StartTask`) are chains of steps as in `Contract`; every other command is one step.
`Atomic` lets a command finish before another one starts. `Lifecycle` has the table of
task states and transitions that `Contract` and `Plan` share.

### Panes

`disp` holds the dispatch records with what they say about panes (`pane`, `supervised`,
`released`, `retained`), `pane` what Herdr knows: a pane is unborn, open, or closed by somebody,
and the module remembers by whom. `maker` is the identity in a pane's environment: the commands
of the worker in it are about that dispatch, and in a pane of the operator (`Foreign`) there is
none. `launch[d]` is a `dispatch start`, and `clean` a `release` (`ReleaseReads`, `ReleaseCloses`,
`ReleaseSaves`) or `doctor`'s closing of a pane (`DoctorLists`, `DoctorShuts`, `DoctorSaves`),
between their calls of Herdr, with the copy of the record they read and will save. Every other
command, and the closing of a pane by its user, may fall between any two of these steps: a
launch may commit, and a worker report, while a release is reading the transcript. Each of the
three may crash. `clean.early` is history: the cleanup looked while the launch of that dispatch
was still running. Messages are reduced to what these commands look at: `said`, the dispatches
that have one.

### Trust

`file` and `backup` are a configuration and its copy: the agent's own settings (a version number)
and the directories it trusts, or torn, or missing. A command goes through `Look`, `Read`,
`Backup`, `Truncate`, `Write`, `Verify`, with the text it read in `text[p]`; the agent rewrites
its settings in between (`AgentWrites`). `own`, `reported` and `asked` are history: what the agent
wrote last, what cbds has called trusted, what it was asked for.

## 3. The runs

A passing run states what holds. A violation run states what a document, comment or test of
the repository says, and TLC finds the behaviour of the code that contradicts it; the
`findings` of `PROJECT.json` quote the text. There is one, `two_reports`, which pairs with `serial`:
between the two lies the condition under which the code keeps its word. The other disagreements
are in section 6.

| Run | Module | Verdict | What it shows; *properties* |
|---|---|---|---|
| `serial` | MCContract | holds | One command at a time, all commands but task update, Herdr and pane faults: the contract holds as documented. *TypeOK, OneReportPerDispatch, AuthorityMatchesLive, AttemptsCountWorkers, FirstReportStands, LegalTransitions* |
| `retry` | MCContract | holds | Two dependent tasks and their attempts, retried, cancelled and edited, one command at a time but with crashes inside: authority is granted once and revoked for good, cbds implements module Authority, no task starts before its dependency is completed, and a completed task is over for good. *OneAuthorityPerTask, DepsBeforeWork, KeepsPromise, SupersededNeverSettles, CompletedIsOver* |
| `files` | MCContract | holds | Two processes interleaved at every file operation, with crashes: settlement is never without a durable report. *SettledHasReport, CompletedHasReport, DuplicateHasOriginal* |
| `two_reports` | MCContract | violated | Two concurrent done for one dispatch are both accepted: the lock ends before the settlement. *OneReportPerDispatch* |
| `lock` | MCStoreLock | holds | Two processes claim numbers under the lock while others crash, sleep or break it: exclusion and fresh numbers until a holder is hit, and recovery ever after. *TypeOK, MutualExclusion, NumbersAreFresh, LockRecovers* |
| `inbox` | MCInbox | holds | Two workers and a coordinator that waits on the whole run in rolling windows, with and without acks and reminders, messages filed in the order of their numbers: nothing is acknowledged unread, a death that is told to a wait that listens ends it, and every report arrives. *CursorSkipsNothing, DeathEndsWait, RollingWaitsReceive* |
| `inbox_faults` | MCInbox | holds | One worker and two coordinators with waits of both kinds, for all messages or only for questions, report ack, crashes and a failing Herdr: whatever old cursors they hold, a wait moves the cursor only over what it holds. *TypeOK, AckTakesWhatItHolds* |
| `mail` | MCMail | holds | A worker with questions, replies and follow-ups, among mail of another worker, revoked attempts and crashes: check loses and repeats nothing, and a worker that comes back to its question gets the answer, although check may have read it before. *TypeOK, CheckAcksWhatItPrints, CheckPrintsOnce, AnswerReachesAsker* |
| `plan` | MCPlan | holds | All commands on two tasks, one at a time, runs that are closed and edits included: every record stays one the code knows. What a gate promises is in run gates. *TypeOK* |
| `gates` | MCPlan | holds | Two gates on two tasks with any dependencies that are launched, reported and cancelled: a task is parked while a gate is open and freed when none is, and the plan completes if everybody keeps trying. *ParkedWhileGated, FreedWhenDecided, PlanCompletes* |
| `panes` | MCPanes | holds | Two attempts of a task, in panes cbds opens or in one of the operator's, with failed launches, crashes, panes that go at any time, and a release or doctor that works on an old copy meanwhile: cbds closes only panes it made, after the transcript, and never the pane or the record of a live attempt unless it was forced or looked before the launch was done. *TypeOK, ForeignPanesStay, TranscriptFirst, LiveAttemptsStay* |
| `trust` | MCTrust | holds | Two `cbds trust` and an agent that rewrites its own configuration, interleaved at every read and write, with crashes: no directory is trusted unasked, and what the agent had and cbds reported is in the file or its backup. *TypeOK, OnlyAskedFor, Recoverable* |

### Bounds, and why they are enough

* Two dispatches of one task are a retry; the interesting cases relate an attempt to its
  successor. One dispatch suffices where the property is about one report and its traces.
  `retry` has two tasks, so that the dependency and the retries share the dispatches.
* `MaxSeq` bounds the messages. Two reports of one dispatch are a duplicate, three leave room
  for a heartbeat in between; two messages are an earlier and a later one for a cursor, and
  four a question, its reply, a follow-up and one more.
* Two processes at file grain, one at command grain: a race is between two commands, and the
  command that is raced is the one with the stale copy. The proofs have no such bound.
* `files` leaves out the commands that, at this grain, only repeat what another one does to the
  records (a cancel supersedes as a retry does, the hook abandons as `doctor` does), and
  `--no-agent`, where the occupant of a bare shell may report some steps before a prompted worker
  can; `serial` and `retry` have them. The proofs cover every command at every grain.
* `lock` has two processes and two numbers: one that is hit and one that finds the consequences.
* `inbox` has one waiting process, because its liveness is about one coordinator;
  `inbox_faults` has two, on one worker, because its properties are about two copies of a cursor.
* `mail` has one reading worker and mail for a second one; two workers share nothing but the
  outbox and the counter.
* `panes` has two attempts, one foreign pane and two that cbds can open: a predecessor and its
  successor, each in a pane of its own, in one pane together, or in the operator's. `Kept` lets the
  first one be retained. Its `VIEW` (`MCView`) leaves out what no action and no property can look at
  any more, such as messages of a dispatch that can never be live again.
* `trust` has two commands, two directories and one rewrite by the agent: a command can undo
  another, and a later one meets what a crash left.
* Bounds cut the number of messages and attempts only (guards `seq < MaxSeq`, unused ids in
  `Dispatches` and `PaneIds`, `own < MaxOwn`); a command that needs no new number or id is never blocked by them.
* Symmetry is used over dispatches, processes and workers where ids are random, never
  with a liveness property, and never over tasks that a dependency tells apart.

### Deadlock

Deadlock is checked in every run. A state in which nothing is possible would be one in which
even starting a command is not.

## 4. Fairness

* `StoreLock!FairSpec`: a running command keeps running, and time passes (the directory gets
  old). Nobody is obliged to start a command. The retry loop of `Lock.acquire` sleeps and
  tries again by itself, which is what the code does.
* `Inbox!FairSpec`: a command that has started runs to its end (the operating system runs
  it; each of its waits has a deadline). Nothing forces a worker to send or a coordinator to wait.
  `RollingSpec` adds that the coordinator starts another wait after each one, as the
  documents tell it to (`skills/cbds/SKILL.md`, "rolling windows").
* `Plan!DiligentSpec`: commands end; the coordinator keeps trying each task and keeps deciding
  open gates; a launch tried again and again is delivered, and a worker started again and
  again succeeds in the end. These are assumptions about people and agents, not about cbds:
  the run asks whether cbds could stand in the way of a plan that everyone works on.
* `Mail!PatientSpec`: commands end, and a worker resumes a question it has not got the
  answer to whenever it is idle again and again (strong fairness, since other commands come
  in between). The error message of `ask_timeout` asks for exactly that. `AnswerReachesAsker`
  is about runs in which commands do not go on crashing for ever.

Nothing else is assumed of Herdr, and no fairness of panes, of crashes, or of the operator.

## 5. What is proved

TLAPS checks the eight proof modules from nothing, for every value of the constants that the
named assumptions (`NoneIsNoId`, `DepsAreTasks`, `BoundsAreNat`, `GrainIsKnown`,
`OwnersDiffer`, ...) allow: any number of tasks, dispatches and processes, any commands, any
faults, any grain.

* **`TypeCorrect`** (`Contract_proofs`): `TypeOK` is invariant. It is not inductive: a process
  writes back its copies, and may only do so because it holds them. The strengthening `Typed`
  adds, for each label a process can be at (`Local`), which arguments and copies its memory has:
  a process about to write a task holds the record of a task, one about to commit a launch holds
  a counted attempt that is within `max_attempts`, and so on. There is one lemma per family of
  commands and in it one step per action.
* **`OneAuthority`, `FirstReport`, `SupersededIsOver`, `OneReport`, `PromiseKept`**
  (`Serial_proofs`): what cbds promises while commands run one after another (each assumes
  `Grain = "command"`), for any number of tasks, attempts and retries, failed launches, dead
  panes and crashes; `OneReport` also assumes that no command crashes, since a report filed just
  before a crash has settled nothing and the next `done` files another. The invariant
  `SerialInv` says that one process at a time is inside a command (`Alone`), so that what it
  read is still what it will overwrite (`Fresh`), that a `start` about to create an attempt has
  superseded every other one, and that only a live attempt has authority (`RecordOK`). From it,
  `DispatchMoves` shows that whatever a step does to the dispatches is one of four things:
  attempts of one task end while the others keep their authority (`EndStep`), one attempt
  settles (`SettleStep`), one is born (`BirthStep`), or a launch commits (`CommitStep`). The
  first three are the revocation, the settlement and the grant of `Authority`, the last is a
  stutter, and `PromiseKept` is the proof that `Contract` at this grain implements it. The
  condition is needed: at the grain of files the run `two_reports` refutes
  `OneReportPerDispatch`.
* **`DepsFirst`, `CompletedIsFinal`** (`Serial_proofs`): what a
  command at a time does to tasks, with crashes and edits by the operator. `done`, `doctor` and
  the cancels write back a whole task they read earlier, and most of them do not consult the
  table of transitions, so that a completed task stays completed is not in their guards. The
  invariant `TaskInv` (`TasksFollow`) says for each label what its command may rely on
  (`Aware`): its copy of the task is the task, a `start` goes on only with the dependencies
  satisfied, and a `done` about to write its task has left no attempt of it in authority. The
  rest is that a completed task has no attempt in authority: nobody's report is accepted any
  more, and nothing is left for `doctor` to abandon. `TaskSteps` sums up what each command does
  to its task, and later proofs look at that summary and not at the commands.
* **`LiveIsNamed`, `WorkersCounted`, `TransitionsLegal`** (`Serial_proofs`): the task names its
  live dispatch, which is why the worker's report is accepted; its attempts are as many as its
  dispatches that were ever live (`everLive`, a history), those that were superseded, cancelled or
  given up since included, which is why `max_attempts` bounds them; and it moves along the table. `WorkInv`
  (`WorkersFollow`) relates the two records between the save of the dispatch and the save of the
  task: a live dispatch is named by its task or committed by a launch that is about to say so
  (`NamedOK`), the workers of a task are at most its attempts and the one that is due
  (`CountOK`), a pane that works before its dispatch is live is in the hands of a launch
  (`PaneOK`), so nobody reports before his dispatch is live, and a report or an abandonment
  finds its task dispatched (`PlacedOK`). All three assume that no command crashes: one that
  dies between the two saves leaves a live dispatch that its task neither names nor counts.
  `TransitionsLegal` also leaves out `task update`, see the row `done.mjs:142` in section 6.
* **`SettledByReport`, `CompletedByReport`, `DuplicateRejection`** (`Contract_proofs`): at the
  finest grain and with crashes, a dispatch is settled only by the report its record names, a
  task completed only by an accepted `succeeded` report, and a report turned away as a duplicate
  only after another one was filed. The inductive invariant `Evidence` states the same of every
  copy in every process's memory, since stale copies are written back, and of a `done` in
  flight: its report is in the inbox before it settles anything. The central lemmas say that
  evidence is never lost (`EvidenceGrows`) and that what commands change in a copy never invents
  it (`BackedUpdates`); then a step either leaves the inbox alone (`QuietStep`) or files a
  message (`FilingStep`).
* **`Exclusion`, `FreshNumbers`** (`StoreLock_proofs`), with `LockTyped`, which needs no
  condition: until a holder of the lock crashes or sleeps in it for 30 s, one process at a time
  and every number larger than the ones before, for any number of processes, whatever the
  waiting processes do or suffer and in spite of `doctor --break-locks`. The invariant
  `Undisturbed` says that, until then, `LockInv` holds: the directory exists exactly while one
  process holds it, it never gets old, and the counter is the largest number issued. The
  condition is needed, see section 6.
* **`ForeignStay`, `TranscriptSaved`, `LiveStays`** (`Panes_proofs`), with `PanesTyped`: for
  any number of attempts and panes, with crashes, and with a release or repair overlapped by a
  launch and every other command: cbds closes no pane of the operator; a pane that `release`
  closed has its transcript (assumed: the read of an open pane gives text, `"read" \notin
  Faults`); a dispatch in state `dispatched` is given up only when its pane is gone, and the pane
  made for it is not closed by cbds (assumed: a failing call is not taken for a dead pane,
  `"probe" \notin Faults`), except by `release --force` and by a cleanup that looked before the
  launch was done. The invariant `PanesInv` says why: a supervised record, and each copy a
  command holds, names the pane made for that dispatch (`Owned`), the operator's panes have no
  maker (`Origins`), a launch in progress has not made its dispatch live, and once a launch is
  over no step makes its dispatch live again, so what a cleanup read stays true enough until it
  acts (`Calm`). Each exception and each assumption is needed: TLC refutes the property without
  it. `LiveStays` says nothing of a worker that has its prompt and whose launch has not
  committed, nor of one attached with `--pane` to a pane made for another attempt: both lose
  their pane to an unforced cleanup (rows `lifecycle.mjs:37` and `:78` of section 6).
* **`TrustAsked`, `TrustRecovers`** (`Trust_proofs`), with `TrustTyped`: whatever interleaves,
  crashes or is torn, every directory in the file, the backup and each command's text was asked
  for; and while the file has one user at a time, the agent's settings and the reported
  directories are in the file or the backup (assumed: the copy does not fail, `"backup" \notin
  Faults`). The invariant `RecoverableInv` says which of the two is good at each stage of the
  one command that is running (`Stages`).
* **`AckTakesHeld`, `NothingSkipped`** (`Inbox_proofs`), with `InboxTyped`:
  for any number of workers and of waits at once, each with a cursor it read long ago. That a
  wait acknowledges only what it holds is proved when messages are filed in the order of their
  numbers (`OneFiler`: no overlapping claims, or one worker). The invariant `GapInv` says why: a
  number that is claimed and not filed is the largest (`LastFiled`), so what a wait scanned has
  no gap below its newest message (`NoGap`) and none can appear later. That no report or
  question is swallowed is proved under `Careful`: also no crash, no `report ack`, and waits on
  the whole run and for both types. Section 6 lists what an overlap, a crash or a narrower wait
  does to it; `report ack` moves the cursor as far as its caller says.
* **`DeathIsHeard`** (`Inbox_proofs`): a wait that is told, while it listens, that a worker's pane
  died ends with that or with a message, and never with its deadline, for any number of waits. The
  invariant `MournInv` says that a wait that goes on has looked into no event it was told of: the
  first wakes it, its pane is gone for good, so that a second look cannot deny it, and what it
  then finds ends it. It is proved for waits without `--all` and for a Herdr that does not err;
  with either the property is false, and an event that comes while the wait is still subscribing
  is lost in any case (rows `wait.mjs:181` and `wait.mjs:213` of section 6).
* **`PrintsOnce`, `CheckAcksPrinted`** (`Mail_proofs`), with `MailTyped`: if one command of a
  worker reads at a time (`OneReader`), what was printed is not printed again (`ReadInv`: all
  that was printed is at or below the cursor, and a `check` starts at the cursor); and if one
  coordinator process writes (`OneClerk`), mail is filed in the order of its numbers, so a
  `check` acknowledges nothing it does not print (`OrderInv`).
* **`GateParksItsTask`, `DecisionFreesTheTask`** (`Plan_proofs`), with
  `PlanTyped`, which needs no condition: while commands run one after another (`Atomic`), the
  task of an open gate is parked (if nobody moves it by hand with `task update` or `dispatch cancel`); and a
  blocked task has a reason (if nobody blocks it with `task update`). At most one process is
  inside a command (`Alone`), so what it has read is still so (`Now`). The two gate properties
  speak of the time between commands; `Parked` and `Freed` are their inductive forms, which name
  the process that is about to make them true again.

Only model-checked: the four liveness properties (`LockRecovers`, `RollingWaitsReceive`,
`AnswerReachesAsker`, `PlanCompletes`), which under fairness are out of the prover's reach. Every invariant and every action property that a passing run checks is a theorem.

## 6. What the checks show

The durable part of the contract is sound: whatever interleaves and crashes, nothing but a
filed report settles a dispatch or completes a task, and a command at a time cbds does
what it says, retries, cancels and failed launches included. cbds closes no pane that is not its
own, and loses no settings of an agent it shares a file with in turns. One disagreement with the documents
is a run of its own: in `two_reports` the lock of `done` ends before the settlement
(`commands/done.mjs:106`), so two reports of one dispatch are both accepted.

The modules have more outcomes that some document denies. They are not runs, and the conditions
of the passing runs (a command at a time, no crash, filing in order, a Herdr that answers) exclude them; each can be
seen by stating the sentence as a property of the module with that condition dropped.

| Code | What the model does | What the text says |
|---|---|---|
| `dispatch.mjs:523` | two overlapping launches: the superseded one commits its own copy and is live again, with authority | once superseded, never settles (`model.mjs:239`) |
| `dispatch.mjs:525` | two overlapping launches count one attempt | circuit opens at `max_attempts` (`DESIGN.md:585`) |
| `dispatch.mjs:529` | a worker that reports before the prompt call returns has its completed task written back as dispatched | completed is terminal (`DESIGN.md:192`) |
| `dispatch.mjs:161` | a dry run supersedes the attempt that has authority | a dry run leaves no trace (`dispatch.mjs:263`) |
| `dispatch.mjs:420` | the cleanup of a failed agent start dies of an undeclared name; the record stays in `starting` with its pane open, as after a crash of the launch, and `doctor` looks for `abandoned` and `superseded` only (`doctor.mjs:98`) | `doctor --fix` finds it (`README.md:418`) |
| `lifecycle.mjs:87` | a release whose pane close fails marks the dispatch released all the same, and `doctor` skips released ones (`doctor.mjs:99`): the pane stays | a pane that outlives its attempt is found (`README.md:418`) |
| `done.mjs:142` | a task that was moved by hand is still moved by its worker's report, over an edge that is not listed; `doctor` makes an orphan's cancelled task ready | anything not listed is rejected (`model.mjs:21`) |
| `model.mjs:173` | a readiness refresh writes back a task that was launched since it was read | it cannot race a live worker (`model.mjs:164`) |
| `wait.mjs:238`, `nudge.mjs:56` | a hint or a reminder saves the record read before, over a settled one | hints never change state (`model.mjs:232`) |
| `store.mjs:89` | of two processes that break one stale lock, the second removes the first one's new lock | a live owner is respected (`store.mjs:83`) |
| `inbox.mjs:33` | a crash between truncation and write of `.seq`: the next number is 1 | monotonic (`inbox.mjs:27`) |
| `inbox.mjs:43` | a number is filed after a higher one was acknowledged, and never read | FIFO (`DESIGN.md:242`) |
| `wait.mjs:323` | a crash between ack and output loses what was collected | a crash replays (`DESIGN.md:272`) |
| `wait.mjs:79` | two waits with one copy of the cursor return the same report | no double-processing (`DESIGN.md:582`) |
| `wait.mjs:181` | a pane event that comes while the wait subscribes to the next pane aborts a controller that is replaced before the first look: the death is not looked at, also without `--all`, and as `vanished` keeps the first event only, later ones are masked until something wakes the wait | fail fast, exit 8: the pane died (`wait.mjs:22`, `README.md:380`) |
| `wait.mjs:213` | with `--all`, a report makes the wait forget another pane's death | exit 8 (`DESIGN.md:473`) |
| `done.mjs:173` | a wait past its last scan, or on something else, suppresses the push; one that registers after the look is told twice | it reaches you anyway (`SKILL.md:286`), never twice (`README.md:208`) |
| `messaging.mjs:179` | `ask` moves the cursor past a follow-up nobody has seen | it arrives on the next check (`README.md:323`) |
| `messaging.mjs:52` | two checks of one worker print the same mail | nothing is delivered twice (`messaging.mjs:48`) |
| `gate.mjs:155` | the decided gate of a pending task leaves it ready | unmet deps are pending (`SKILL.md:421`) |
| `gate.mjs:137` | two overlapping resolutions of a gate both succeed | cannot be resolved again (`contract.test.mjs:675`) |
| `inbox.mjs:157` | the cursor is one number for a run: a wait on one dispatch, or on questions, acknowledges the unread report of another (`inbox` with the scopes `{{d1}}`, `{{d2}}`) | consumed in FIFO order, a crash replays (`DESIGN.md:48`) |
| `dispatch.mjs:123` | gates are looked at once, before a launch, which commits over a gate opened since (`plan` with `Atomic = FALSE`) | an open gate makes its task undispatchable (`gate.mjs:18`) |
| `wait.mjs:290` | a Herdr call that fails is taken for a dead pane: a live worker is given up | exit 8: the pane died (`README.md:380`) |
| `lifecycle.mjs:63` | if both reads fail or give nothing, the pane is closed without a transcript | transcript before closing anything (`SKILL.md:396`) |
| `lifecycle.mjs:37` | a dispatch that is still starting can be released without `--force`: the guard is passed before four calls of Herdr, the launch prompts its worker or commits in between, and the pane of a live attempt is closed and its record saved as abandoned (`lifecycle.mjs:85`, `:119`) | only a settled dispatch (`lifecycle.mjs:13`, `DESIGN.md:49`) |
| `doctor.mjs:113` | a launch that was cancelled or given up while it ran is listed as dead; if it commits before the close, `doctor` closes the pane of a live attempt and saves its old copy | only a dead dispatch (`doctor.mjs:93`) |
| `doctor.mjs:99` | the pane of a retained dispatch is closed when the attempt is superseded | kept for debugging (`SKILL.md:392`) |
| `doctor.mjs:131` | one heartbeat counts as a report: the dispatch of a worker that died after it stays live for `doctor` and the hook | dead panes are reconciled (`README.md:425`) |
| `lifecycle.mjs:78` | a pane made for one attempt is closed by its release, or by `doctor`, under a later attempt attached to it with `--pane` | only the pane owned by a settled dispatch (`DESIGN.md:49`) |
| `dispatch.mjs:347` | a worker attached with `--pane` has no identity in its environment, or that of an earlier attempt | the ids come from your environment (`SKILL.md:515`) |
| `doctor.mjs:150` | at Herdr's start `doctor --fix` also closes panes and moves tasks | only ever marks a dispatch abandoned (`startup.mjs:6`) |
| `trust.mjs:117` | a backup that fails is swallowed and the file is written | must not silently proceed (`trust.mjs:117`) |
| `trust.mjs:56` | Codex: after a crash between truncation and write, the next trust copies the empty file over the good backup | backed up before it is touched (`trust.mjs:18`) |
| `trust.mjs:31` | a setting the agent writes between read and write is overwritten, and a second trust then overwrites its backup | records trust for one directory (`trust.mjs:16`) |
| `run.mjs:145` | a launch in progress goes live in a run that was closed meanwhile | refuses while dispatches are live (`run.mjs:135`) |

They have four causes: the lock, where there is one, ends before the writes it should cover; a
number stands for a set of messages that arrive out of order or are read selectively; a step
comes too early, too late or forgets what it replaced; and an error is taken for an answer.

## 7. Reductions

Every module merges some steps the code takes one after another. In each case nothing the
properties are about can happen in between, or it would add only outcomes that are there
already.

* `Contract`: the verdict's reads are one step (they are under the lock); a write of a
  dispatch and the following read of its task are one step (`DispatchCancelSave`,
  `DoctorAbandon`); claiming a number and writing the file are one step (`Inbox` separates
  them); the message of `heartbeat` and its save; `task update`'s save and refresh;
  `StartGuards` reads all records it looks at, and `StartSupersede` writes all it supersedes,
  at once; `release`'s pane close and save; `task cancel`'s two reads; `doctor` treats one
  dispatch per invocation. An escalation is a question. `wait` is on one dispatch and without
  `--all`. Not there: the depth guard, `--pane`, `retain`, `--force`, edits of
  dependencies and of `max_attempts` during the run, a failing worktree (it ends a launch
  as `StartPaneFails` does), the event log. `--pane` and `retain` are in `Panes`.
* `StoreLock`: the pid of a dead process is not reused and all processes are on one host;
  `stat`, liveness and age are judged in one step; `rmSync` is one step.
* `Inbox`: who may report is `Contract`'s business; the acks of one `finish` are one step; in
  `WaitVanished` the fresh read and the save are one step (`Contract` separates them); a scope
  is a set of dispatches fixed when the wait starts (`wait.mjs:71-75`), and what goes live later is
  not in the model; hints are on, their default; `--outcome` is represented by a wait for other
  types of message (a filter no report passes); the number of reminders has no limit; a pane's death reaches a wait once; the
  registration of a dead process counts as removed, as every reader prunes it.
* `Panes`: opening a pane and saving it in the record are one step (a crash in between leaves a
  pane no record names, which no command looks for); so are the close and the save of a failed
  launch, which no other command can tell apart from a later close; one launch at a time (what
  two do to each other is in `Contract`), and one release or `doctor` at a time; `doctor` takes its
  list anew for each pane it closes (an older list is a longer stay at `listed`), the look and the
  close are one step (in between nothing is checked again), and it gives up an orphan in one step
  (`Contract` separates it); `wait` looks and saves in one step, as does the hook (both in
  `Contract`); `launch_cleanup` is left out, because it says that a pane is closed and closed panes
  stay closed; the hook may be late, run twice or not at all; `--remove-worktree` is left out.
* `Trust`: one agent per command (the agents of a command do not share files); a rewrite by the
  agent is one step; the file is never deleted; a torn file is as good as an empty one; two
  overlapping writes leave the later text or a torn file.
* `Plan`: attempts and authority are `Contract`'s business; the reads of a launch, of a decision
  and of `run close` are one step each; a task that runs has one worker (a retry replaces it).

Not translated anywhere: formatting, logging and wording; identifiers are model values.

## 8. Not modelled

* labels and placement (`core/labels.mjs`, `planSplit`, `planPlacement`): pure layout, what a
  tab is called and which pane is split; nothing of the protocol depends on the result, and a
  placement that fails is `StartPlaceFails`;
* the Herdr client, launch and preamble: I/O and text, represented by the outcomes of a call;
* argument parsing, output, paths, ids, skills, `status`, `board`: read-only views and
  plumbing, no protocol state; `say` and `spawn` (`commands/talk.mjs`) only call Herdr;
* `--remove-worktree`, `run use`, the depth guard: one guard or one external call each.

## 9. Plan

Done, in this order: `Authority` and `Contract` (the core), its type and evidence proofs,
`StoreLock` and its proofs, `Inbox`, `Mail`, `Plan`, `Panes` and `Trust`, the proofs of
the last five, and what `Contract` keeps at command grain: the refinement of `Authority`, and
what becomes of tasks and workers.

Next, modelling:

1. `Contract` and `Inbox` composed on the notification path, to state delivery of every
   accepted report end to end;
2. placement and labels as operators against reference definitions (`distinctiveLabels`
   is unique; `planSplit` never splits a pane below its minimum).

Next, proofs:

1. an abstract counter (a set of numbers, each larger than the ones before), and `StoreLock`
   until its first disturbance shown to implement it;
2. the waiter registry: a push is suppressed only while somebody waits, as an invariant of `Inbox`
   with the outcomes of section 6 as its exact exceptions.
