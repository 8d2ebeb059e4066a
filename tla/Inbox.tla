-------------------------------- MODULE Inbox --------------------------------
(***************************************************************************)
(* How a worker's message reaches the coordinator: the sequence number,    *)
(* the file in the inbox, the cursor, `cbds wait`, the registry of waiters *)
(* and the notice `cbds done` pushes when nobody waits.                    *)
(*                                                                         *)
(* Each worker runs one command at a time, and so does each coordinator    *)
(* process; all of them interleave between file operations.  Who may       *)
(* report is the business of module Contract: here a report is accepted    *)
(* while its dispatch is `dispatched`.  A claimed number, an ack and a     *)
(* look at the registry are one step each (module StoreLock has the lock). *)
(***************************************************************************)
EXTENDS Naturals, FiniteSets, FiniteSetsExt

CONSTANTS
    Dispatches,     \* the live dispatches of a run, each with its worker
    Waits,          \* the coordinator's processes (bound)
    None,
    MaxSeq,         \* bound on the sequence number
    Scopes,         \* the scopes wait is invoked with: sets of dispatches
    Wants,          \* the types wait is invoked with (--types): sets of types
    Commands,       \* "wait", "wait_all" (--all), "keep" (--no-ack), "replay" (--no-unacked),
                    \* "nudge" (a wait reminds idle workers), "ack" (report ack)
    Overlap,        \* may two workers claim a number and file at the same time?
    Faults          \* "crash", "herdr", "pane"

ASSUME NoneIsNoDispatch == None \notin Dispatches
ASSUME ScopesAreSets == Scopes \subseteq SUBSET Dispatches
ASSUME WantsAreTypes == Wants \subseteq SUBSET {"report", "question", "heartbeat"}
ASSUME MaxSeqIsNat == MaxSeq \in Nat

VARIABLES
    seq,        \* .seq
    inbox,      \* inbox/*.json
    rejected,   \* inbox/rejected/*.json
    cursor,     \* cursor.json: acked_seq
    state,      \* the state in dispatches/<id>.json
    waiting,    \* waiters/*.json of live processes
    pane,       \* Herdr: is the worker's pane alive
    work, out,  \* where each worker's command is, and the message it is sending
    pc, mem,    \* where each coordinator process is, and what it has read
    returned    \* history: the numbers of the messages printed by wait or named to ack

vars == <<seq, inbox, rejected, cursor, state, waiting, pane, work, out, pc, mem, returned>>
worker == <<work, out>>
store == <<seq, inbox, rejected, cursor, state>>

Types == {"report", "question", "heartbeat"}
Message == [seq : Nat, type : Types, disp : Dispatches]

\* What a wait has read: its arguments, the live dispatches, where it starts, what it found.
\* ahead, watched: the panes it has still to subscribe to, and those it has; vanished: the
\* first pane event since one was looked at; told (history): the events that reached it while
\* it was listening.
Memory ==
    [scope : SUBSET Dispatches, types : SUBSET Types, all : BOOLEAN, keep : BOOLEAN,
     pending : SUBSET Dispatches, from : Nat, got : SUBSET Message,
     ahead : SUBSET Dispatches, watched : SUBSET Dispatches,
     vanished : Dispatches \cup {None}, told : SUBSET Dispatches, nudge : Dispatches \cup {None}]

NoMemory == [scope |-> {}, types |-> {}, all |-> FALSE, keep |-> FALSE, pending |-> {},
             from |-> 0, got |-> {}, ahead |-> {}, watched |-> {}, vanished |-> None,
             told |-> {}, nudge |-> None]

Init ==
    /\ seq = 0 /\ inbox = {} /\ rejected = {} /\ cursor = 0
    /\ state = [d \in Dispatches |-> "dispatched"]
    /\ waiting = {} /\ pane = [d \in Dispatches |-> "alive"]
    /\ work = [d \in Dispatches |-> "working"]
    /\ out = [d \in Dispatches |-> None]
    /\ pc = [w \in Waits |-> "idle"] /\ mem = [w \in Waits |-> NoMemory]
    /\ returned = {}

-----------------------------------------------------------------------------
(* The worker: heartbeat, ask, escalate and done                           *)

WorkerMoves(d, from, to) == work[d] = from /\ work' = [work EXCEPT ![d] = to]

\* claimSeq, after the authority check.  A report without authority is filed as rejected;
\* any other message is refused.
Claim(d) ==
    /\ pane[d] = "alive" /\ seq < MaxSeq
    /\ Overlap \/ \A e \in Dispatches : work[e] \notin {"filing", "rejecting"}
    /\ seq' = seq + 1
    /\ \E type \in Types :
          /\ out' = [out EXCEPT ![d] = [seq |-> seq + 1, type |-> type, disp |-> d]]
          /\ \/ state[d] = "dispatched" /\ WorkerMoves(d, "working", "filing")
             \/ state[d] # "dispatched" /\ type = "report" /\ WorkerMoves(d, "working", "rejecting")
    /\ UNCHANGED <<inbox, rejected, cursor, state, waiting, pane, pc, mem, returned>>

FileMessage(d) ==
    /\ WorkerMoves(d, "filing", IF out[d].type = "report" THEN "settling" ELSE "working")
    /\ inbox' = inbox \cup {out[d]}
    /\ UNCHANGED <<seq, rejected, cursor, state, waiting, pane, out, pc, mem, returned>>

FileRejected(d) ==
    /\ WorkerMoves(d, "rejecting", "working")
    /\ rejected' = rejected \cup {out[d]}
    /\ UNCHANGED <<seq, inbox, cursor, state, waiting, pane, out, pc, mem, returned>>

\* Mutant: the outcome is stored where the state belongs.
Settle_Outcome(d) ==
    /\ WorkerMoves(d, "settling", "notifying")
    /\ state' = [state EXCEPT ![d] = "succeeded"]
    /\ UNCHANGED <<seq, inbox, rejected, cursor, waiting, pane, out, pc, mem, returned>>

Settle(d) ==
    /\ WorkerMoves(d, "settling", "notifying")
    /\ state' = [state EXCEPT ![d] = "settled"]
    /\ UNCHANGED <<seq, inbox, rejected, cursor, waiting, pane, out, pc, mem, returned>>

\* someoneIsWaiting: any live waiter, whatever its scope.
Notify(d) ==
    /\ WorkerMoves(d, "notifying", IF waiting = {} THEN "pushing" ELSE "working")
    /\ UNCHANGED <<store, waiting, pane, out, pc, mem, returned>>

\* agentPrompt into the coordinator's pane: prompted or failed, the command ends.
Push(d) ==
    /\ WorkerMoves(d, "pushing", "working")
    /\ UNCHANGED <<store, waiting, pane, out, pc, mem, returned>>

-----------------------------------------------------------------------------
(* cbds wait                                                               *)

Goto(w, label, m) == pc' = [pc EXCEPT ![w] = label] /\ mem' = [mem EXCEPT ![w] = m]
\* A wait that ends in any way removes its registration.
Leave(w) == Goto(w, "idle", NoMemory) /\ waiting' = waiting \ {w}

Matching(m) == {x \in inbox : x.disp \in m.scope /\ x.type \in m.types /\ x.seq > m.from}
Outstanding(m) == m.pending \ {x.disp : x \in {y \in m.got : y.type = "report"}}
Satisfied(m) == m.got # {} /\ (m.all => Outstanding(m) = {})

Wait(w) ==
    /\ pc[w] = "idle"
    /\ \E scope \in Scopes, types \in Wants, all \in BOOLEAN, keep \in BOOLEAN :
          /\ (IF all THEN "wait_all" ELSE "wait") \in Commands
          /\ keep => "keep" \in Commands
          /\ Goto(w, "register", [NoMemory EXCEPT !.scope = scope, !.types = types, !.all = all,
                                    !.keep = keep,
                                    !.pending = {d \in scope : state[d] = "dispatched"}])
    /\ UNCHANGED <<store, waiting, pane, worker, returned>>

\* Mutant: the wait starts from the last number claimed instead of the cursor.
WaitRegister_Now(w) ==
    /\ pc[w] = "register"
    /\ Goto(w, "scan", [mem[w] EXCEPT !.from = seq])
    /\ waiting' = waiting \cup {w}
    /\ UNCHANGED <<store, pane, worker, returned>>

\* The cursor is read once, before the wait announces itself.
WaitRegister(w) ==
    /\ pc[w] = "register"
    /\ \E from \in {cursor} \cup (IF "replay" \in Commands THEN {0} ELSE {}) :
          Goto(w, "scan", [mem[w] EXCEPT !.from = from])
    /\ waiting' = waiting \cup {w}
    /\ UNCHANGED <<store, pane, worker, returned>>

\* The first look at the inbox: found, nothing to wait for, or block.
WaitScan(w) ==
    /\ pc[w] = "scan"
    /\ LET m == [mem[w] EXCEPT !.got = Matching(mem[w])] IN
       \/ Satisfied(m) /\ Goto(w, "ack", m) /\ UNCHANGED waiting
       \/ ~Satisfied(m) /\ m.pending = {} /\ m.got = {} /\ Leave(w)
       \/ /\ ~Satisfied(m) /\ m.pending \cup m.got # {}
          /\ Goto(w, "watch", [m EXCEPT !.ahead = m.pending]) /\ UNCHANGED waiting
    /\ UNCHANGED <<store, pane, worker, returned>>

\* Panes are subscribed to one after the other, each answer awaited; one that Herdr refuses is
\* left out.  With the last answer the wait begins to listen, with a new AbortController: what
\* came before then is kept in vanished and wakes nobody.
WaitWatch(w) ==
    /\ pc[w] = "watch"
    /\ \E d \in mem[w].ahead, ok \in {TRUE} \cup (IF "herdr" \in Faults THEN {FALSE} ELSE {}) :
          Goto(w, IF mem[w].ahead = {d} THEN "block" ELSE "watch",
               [mem[w] EXCEPT !.ahead = @ \ {d}, !.watched = IF ok THEN @ \cup {d} ELSE @])
    /\ UNCHANGED <<store, waiting, pane, worker, returned>>

\* Every wake scans the inbox again; with --all the wait goes on until nothing is outstanding.
WaitPoll(w) ==
    /\ pc[w] = "block" /\ ~(Matching(mem[w]) \subseteq mem[w].got)
    /\ LET m == [mem[w] EXCEPT !.got = @ \cup Matching(mem[w])] IN
       Goto(w, IF Satisfied(m) THEN "ack" ELSE "block", m)
    /\ UNCHANGED <<store, waiting, pane, worker, returned>>

\* Each outstanding dispatch is saved as it was read at the start, with one more hint.
WaitTimeout(w) ==
    /\ pc[w] = "block"
    /\ state' = [d \in Dispatches |-> IF d \in Outstanding(mem[w]) THEN "dispatched" ELSE state[d]]
    /\ Leave(w)
    /\ UNCHANGED <<seq, inbox, rejected, cursor, pane, worker, returned>>

\* Mutant: the event wakes the wait, but nobody asks whose it was.
WaitHint_Unconfirmed(w) ==
    /\ pc[w] = "hint"
    /\ LET m == [mem[w] EXCEPT !.got = @ \cup Matching(mem[w]), !.vanished = None]
       IN  Goto(w, IF Satisfied(m) THEN "ack" ELSE "block", m)
    /\ UNCHANGED <<store, waiting, pane, worker, returned>>

\* The scan that follows a pane event: a late message makes the wait forget the event.
WaitHint(w) ==
    /\ pc[w] = "hint"
    /\ LET late == Matching(mem[w]) \ mem[w].got
           m == [mem[w] EXCEPT !.got = @ \cup late, !.vanished = None]
       IN  \/ late = {} /\ Goto(w, "confirm", mem[w])
           \/ late # {} /\ Goto(w, IF Satisfied(m) THEN "ack" ELSE "block", m)
    /\ UNCHANGED <<store, waiting, pane, worker, returned>>

\* The pane is alive after all: a hint is saved on the record read at the start.
WaitSpurious(w) ==
    /\ pc[w] = "confirm" /\ pane[mem[w].vanished] = "alive"
    /\ state' = [state EXCEPT ![mem[w].vanished] = "dispatched"]
    /\ Goto(w, "block", [mem[w] EXCEPT !.vanished = None])
    /\ UNCHANGED <<seq, inbox, rejected, cursor, waiting, pane, worker, returned>>

\* worker_vanished: the record is read afresh, and abandoned unless it is settled by now.
WaitVanished(w) ==
    /\ pc[w] = "confirm" /\ (pane[mem[w].vanished] = "gone" \/ "herdr" \in Faults)
    /\ state' = [state EXCEPT ![mem[w].vanished] = IF @ = "settled" THEN @ ELSE "abandoned"]
    /\ Leave(w)
    /\ UNCHANGED <<seq, inbox, rejected, cursor, pane, worker, returned>>

AckUpTo(n) == cursor' = IF n > cursor THEN n ELSE cursor

\* Mutant: everything claimed so far is acknowledged.
WaitAck_Latest(w) ==
    /\ pc[w] = "ack" /\ ~mem[w].keep
    /\ AckUpTo(seq)
    /\ Goto(w, "emit", mem[w])
    /\ UNCHANGED <<seq, inbox, rejected, state, waiting, pane, worker, returned>>

\* finish: what was collected is acknowledged, then printed.
WaitAck(w) ==
    /\ pc[w] = "ack" /\ ~mem[w].keep
    /\ AckUpTo(Max({x.seq : x \in mem[w].got}))
    /\ Goto(w, "emit", mem[w])
    /\ UNCHANGED <<seq, inbox, rejected, state, waiting, pane, worker, returned>>

WaitKeeps(w) ==
    /\ pc[w] = "ack" /\ mem[w].keep
    /\ Goto(w, "emit", mem[w])
    /\ UNCHANGED <<store, waiting, pane, worker, returned>>

WaitReturn(w) ==
    /\ pc[w] = "emit"
    /\ returned' = returned \cup {x.seq : x \in mem[w].got}
    /\ Leave(w)
    /\ UNCHANGED <<store, pane, worker>>

\* The timer of a wait finds an idle worker that has not reported, and prompts it.
NudgeLook(w) ==
    /\ "nudge" \in Commands /\ pc[w] \in {"watch", "block", "confirm"} /\ mem[w].nudge = None
    /\ \E d \in mem[w].scope :
          /\ state[d] = "dispatched" /\ pane[d] = "alive"
          /\ ~\E x \in inbox : x.disp = d /\ x.type = "report"
          /\ Goto(w, pc[w], [mem[w] EXCEPT !.nudge = d])
    /\ UNCHANGED <<store, waiting, pane, worker, returned>>

\* Up to 20 s later the record is saved as it was before the prompt; a wait that ends in
\* between takes its timer with it.
NudgeSave(w) ==
    /\ pc[w] \in {"watch", "block", "confirm"} /\ mem[w].nudge # None
    /\ state' = [state EXCEPT ![mem[w].nudge] = "dispatched"]
    /\ Goto(w, pc[w], [mem[w] EXCEPT !.nudge = None])
    /\ UNCHANGED <<seq, inbox, rejected, cursor, waiting, pane, worker, returned>>

\* cbds report ack, of an accepted or a rejected report.
ReportAck(w) ==
    /\ pc[w] = "idle" /\ "ack" \in Commands
    /\ \E x \in inbox \cup rejected :
          /\ AckUpTo(x.seq)
          /\ returned' = returned \cup {x.seq}
    /\ UNCHANGED <<seq, inbox, rejected, state, waiting, pane, worker, pc, mem>>

-----------------------------------------------------------------------------
(* The environment                                                         *)

\* Herdr tells every wait that has subscribed to the pane; spuriously, if it errs.  The first
\* event is kept until it is looked at, the others are dropped; it aborts the wait for a
\* report of a process that is listening.
PaneEvent(d) ==
    /\ \/ "pane" \in Faults /\ pane[d] = "alive" /\ pane' = [pane EXCEPT ![d] = "gone"]
       \/ "herdr" \in Faults /\ UNCHANGED pane
    /\ pc' = [w \in Waits |-> IF pc[w] = "block" /\ d \in mem[w].watched THEN "hint" ELSE pc[w]]
    /\ mem' = [w \in Waits |->
                  IF d \in mem[w].watched
                  THEN [mem[w] EXCEPT !.vanished = IF @ = None THEN d ELSE @,
                                      !.told = IF pc[w] = "watch" THEN @ ELSE @ \cup {d}]
                  ELSE mem[w]]
    /\ UNCHANGED <<store, waiting, worker, returned>>

\* The registration of a dead process is pruned by whoever looks at it.
CrashWait(w) ==
    /\ "crash" \in Faults /\ pc[w] # "idle"
    /\ Leave(w)
    /\ UNCHANGED <<store, pane, worker, returned>>

CrashWorker(d) ==
    /\ "crash" \in Faults /\ work[d] # "working"
    /\ work' = [work EXCEPT ![d] = "working"]
    /\ UNCHANGED <<store, waiting, pane, out, pc, mem, returned>>

-----------------------------------------------------------------------------
WorkerStep(d) == FileMessage(d) \/ FileRejected(d) \/ Settle(d) \/ Notify(d) \/ Push(d)
WaitStep(w) ==
    \/ WaitRegister(w) \/ WaitScan(w) \/ WaitWatch(w) \/ WaitPoll(w) \/ WaitTimeout(w)
    \/ WaitHint(w) \/ WaitSpurious(w) \/ WaitVanished(w)
    \/ WaitAck(w) \/ WaitKeeps(w) \/ WaitReturn(w)

Next ==
    \/ \E d \in Dispatches : Claim(d) \/ WorkerStep(d) \/ PaneEvent(d) \/ CrashWorker(d)
    \/ \E w \in Waits : Wait(w) \/ WaitStep(w) \/ ReportAck(w) \/ CrashWait(w)
    \/ \E w \in Waits : NudgeLook(w) \/ NudgeSave(w)

Spec == Init /\ [][Next]_vars

\* A command that has started runs to its end; nobody has to start one.
FairSpec == Spec /\ (\A d \in Dispatches : WF_vars(WorkerStep(d)))
                 /\ (\A w \in Waits : WF_vars(WaitStep(w)))

\* The coordinator also keeps waiting, in rolling windows.
RollingSpec == FairSpec /\ \A w \in Waits : WF_vars(Wait(w))

-----------------------------------------------------------------------------
(* Properties                                                              *)

TypeOK ==
    /\ seq \in Nat /\ cursor \in Nat
    /\ inbox \in SUBSET Message /\ rejected \in SUBSET Message
    /\ state \in [Dispatches -> {"dispatched", "settled", "abandoned"}]
    /\ waiting \in SUBSET Waits
    /\ pane \in [Dispatches -> {"alive", "gone"}]
    /\ work \in [Dispatches -> {"working", "filing", "rejecting", "settling",
                               "notifying", "pushing"}]
    /\ out \in [Dispatches -> Message \cup {None}]
    /\ pc \in [Waits -> {"idle", "register", "scan", "watch", "block", "hint", "confirm", "ack",
                         "emit"}]
    /\ mem \in [Waits -> Memory]
    /\ returned \in SUBSET Nat

\* The cursor swallows nothing: a message that wakes and is at or under the cursor has been
\* printed, or is about to be by a wait that holds it.
CursorSkipsNothing ==
    \A x \in inbox : x.type # "heartbeat" /\ x.seq <= cursor =>
        x.seq \in returned \/ \E w \in Waits : pc[w] = "emit" /\ x \in mem[w].got

\* A wait acknowledges only what it holds: the messages of its scope that its ack takes under
\* the cursor are about to be printed by it, also those that came after its last look.
AckTakesWhatItHolds ==
    [][\A w \in Waits : WaitAck(w) =>
          \A x \in inbox : x.disp \in mem[w].scope /\ x.type \in mem[w].types
                            /\ x.seq \in (cursor + 1)..cursor' => x \in mem[w].got]_vars

\* A wait that learns, while it is listening, that a worker's pane died ends as vanished or with
\* a message, never in its deadline.  What reaches it while it is still subscribing to other
\* panes (wait.mjs:160-181), and what --all forgets, is not promised.
DeathEndsWait ==
    [][\A w \in Waits : WaitTimeout(w) =>
          \A d \in Outstanding(mem[w]) \cap mem[w].told : pane[d] = "alive"]_vars

Filed(n) == \E x \in inbox : x.seq = n /\ x.type = "report"

\* A coordinator that keeps waiting on the run gets every report, whatever times out.
RollingWaitsReceive == \A n \in 1..MaxSeq : Filed(n) ~> n \in returned

=============================================================================
