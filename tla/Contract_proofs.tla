--------------------------- MODULE Contract_proofs ---------------------------
(***************************************************************************)
(* Theorems about Contract, for every value of its constants and at every  *)
(* grain: type correctness, and what a settled dispatch, a completed task  *)
(* and a duplicate rejection are evidence of.                              *)
(***************************************************************************)
EXTENDS Contract, TLAPS

-----------------------------------------------------------------------------
(* Type correctness                                                        *)

StartPCs == {"st_supersede", "st_create", "st_new", "st_pane", "st_pane_ready", "st_launch",
             "st_undelivered", "st_commit", "st_commit_now", "st_task"}
NoDispatchPCs == {"idle", "st_guards", "st_supersede", "st_create", "tc_task", "up_save", "rc_save"}
NoTaskPCs == {"idle", "rl_save", "zb_close", "hk_save", "wt_block", "wt_confirm", "wt_abandon",
              "nd_save"}

\* What a process at label l may rely on about its memory m, besides its type.
Local(l, m) ==
    /\ l \notin NoDispatchPCs => m.d \in Dispatches
    /\ l \notin NoTaskPCs => m.t \in Tasks
    /\ l \in {"dn_persist", "dn_dispatch", "dn_task"} => m.arg \in Outcomes
    /\ l = "ms_write" => m.arg \in MessageTypes
    /\ l \in StartPCs => m.ts.attempts < MaxAttempts

LocalOK == \A p \in Procs : Local(pc[p], mem[p])

StoreOK ==
    /\ task \in [Tasks -> TaskRecord]
    /\ disp \in [Dispatches -> DispatchRecord]
    /\ inbox \in SUBSET Message
    /\ rejected \in SUBSET Rejection
    /\ seq \in Nat
    /\ pane \in [Dispatches -> {"none", "open", "working", "gone"}]

ProcsOK ==
    /\ pc \in [Procs -> PCs]
    /\ mem \in [Procs -> Memory]
    /\ LocalOK

\* A process that goes to a label with a memory fit for it leaves every process fit.
LEMMA GotoOK ==
    ASSUME ProcsOK, NEW p \in Procs, NEW l \in PCs, NEW m \in Memory, Local(l, m), Goto(p, l, m)
    PROVE  ProcsOK'
<1>1. pc' \in [Procs -> PCs] /\ mem' \in [Procs -> Memory]
  BY DEF ProcsOK, Goto
<1>2. LocalOK'
  <2> SUFFICES ASSUME NEW q \in Procs PROVE Local(pc'[q], mem'[q])
    BY DEF LocalOK, Local, NoDispatchPCs, NoTaskPCs, StartPCs
  <2>1. CASE q = p
    BY <2>1 DEF ProcsOK, Goto
  <2>2. CASE q # p
    BY <2>2 DEF ProcsOK, Goto, LocalOK
  <2> QED BY <2>1, <2>2
<1> QED BY <1>1, <1>2 DEF ProcsOK

LEMMA BlankType == Blank \in Memory /\ Local("idle", Blank)
  BY BoundsAreNat DEF Blank, Memory, NoTask, NoDispatch, TaskRecord, DispatchRecord, Local,
     NoDispatchPCs, NoTaskPCs, StartPCs, TaskStates, DispatchStates, StartModes

\* A command that ends leaves every process fit.
LEMMA FinishOK == ASSUME ProcsOK, NEW p \in Procs, Finish(p) PROVE ProcsOK'
  BY GotoOK, BlankType DEF Finish, PCs

Typed == StoreOK /\ ProcsOK

\* What a process at a label has at hand.
LEMMA AtOK ==
    ASSUME ProcsOK, NEW p \in Procs, NEW l, At(p, l)
    PROVE  mem[p] \in Memory /\ Local(l, mem[p])
  BY DEF ProcsOK, LocalOK, At

LEMMA Held ==
    ASSUME NEW m \in Memory
    PROVE  (\A d \in Dispatches : m.ds[d] \in DispatchRecord) /\ m.ts \in TaskRecord
  BY DEF Memory

\* The changes commands make to a record keep it a record.
LEMMA DispatchUpdates ==
    ASSUME NEW r \in DispatchRecord
    PROVE  /\ Superseded(r) \in DispatchRecord
           /\ Abandoned(r) \in DispatchRecord
           /\ \A o \in Outcomes, n \in Nat :
                [r EXCEPT !.state = "settled", !.outcome = o, !.report = n, !.auth = FALSE]
                    \in DispatchRecord
           /\ [r EXCEPT !.state = "dispatched"] \in DispatchRecord
           /\ [r EXCEPT !.pane = TRUE] \in DispatchRecord
           /\ [r EXCEPT !.released = TRUE] \in DispatchRecord
           /\ [r EXCEPT !.auth = FALSE] \in DispatchRecord
  BY DEF DispatchRecord, DispatchStates, Superseded, Abandoned

LEMMA TaskUpdates ==
    ASSUME NEW r \in TaskRecord
    PROVE  /\ \A s \in TaskStates, l \in Dispatches \cup {None} :
                [r EXCEPT !.state = s, !.live = l] \in TaskRecord
           /\ \A s \in TaskStates : [r EXCEPT !.state = s] \in TaskRecord
           /\ \A t : Reconciled(t, r) \in TaskRecord
           /\ \A t : Reconciled(t, r).attempts = r.attempts
  BY DEF TaskRecord, TaskStates, Reconciled

LEMMA CountedAttempt ==
    ASSUME NEW r \in TaskRecord, r.attempts < MaxAttempts, NEW l \in Dispatches
    PROVE  [r EXCEPT !.attempts = r.attempts + 1, !.state = "dispatched", !.live = l]
               \in TaskRecord
<1>1. r.attempts \in 0..MaxAttempts
  BY DEF TaskRecord
<1>2. r.attempts + 1 \in 0..MaxAttempts
  BY <1>1, BoundsAreNat
<1>3. "dispatched" \in TaskStates
  BY DEF TaskStates
<1> QED BY <1>2, <1>3 DEF TaskRecord

LEMMA SaveDispatchOK ==
    ASSUME StoreOK, NEW d \in Dispatches, NEW r \in DispatchRecord, SaveDispatch(d, r)
    PROVE  disp' \in [Dispatches -> DispatchRecord]
  BY DEF StoreOK, SaveDispatch

LEMMA SaveTaskOK ==
    ASSUME StoreOK, NEW t \in Tasks, NEW r \in TaskRecord, SaveTask(t, r)
    PROVE  task' \in [Tasks -> TaskRecord]
  BY DEF StoreOK, SaveTask

LEMMA CopyTyped ==
    ASSUME StoreOK, NEW d \in Dispatches
    PROVE  [Blank.ds EXCEPT ![d] = disp[d]] \in [Dispatches -> DispatchRecord]
  BY BlankType DEF StoreOK, Memory

LEMMA VerdictType ==
    ASSUME NEW t \in Tasks, NEW d \in Dispatches
    PROVE  Verdict(t, d) \in Reasons \cup {None}
  BY DEF Verdict, Reasons

LEMMA DoneTyped == ASSUME Typed, NEW p \in Procs, DoneNext(p) PROVE Typed'
<1> USE DEF Typed
<1>1. CASE DoneVerdict(p)
  <2> DEFINE m(t, d, o) == [Blank EXCEPT !.t = t, !.d = d, !.arg = o, !.why = Verdict(t, d),
                                       !.ts = task[t], !.ds[d] = disp[d]]
  <2>1. PICK t \in Tasks, d \in Dispatches, o \in Outcomes :
           Goto(p, "dn_persist", m(t, d, o))
    BY <1>1 DEF DoneVerdict
  <2>2. m(t, d, o) \in Memory /\ Local("dn_persist", m(t, d, o))
    BY BlankType, VerdictType DEF Memory, Local, StoreOK, StartPCs
  <2>3. ProcsOK'
    <3> HIDE DEF m
    <3> QED BY <2>1, <2>2, GotoOK DEF PCs
  <2> QED BY <1>1, <2>3 DEF DoneVerdict, StoreOK, store
<1>2. CASE DonePersist(p)
  <2> DEFINE m == mem[p]
  <2>1. m \in Memory /\ m.t \in Tasks /\ m.d \in Dispatches /\ m.arg \in Outcomes /\ seq \in Nat
    BY <1>2, AtOK DEF DonePersist, Local, NoDispatchPCs, NoTaskPCs, StoreOK
  <2>2. CASE m.why = None
    <3>1. [m EXCEPT !.n = seq + 1] \in Memory /\ Local("dn_dispatch", [m EXCEPT !.n = seq + 1])
      BY <2>1 DEF Memory, Local, StartPCs
    <3>2. ProcsOK'
      BY <1>2, <2>2, <3>1, GotoOK DEF DonePersist, PCs
    <3> QED BY <1>2, <2>1, <2>2, <3>2 DEF DonePersist, StoreOK, Message, MessageTypes
  <2>3. CASE m.why # None
    <3>1. ProcsOK'
      BY <1>2, <2>3, FinishOK DEF DonePersist
    <3>2. m.why \in Reasons
      BY <2>1, <2>3 DEF Memory
    <3> QED BY <1>2, <2>1, <2>3, <3>1, <3>2 DEF DonePersist, StoreOK, Rejection
  <2> QED BY <2>2, <2>3
<1>3. CASE DoneDispatch(p)
  <2> DEFINE m == mem[p]
             r == [m.ds[m.d] EXCEPT !.state = "settled", !.outcome = m.arg,
                                    !.report = m.n, !.auth = FALSE]
  <2>1. m \in Memory /\ Local("dn_dispatch", m)
    BY <1>3, AtOK DEF DoneDispatch
  <2>2. m.d \in Dispatches /\ m.arg \in Outcomes /\ m.n \in Nat
    BY <2>1 DEF Memory, Local, NoDispatchPCs
  <2>3. SaveDispatch(m.d, r)
    BY <1>3 DEF DoneDispatch
  <2>4. r \in DispatchRecord
    BY <2>1, <2>2, Held, DispatchUpdates
  <2>5. disp' \in [Dispatches -> DispatchRecord]
    <3> HIDE DEF r
    <3> QED BY <2>2, <2>3, <2>4, SaveDispatchOK
  <2>6. ProcsOK'
    <3>1. Goto(p, "dn_task", m) /\ Local("dn_task", m)
      BY <1>3, <2>1 DEF DoneDispatch, Local, NoDispatchPCs, NoTaskPCs, StartPCs
    <3> QED BY <2>1, <3>1, GotoOK DEF PCs
  <2> QED BY <1>3, <2>5, <2>6 DEF DoneDispatch, StoreOK
<1>4. CASE DoneTask(p)
  <2> DEFINE m == mem[p]
             s == OutcomeToTaskState[m.arg]
             r(l) == [m.ts EXCEPT !.state = s, !.live = l]
  <2>1. m \in Memory /\ Local("dn_task", m)
    BY <1>4, AtOK DEF DoneTask
  <2>2. s \in TaskStates /\ m.t \in Tasks /\ m.ts \in TaskRecord
    BY <2>1, Held DEF Local, NoTaskPCs, TaskStates, OutcomeToTaskState, Outcomes
  <2>3. r(None) \in TaskRecord /\ r(m.ts.live) \in TaskRecord
    <3> HIDE DEF s
    <3> QED BY <2>2 DEF TaskRecord
  <2>4. SaveTask(m.t, r(None)) \/ SaveTask(m.t, r(m.ts.live))
    BY <1>4, <2>2 DEF DoneTask, TaskRecord
  <2>5. task' \in [Tasks -> TaskRecord]
    <3> HIDE DEF r
    <3> QED BY <2>2, <2>3, <2>4, SaveTaskOK
  <2>6. ProcsOK'
    BY <1>4, FinishOK DEF DoneTask
  <2> QED BY <1>4, <2>5, <2>6 DEF DoneTask, StoreOK
<1> QED BY <1>1, <1>2, <1>3, <1>4 DEF DoneNext

LEMMA MessageTyped == ASSUME Typed, NEW p \in Procs, MessageNext(p) PROVE Typed'
<1> USE DEF Typed
<1>1. CASE SelfDispatch(p)
  <2> DEFINE m(d, type) ==
            [Blank EXCEPT !.t = disp[d].task, !.d = d, !.arg = type, !.ds[d] = disp[d]]
  <2>1. PICK d \in Dispatches, type \in {"heartbeat", "question"} :
           (Created(d)) /\ Goto(p, "ms_write", m(d, type))
    BY <1>1 DEF SelfDispatch
  <2>2. m(d, type) \in Memory /\ Local("ms_write", m(d, type))
    BY <2>1, BlankType DEF Memory, Local, StoreOK, StartPCs, Created, DispatchRecord, MessageTypes
  <2>3. ProcsOK'
    <3> HIDE DEF m
    <3> QED BY <2>1, <2>2, GotoOK DEF PCs
  <2> QED BY <1>1, <2>3 DEF SelfDispatch, StoreOK, store
<1>2. CASE WriteMessage(p)
  <2> DEFINE m == mem[p]
  <2>1. m \in Memory /\ m.t \in Tasks /\ m.d \in Dispatches /\ m.arg \in MessageTypes
    BY <1>2, AtOK DEF WriteMessage, Local, NoDispatchPCs, NoTaskPCs
  <2>2. inbox' \in SUBSET Message
    BY <1>2, <2>1 DEF WriteMessage, StoreOK, Message
  <2>3. disp' \in [Dispatches -> DispatchRecord]
    BY <1>2, <2>1 DEF WriteMessage, StoreOK, SaveDispatch, Memory
  <2>4. ProcsOK'
    BY <1>2, FinishOK DEF WriteMessage
  <2> QED BY <1>2, <2>2, <2>3, <2>4 DEF WriteMessage, StoreOK
<1> QED BY <1>1, <1>2 DEF MessageNext

LEMMA StartTyped == ASSUME Typed, NEW p \in Procs, StartNext(p) PROVE Typed'
<1> USE DEF Typed
<1>1. CASE Start(p)
  <2> DEFINE m(t, mode, retry) ==
            [Blank EXCEPT !.t = t, !.mode = mode, !.retry = retry, !.ts = task[t]]
  <2>1. PICK t \in Tasks, mode \in StartModes, retry \in Dispatches \cup {None} :
           Goto(p, "st_guards", m(t, mode, retry))
    BY <1>1 DEF Start
  <2>2. m(t, mode, retry) \in Memory /\ Local("st_guards", m(t, mode, retry))
    BY BlankType DEF Memory, Local, StoreOK, NoDispatchPCs, StartPCs
  <2>3. ProcsOK'
    <3> HIDE DEF m
    <3> QED BY <2>1, <2>2, GotoOK DEF PCs
  <2> QED BY <1>1, <2>3 DEF Start, StoreOK, store
<1>2. CASE StartGuards(p)
  <2> DEFINE m == mem[p]
             r == Reconciled(m.t, m.ts)
  <2>1. m \in Memory /\ Local("st_guards", m)
    BY <1>2, AtOK DEF StartGuards
  <2>2. r \in TaskRecord /\ m.t \in Tasks
    BY <2>1, Held, TaskUpdates DEF Local, NoTaskPCs
  <2>3. task' \in [Tasks -> TaskRecord]
    <3> HIDE DEF r
    <3>1. CASE SaveTask(m.t, r)
      BY <2>2, <3>1, SaveTaskOK
    <3>2. CASE UNCHANGED task
      BY <3>2 DEF StoreOK
    <3>3. SaveTask(m.t, r) \/ UNCHANGED task
      BY <1>2 DEF StartGuards, r
    <3> QED BY <3>1, <3>2, <3>3
  <2>4. ProcsOK'
    <3> DEFINE n == [m EXCEPT !.ts = r, !.ds = disp]
    <3>1. CASE Finish(p)
      BY <3>1, FinishOK
    <3>2. CASE r.attempts < MaxAttempts /\ Goto(p, "st_supersede", n)
      <4>1. n \in Memory /\ Local("st_supersede", n)
        <5> HIDE DEF r
        <5> QED BY <2>1, <2>2, <3>2 DEF Memory, Local, StoreOK, NoDispatchPCs
      <4> QED BY <3>2, <4>1, GotoOK DEF PCs
    <3> QED BY <1>2, <3>1, <3>2 DEF StartGuards, MayStart
  <2> QED BY <1>2, <2>3, <2>4 DEF StartGuards, StoreOK
<1>3. CASE StartSupersede(p)
  <2> DEFINE m == mem[p]
             n == [m EXCEPT !.ds = Blank.ds, !.retry = None]
  <2>1. m \in Memory /\ Local("st_supersede", m)
    BY <1>3, AtOK DEF StartSupersede
  <2>2. \A d \in Dispatches : Superseded(m.ds[d]) \in DispatchRecord
    BY <2>1, Held, DispatchUpdates
  <2>3. disp' \in [Dispatches -> DispatchRecord]
    BY <1>3, <2>2 DEF StartSupersede, StoreOK
  <2>4. n \in Memory /\ Local("st_create", n)
    BY <2>1, BlankType DEF Memory, Local, NoDispatchPCs, NoTaskPCs, StartPCs
  <2>5. ProcsOK'
    <3>1. Goto(p, "st_create", n)
      BY <1>3 DEF StartSupersede
    <3> QED BY <2>4, <3>1, GotoOK DEF PCs
  <2> QED BY <1>3, <2>3, <2>5 DEF StartSupersede, StoreOK
<1>4. CASE StartBadKind(p)
  <2>1. ProcsOK'
    BY <1>4, FinishOK DEF StartBadKind
  <2> QED BY <1>4, <2>1 DEF StartBadKind, StoreOK, store
<1>5. CASE StartCreate(p)
  <2> DEFINE m == mem[p]
             n(d) == [m EXCEPT !.d = d, !.ds[d] = NewDispatch(m.t)]
  <2>1. m \in Memory /\ Local("st_create", m)
    BY <1>5, AtOK DEF StartCreate
  <2>2. PICK d \in Dispatches : SaveDispatch(d, NewDispatch(m.t)) /\ Goto(p, "st_new", n(d))
    BY <1>5 DEF StartCreate
  <2>3. NewDispatch(m.t) \in DispatchRecord
    BY <2>1 DEF Local, NoTaskPCs, NewDispatch, NoDispatch, DispatchRecord, DispatchStates
  <2>4. n(d) \in Memory /\ Local("st_new", n(d))
    BY <2>1, <2>3 DEF Memory, Local, NoDispatchPCs, NoTaskPCs, StartPCs
  <2>5. ProcsOK'
    <3> HIDE DEF n
    <3> QED BY <2>2, <2>4, GotoOK DEF PCs
  <2>6. disp' \in [Dispatches -> DispatchRecord]
    BY <2>2, <2>3, SaveDispatchOK
  <2> QED BY <1>5, <2>5, <2>6 DEF StartCreate, StoreOK
<1>6. CASE StartWithdrawn(p)
  <2> DEFINE m == mem[p]
  <2>1. m \in Memory /\ Local("st_new", m)
    BY <1>6, AtOK DEF StartWithdrawn
  <2>2. SaveDispatch(m.d, Superseded(m.ds[m.d]))
    BY <1>6 DEF StartWithdrawn
  <2>3. Superseded(m.ds[m.d]) \in DispatchRecord /\ m.d \in Dispatches
    BY <2>1, Held, DispatchUpdates DEF Local, NoDispatchPCs, NoTaskPCs, StartPCs
  <2>4. disp' \in [Dispatches -> DispatchRecord]
    BY <2>2, <2>3, SaveDispatchOK
  <2>5. ProcsOK'
    BY <1>6, FinishOK DEF StartWithdrawn
  <2> QED BY <1>6, <2>4, <2>5 DEF StartWithdrawn, StoreOK, store
<1>7. CASE StartTrustFails(p)
  <2>1. ProcsOK'
    BY <1>7, FinishOK DEF StartTrustFails
  <2> QED BY <1>7, <2>1 DEF StartTrustFails, StoreOK, store
<1>8. CASE StartPlacement(p)
  <2> DEFINE m == mem[p]
  <2>1. m \in Memory /\ Local("st_new", m)
    BY <1>8, AtOK DEF StartPlacement
  <2>2. ProcsOK'
    <3>1. Goto(p, "st_pane", m) /\ Local("st_pane", m)
      BY <1>8, <2>1 DEF StartPlacement, Local, NoDispatchPCs, NoTaskPCs, StartPCs
    <3> QED BY <2>1, <3>1, GotoOK DEF PCs
  <2> QED BY <1>8, <2>2 DEF StartPlacement, StoreOK, store
<1>9. CASE StartPaneFails(p)
  <2> DEFINE m == mem[p]
  <2>1. m \in Memory /\ Local("st_pane", m)
    BY <1>9, AtOK DEF StartPaneFails
  <2>2. SaveDispatch(m.d, Superseded(m.ds[m.d]))
    BY <1>9 DEF StartPaneFails
  <2>3. Superseded(m.ds[m.d]) \in DispatchRecord /\ m.d \in Dispatches
    BY <2>1, Held, DispatchUpdates DEF Local, NoDispatchPCs, NoTaskPCs, StartPCs
  <2>4. disp' \in [Dispatches -> DispatchRecord]
    BY <2>2, <2>3, SaveDispatchOK
  <2>5. ProcsOK'
    BY <1>9, FinishOK DEF StartPaneFails
  <2> QED BY <1>9, <2>4, <2>5 DEF StartPaneFails, StoreOK, store
<1>10. CASE StartPane(p)
  <2> DEFINE m == mem[p]
  <2>1. m \in Memory /\ Local("st_pane", m)
    BY <1>10, AtOK DEF StartPane
  <2>2. ProcsOK'
    <3>1. Goto(p, "st_pane_ready", m) /\ Local("st_pane_ready", m)
      BY <1>10, <2>1 DEF StartPane, Local, NoDispatchPCs, NoTaskPCs, StartPCs
    <3> QED BY <2>1, <3>1, GotoOK DEF PCs
  <2> QED BY <1>10, <2>2 DEF StartPane, StoreOK, store
<1>11. CASE StartPaneReady(p)
  <2> DEFINE d == mem[p].d
             r == [mem[p].ds[d] EXCEPT !.pane = TRUE]
             n == [mem[p] EXCEPT !.ds[d] = r]
             l == IF n.mode = "bare" THEN "st_commit_now" ELSE "st_launch"
  <2>1. mem[p] \in Memory /\ Local("st_pane_ready", mem[p])
    BY <1>11, AtOK DEF StartPaneReady
  <2>2. d \in Dispatches /\ r \in DispatchRecord
    BY <2>1, Held, DispatchUpdates DEF Local, NoDispatchPCs
  <2>3. n \in Memory /\ Local(l, n) /\ n.d = d /\ n.ds[d] = r
    <3> HIDE DEF r
    <3> QED BY <2>1, <2>2 DEF Memory, Local, NoDispatchPCs, NoTaskPCs, StartPCs
  <2>4. [mem[p] EXCEPT !.ds[mem[p].d].pane = TRUE] = n
    BY DEF n, r
  <2>5. SaveDispatch(n.d, n.ds[n.d]) /\ Goto(p, l, n)
    BY <1>11, <2>4 DEF StartPaneReady
  <2>6. ProcsOK'
    <3>1. l \in PCs
      BY DEF PCs
    <3> HIDE DEF n, l
    <3> QED BY <2>3, <2>5, <3>1, GotoOK
  <2>7. disp' \in [Dispatches -> DispatchRecord]
    <3> HIDE DEF n, r
    <3> QED BY <2>2, <2>3, <2>5, SaveDispatchOK
  <2> QED BY <1>11, <2>6, <2>7 DEF StartPaneReady, StoreOK
<1>12. CASE StartAgentFails(p)
  <2>1. ProcsOK'
    BY <1>12, FinishOK DEF StartAgentFails
  <2> QED BY <1>12, <2>1 DEF StartAgentFails, StoreOK, store
<1>13. CASE StartUndelivered(p)
  <2>1. mem[p] \in Memory /\ Local("st_undelivered", mem[p])
    BY <1>13, AtOK DEF StartUndelivered, Local, NoDispatchPCs, NoTaskPCs, StartPCs
  <2>2. ProcsOK'
    BY <1>13, <2>1, GotoOK DEF StartUndelivered, PCs
  <2> QED BY <1>13, <2>2 DEF StartUndelivered, StoreOK, store
<1>14. CASE StartUndeliveredSave(p)
  <2> DEFINE m == mem[p]
  <2>1. m \in Memory /\ Local("st_undelivered", m)
    BY <1>14, AtOK DEF StartUndeliveredSave
  <2>2. SaveDispatch(m.d, Abandoned(m.ds[m.d]))
    BY <1>14 DEF StartUndeliveredSave
  <2>3. Abandoned(m.ds[m.d]) \in DispatchRecord /\ m.d \in Dispatches
    BY <2>1, Held, DispatchUpdates DEF Local, NoDispatchPCs, NoTaskPCs, StartPCs
  <2>4. disp' \in [Dispatches -> DispatchRecord]
    BY <2>2, <2>3, SaveDispatchOK
  <2>5. ProcsOK'
    BY <1>14, FinishOK DEF StartUndeliveredSave
  <2> QED BY <1>14, <2>4, <2>5 DEF StartUndeliveredSave, StoreOK, store
<1>15. CASE StartDelivered(p)
  <2> DEFINE m == mem[p]
  <2>1. m \in Memory /\ Local("st_launch", m)
    BY <1>15, AtOK DEF StartDelivered
  <2>2. ProcsOK'
    <3>1. Goto(p, "st_commit", m) /\ Local("st_commit", m)
      BY <1>15, <2>1 DEF StartDelivered, Local, NoDispatchPCs, NoTaskPCs, StartPCs
    <3> QED BY <2>1, <3>1, GotoOK DEF PCs
  <2> QED BY <1>15, <2>2 DEF StartDelivered, StoreOK, store
<1>16. CASE StartCommit(p)
  <2> DEFINE m == mem[p]
  <2>1. m \in Memory /\ m.d \in Dispatches /\ Local("st_task", m)
    BY <1>16, AtOK DEF StartCommit, Local, NoDispatchPCs, NoTaskPCs, StartPCs
  <2>2. disp' \in [Dispatches -> DispatchRecord]
    BY <1>16, <2>1, Held, DispatchUpdates, SaveDispatchOK DEF StartCommit
  <2>3. ProcsOK'
    <3>1. Goto(p, "st_task", m)
      BY <1>16 DEF StartCommit
    <3> QED BY <2>1, <3>1, GotoOK DEF PCs
  <2> QED BY <1>16, <2>2, <2>3 DEF StartCommit, StoreOK
<1>17. CASE StartTask(p)
  <2> DEFINE m == mem[p]
             r == [m.ts EXCEPT !.attempts = m.ts.attempts + 1, !.state = "dispatched", !.live = m.d]
  <2>1. m \in Memory /\ Local("st_task", m)
    BY <1>17, AtOK DEF StartTask
  <2>2. m.t \in Tasks /\ m.d \in Dispatches /\ m.ts \in TaskRecord /\ m.ts.attempts < MaxAttempts
    BY <2>1, Held DEF Local, NoDispatchPCs, NoTaskPCs, StartPCs
  <2>3. SaveTask(m.t, r)
    BY <1>17, <2>2 DEF StartTask, TaskRecord
  <2>4. r \in TaskRecord
    BY <2>2, CountedAttempt
  <2>5. task' \in [Tasks -> TaskRecord]
    <3> HIDE DEF r
    <3> QED BY <2>2, <2>3, <2>4, SaveTaskOK
  <2>6. ProcsOK'
    BY <1>17, FinishOK DEF StartTask
  <2> QED BY <1>17, <2>5, <2>6 DEF StartTask, StoreOK
<1> QED BY <1>1, <1>2, <1>3, <1>4, <1>5, <1>6, <1>7, <1>8, <1>9, <1>10,
           <1>11, <1>12, <1>13, <1>14, <1>15, <1>16, <1>17 DEF StartNext

LEMMA CancelTyped == ASSUME Typed, NEW p \in Procs, CancelNext(p) PROVE Typed'
<1> USE DEF Typed
<1>1. CASE DispatchCancel(p)
  <2> DEFINE m(d) == [Blank EXCEPT !.d = d, !.t = disp[d].task, !.ds[d] = disp[d]]
  <2>1. PICK d \in Dispatches :
           (Created(d)) /\ Goto(p, "dc_save", m(d))
    BY <1>1 DEF DispatchCancel
  <2>2. m(d) \in Memory /\ Local("dc_save", m(d))
    BY <2>1, BlankType DEF Memory, Local, StoreOK, StartPCs, Created, DispatchRecord
  <2>3. ProcsOK'
    <3> HIDE DEF m
    <3> QED BY <2>1, <2>2, GotoOK DEF PCs
  <2> QED BY <1>1, <2>3 DEF DispatchCancel, StoreOK, store
<1>2. CASE DispatchCancelSave(p)
  <2> DEFINE m == mem[p]
             n == [m EXCEPT !.ts = task[m.t]]
  <2>1. m \in Memory /\ Local("dc_save", m)
    BY <1>2, AtOK DEF DispatchCancelSave
  <2>2. disp' \in [Dispatches -> DispatchRecord]
    BY <1>2, <2>1, Held, DispatchUpdates, SaveDispatchOK
       DEF DispatchCancelSave, Local, NoDispatchPCs
  <2>3. n \in Memory /\ Local("dc_task", n)
    BY <2>1 DEF Memory, Local, StoreOK, NoDispatchPCs, NoTaskPCs, StartPCs
  <2>4. Goto(p, "dc_task", n) \/ Finish(p)
    BY <1>2 DEF DispatchCancelSave
  <2>5. ProcsOK'
    BY <2>3, <2>4, GotoOK, FinishOK DEF PCs
  <2> QED BY <1>2, <2>2, <2>5 DEF DispatchCancelSave, StoreOK
<1>3. CASE DispatchCancelTask(p)
  <2> DEFINE m == mem[p]
             r(s) == [m.ts EXCEPT !.live = None, !.state = s]
  <2>1. m \in Memory /\ Local("dc_task", m)
    BY <1>3, AtOK DEF DispatchCancelTask
  <2>2. /\ m.t \in Tasks /\ m.ts \in TaskRecord
        /\ r("ready") \in TaskRecord /\ r(m.ts.state) \in TaskRecord
    BY <2>1, Held DEF Local, NoTaskPCs, TaskRecord, TaskStates
  <2>3. SaveTask(m.t, r("ready")) \/ SaveTask(m.t, r(m.ts.state))
    BY <1>3, <2>2 DEF DispatchCancelTask, TaskRecord
  <2>4. task' \in [Tasks -> TaskRecord]
    <3> HIDE DEF r
    <3> QED BY <2>2, <2>3, SaveTaskOK
  <2>5. ProcsOK'
    BY <1>3, FinishOK DEF DispatchCancelTask
  <2> QED BY <1>3, <2>4, <2>5 DEF DispatchCancelTask, StoreOK
<1>4. CASE TaskCancel(p)
  <2> DEFINE m(t) == [Blank EXCEPT !.t = t, !.ts = task[t], !.d = task[t].live]
             n(t) == [m(t) EXCEPT !.ds[m(t).d] = disp[m(t).d]]
  <2>1. PICK t \in Tasks : IF m(t).d = None THEN Goto(p, "tc_task", m(t))
                                            ELSE Goto(p, "tc_dispatch", n(t))
    BY <1>4 DEF TaskCancel
  <2>2. m(t) \in Memory /\ Local("tc_task", m(t)) /\ m(t).d = task[t].live
    BY BlankType DEF Memory, Local, StoreOK, TaskRecord, NoDispatchPCs, NoTaskPCs, StartPCs
  <2>3. m(t).d # None => n(t) \in Memory /\ Local("tc_dispatch", n(t))
    <3> HIDE DEF m
    <3> QED BY <2>2 DEF Memory, Local, StoreOK, NoDispatchPCs, NoTaskPCs, StartPCs
  <2>4. ProcsOK'
    <3> HIDE DEF m, n
    <3> QED BY <2>1, <2>2, <2>3, GotoOK DEF PCs
  <2> QED BY <1>4, <2>4 DEF TaskCancel, StoreOK, store
<1>5. CASE TaskCancelDispatch(p)
  <2> DEFINE m == mem[p]
  <2>1. m \in Memory /\ Local("tc_dispatch", m)
    BY <1>5, AtOK DEF TaskCancelDispatch
  <2>2. SaveDispatch(m.d, Superseded(m.ds[m.d])) \/ UNCHANGED disp
    BY <1>5 DEF TaskCancelDispatch
  <2>3. disp' \in [Dispatches -> DispatchRecord]
    BY <2>1, <2>2, Held, DispatchUpdates, SaveDispatchOK DEF Local, NoDispatchPCs, StoreOK
  <2>4. ProcsOK'
    <3>1. Goto(p, "tc_task", m) /\ Local("tc_task", m)
      BY <1>5, <2>1 DEF TaskCancelDispatch, Local, NoDispatchPCs, NoTaskPCs, StartPCs
    <3> QED BY <2>1, <3>1, GotoOK DEF PCs
  <2> QED BY <1>5, <2>3, <2>4 DEF TaskCancelDispatch, StoreOK
<1>6. CASE TaskCancelTask(p)
  <2> DEFINE m == mem[p]
  <2>1. m \in Memory /\ Local("tc_task", m)
    BY <1>6, AtOK DEF TaskCancelTask
  <2>2. SaveTask(m.t, [m.ts EXCEPT !.state = "cancelled", !.live = None])
    BY <1>6 DEF TaskCancelTask
  <2>3. [m.ts EXCEPT !.state = "cancelled", !.live = None] \in TaskRecord /\ m.t \in Tasks
    BY <2>1, Held, TaskUpdates DEF TaskStates, Local, NoDispatchPCs, NoTaskPCs, StartPCs
  <2>4. task' \in [Tasks -> TaskRecord]
    BY <2>2, <2>3, SaveTaskOK
  <2>5. ProcsOK'
    BY <1>6, FinishOK DEF TaskCancelTask
  <2> QED BY <1>6, <2>4, <2>5 DEF TaskCancelTask, StoreOK, store
<1> QED BY <1>1, <1>2, <1>3, <1>4, <1>5, <1>6 DEF CancelNext

LEMMA TaskTyped == ASSUME Typed, NEW p \in Procs, TaskNext(p) PROVE Typed'
<1> USE DEF Typed
<1>1. CASE TaskUpdate(p)
  <2> DEFINE r(t, to) == [task[t] EXCEPT !.state = to]
             m(t, to) == [Blank EXCEPT !.t = t, !.ts = r(t, to)]
  <2>1. PICK t \in Tasks, to \in TaskStates : Goto(p, "up_save", m(t, to))
    BY <1>1 DEF TaskUpdate
  <2>2. r(t, to) \in TaskRecord
    BY TaskUpdates DEF StoreOK
  <2>3. m(t, to) \in Memory /\ Local("up_save", m(t, to))
    <3> HIDE DEF r
    <3> QED BY <2>2, BlankType DEF Memory, Local, NoDispatchPCs, NoTaskPCs, StartPCs
  <2>4. ProcsOK'
    <3> HIDE DEF m
    <3> QED BY <2>1, <2>3, GotoOK DEF PCs
  <2> QED BY <1>1, <2>4 DEF TaskUpdate, StoreOK, store
<1>2. CASE TaskUpdateSave(p)
  <2> DEFINE m == mem[p]
  <2>1. m \in Memory /\ Local("up_save", m)
    BY <1>2, AtOK DEF TaskUpdateSave
  <2>2. SaveTask(m.t, Reconciled(m.t, m.ts))
    BY <1>2 DEF TaskUpdateSave
  <2>3. Reconciled(m.t, m.ts) \in TaskRecord /\ m.t \in Tasks
    BY <2>1, Held, TaskUpdates DEF Local, NoDispatchPCs, NoTaskPCs, StartPCs
  <2>4. task' \in [Tasks -> TaskRecord]
    BY <2>2, <2>3, SaveTaskOK
  <2>5. ProcsOK'
    BY <1>2, FinishOK DEF TaskUpdateSave
  <2> QED BY <1>2, <2>4, <2>5 DEF TaskUpdateSave, StoreOK, store
<1>3. CASE Readiness(p)
  <2> DEFINE m(t) == [Blank EXCEPT !.t = t, !.ts = Reconciled(t, task[t])]
  <2>1. PICK t \in Tasks :
           Goto(p, "rc_save", m(t))
    BY <1>3 DEF Readiness
  <2>2. m(t) \in Memory /\ Local("rc_save", m(t))
    BY BlankType, TaskUpdates DEF Memory, Local, StoreOK, NoDispatchPCs, StartPCs
  <2>3. ProcsOK'
    <3> HIDE DEF m
    <3> QED BY <2>1, <2>2, GotoOK DEF PCs
  <2> QED BY <1>3, <2>3 DEF Readiness, StoreOK, store
<1>4. CASE ReadinessSave(p)
  <2> DEFINE m == mem[p]
  <2>1. m \in Memory /\ Local("rc_save", m)
    BY <1>4, AtOK DEF ReadinessSave
  <2>2. SaveTask(m.t, m.ts)
    BY <1>4 DEF ReadinessSave
  <2>3. m.ts \in TaskRecord /\ m.t \in Tasks
    BY <2>1, Held, TaskUpdates DEF Local, NoDispatchPCs, NoTaskPCs, StartPCs
  <2>4. task' \in [Tasks -> TaskRecord]
    BY <2>2, <2>3, SaveTaskOK
  <2>5. ProcsOK'
    BY <1>4, FinishOK DEF ReadinessSave
  <2> QED BY <1>4, <2>4, <2>5 DEF ReadinessSave, StoreOK, store
<1> QED BY <1>1, <1>2, <1>3, <1>4 DEF TaskNext

LEMMA CleanupTyped == ASSUME Typed, NEW p \in Procs, CleanupNext(p) PROVE Typed'
<1> USE DEF Typed
<1>1. CASE Release(p)
  <2> DEFINE m(d) == [Blank EXCEPT !.d = d, !.ds[d] = disp[d]]
  <2>1. PICK d \in Dispatches :
           Goto(p, "rl_save", m(d))
    BY <1>1 DEF Release
  <2>2. m(d) \in Memory /\ Local("rl_save", m(d))
    BY BlankType, CopyTyped DEF Memory, Local, NoTaskPCs, StartPCs
  <2>3. ProcsOK'
    <3> HIDE DEF m
    <3> QED BY <2>1, <2>2, GotoOK DEF PCs
  <2> QED BY <1>1, <2>3 DEF Release, StoreOK, store
<1>2. CASE ReleaseSave(p)
  <2> DEFINE d == mem[p].d
             r == [mem[p].ds[d] EXCEPT !.released = TRUE]
  <2>1. mem[p] \in Memory /\ Local("rl_save", mem[p])
    BY <1>2, AtOK DEF ReleaseSave
  <2>2. d \in Dispatches /\ r \in DispatchRecord /\ Abandoned(r) \in DispatchRecord
    BY <2>1, Held, DispatchUpdates DEF Local, NoDispatchPCs
  <2>3. SaveDispatch(d, r) \/ SaveDispatch(d, Abandoned(r))
    BY <1>2 DEF ReleaseSave
  <2>4. disp' \in [Dispatches -> DispatchRecord]
    <3> HIDE DEF r
    <3> QED BY <2>2, <2>3, SaveDispatchOK
  <2>5. ProcsOK'
    BY <1>2, FinishOK DEF ReleaseSave
  <2> QED BY <1>2, <2>2, <2>4, <2>5 DEF ReleaseSave, StoreOK
<1>3. CASE DoctorOrphan(p)
  <2> DEFINE m(d) == [Blank EXCEPT !.d = d, !.t = disp[d].task, !.ds[d] = disp[d]]
  <2>1. PICK d \in Dispatches :
           (Created(d)) /\ Goto(p, "dr_scan", m(d))
    BY <1>3 DEF DoctorOrphan
  <2>2. m(d) \in Memory /\ Local("dr_scan", m(d))
    BY <2>1, BlankType DEF Memory, Local, StoreOK, StartPCs, Created, DispatchRecord
  <2>3. ProcsOK'
    <3> HIDE DEF m
    <3> QED BY <2>1, <2>2, GotoOK DEF PCs
  <2> QED BY <1>3, <2>3 DEF DoctorOrphan, StoreOK, store
<1>4. CASE DoctorAbandon(p)
  <2> DEFINE m == mem[p]
             n == [m EXCEPT !.ts = task[m.t]]
  <2>1. m \in Memory /\ Local("dr_scan", m)
    BY <1>4, AtOK DEF DoctorAbandon
  <2>2. disp' \in [Dispatches -> DispatchRecord]
    BY <1>4, <2>1, Held, DispatchUpdates, SaveDispatchOK DEF DoctorAbandon, Local, NoDispatchPCs
  <2>3. n \in Memory /\ Local("dr_task", n)
    BY <2>1 DEF Memory, Local, StoreOK, NoDispatchPCs, NoTaskPCs, StartPCs
  <2>4. Goto(p, "dr_task", n) \/ Finish(p)
    BY <1>4 DEF DoctorAbandon
  <2>5. ProcsOK'
    BY <2>3, <2>4, GotoOK, FinishOK DEF PCs
  <2> QED BY <1>4, <2>2, <2>5 DEF DoctorAbandon, StoreOK
<1>5. CASE DoctorTask(p)
  <2> DEFINE m == mem[p]
             r(s) == [m.ts EXCEPT !.live = None, !.state = s]
  <2>1. m \in Memory /\ Local("dr_task", m)
    BY <1>5, AtOK DEF DoctorTask
  <2>2. SaveTask(m.t, r("failed")) \/ SaveTask(m.t, r("ready"))
    BY <1>5 DEF DoctorTask
  <2>3. m.t \in Tasks /\ r("failed") \in TaskRecord /\ r("ready") \in TaskRecord
    BY <2>1, Held DEF Local, NoTaskPCs, TaskRecord, TaskStates
  <2>4. task' \in [Tasks -> TaskRecord]
    <3> HIDE DEF r
    <3> QED BY <2>2, <2>3, SaveTaskOK
  <2>5. ProcsOK'
    BY <1>5, FinishOK DEF DoctorTask
  <2> QED BY <1>5, <2>4, <2>5 DEF DoctorTask, StoreOK
<1>6. CASE DoctorZombie(p)
  <2> DEFINE m(d) == [Blank EXCEPT !.d = d, !.ds[d] = disp[d]]
  <2>1. PICK d \in Dispatches :
           Goto(p, "zb_close", m(d))
    BY <1>6 DEF DoctorZombie
  <2>2. m(d) \in Memory /\ Local("zb_close", m(d))
    BY BlankType, CopyTyped DEF Memory, Local, NoTaskPCs, StartPCs
  <2>3. ProcsOK'
    <3> HIDE DEF m
    <3> QED BY <2>1, <2>2, GotoOK DEF PCs
  <2> QED BY <1>6, <2>3 DEF DoctorZombie, StoreOK, store
<1>7. CASE DoctorClose(p)
  <2> DEFINE m == mem[p]
  <2>1. m \in Memory /\ Local("zb_close", m)
    BY <1>7, AtOK DEF DoctorClose
  <2>2. SaveDispatch(m.d, [m.ds[m.d] EXCEPT !.released = TRUE])
    BY <1>7 DEF DoctorClose
  <2>3. [m.ds[m.d] EXCEPT !.released = TRUE] \in DispatchRecord /\ m.d \in Dispatches
    BY <2>1, Held, DispatchUpdates DEF Local, NoDispatchPCs, NoTaskPCs, StartPCs
  <2>4. disp' \in [Dispatches -> DispatchRecord]
    BY <2>2, <2>3, SaveDispatchOK
  <2>5. ProcsOK'
    BY <1>7, FinishOK DEF DoctorClose
  <2> QED BY <1>7, <2>4, <2>5 DEF DoctorClose, StoreOK, store
<1>8. CASE DoctorSkip(p)
  <2>1. ProcsOK'
    BY <1>8, FinishOK DEF DoctorSkip
  <2> QED BY <1>8, <2>1 DEF DoctorSkip, StoreOK, store
<1>9. CASE PaneClosedHook(p)
  <2> DEFINE m(d) == [Blank EXCEPT !.d = d, !.ds[d] = disp[d]]
  <2>1. PICK d \in Dispatches :
           Goto(p, "hk_save", m(d))
    BY <1>9 DEF PaneClosedHook
  <2>2. m(d) \in Memory /\ Local("hk_save", m(d))
    BY BlankType, CopyTyped DEF Memory, Local, NoTaskPCs, StartPCs
  <2>3. ProcsOK'
    <3> HIDE DEF m
    <3> QED BY <2>1, <2>2, GotoOK DEF PCs
  <2> QED BY <1>9, <2>3 DEF PaneClosedHook, StoreOK, store
<1>10. CASE PaneClosedSave(p)
  <2> DEFINE m == mem[p]
  <2>1. m \in Memory /\ Local("hk_save", m)
    BY <1>10, AtOK DEF PaneClosedSave
  <2>2. SaveDispatch(m.d, Abandoned(m.ds[m.d]))
    BY <1>10 DEF PaneClosedSave
  <2>3. Abandoned(m.ds[m.d]) \in DispatchRecord /\ m.d \in Dispatches
    BY <2>1, Held, DispatchUpdates DEF Local, NoDispatchPCs, NoTaskPCs, StartPCs
  <2>4. disp' \in [Dispatches -> DispatchRecord]
    BY <2>2, <2>3, SaveDispatchOK
  <2>5. ProcsOK'
    BY <1>10, FinishOK DEF PaneClosedSave
  <2> QED BY <1>10, <2>4, <2>5 DEF PaneClosedSave, StoreOK, store
<1> QED BY <1>1, <1>2, <1>3, <1>4, <1>5, <1>6, <1>7, <1>8, <1>9, <1>10 DEF CleanupNext

LEMMA WaitTyped == ASSUME Typed, NEW p \in Procs, WaitNext(p) PROVE Typed'
<1> USE DEF Typed
<1>1. CASE Wait(p)
  <2> DEFINE m(d, f, n) == [Blank EXCEPT !.d = d, !.arg = f, !.n = n, !.ds[d] = disp[d]]
  <2>1. PICK d \in Dispatches, f \in Outcomes \cup {None}, n \in {0, seq} :
           Goto(p, "wt_block", m(d, f, n))
    BY <1>1 DEF Wait
  <2>2. n \in Nat
    BY DEF StoreOK
  <2>3. m(d, f, n) \in Memory
    BY <2>2, BlankType, CopyTyped DEF Memory
  <2>4. Local("wt_block", m(d, f, n))
    BY BlankType DEF Memory, Local, NoDispatchPCs, NoTaskPCs, StartPCs
  <2>5. ProcsOK'
    <3> HIDE DEF m
    <3> QED BY <2>1, <2>3, <2>4, GotoOK DEF PCs
  <2> QED BY <1>1, <2>5 DEF Wait, StoreOK, store
<1>2. CASE WaitFound(p)
  <2>1. ProcsOK'
    BY <1>2, FinishOK DEF WaitFound
  <2> QED BY <1>2, <2>1 DEF WaitFound, StoreOK, store
<1>3. CASE WaitTimeout(p)
  <2> DEFINE m == mem[p]
  <2>1. m \in Memory /\ Local("wt_block", m)
    BY <1>3, AtOK DEF WaitTimeout
  <2>2. SaveDispatch(m.d, m.ds[m.d])
    BY <1>3 DEF WaitTimeout
  <2>3. m.ds[m.d] \in DispatchRecord /\ m.d \in Dispatches
    BY <2>1, Held, DispatchUpdates DEF Local, NoDispatchPCs, NoTaskPCs, StartPCs
  <2>4. disp' \in [Dispatches -> DispatchRecord]
    BY <2>2, <2>3, SaveDispatchOK
  <2>5. ProcsOK'
    BY <1>3, FinishOK DEF WaitTimeout
  <2> QED BY <1>3, <2>4, <2>5 DEF WaitTimeout, StoreOK, store
<1>4. CASE WaitPaneEvent(p)
  <2> DEFINE m == mem[p]
  <2>1. m \in Memory /\ Local("wt_block", m)
    BY <1>4, AtOK DEF WaitPaneEvent
  <2>2. ProcsOK'
    <3>1. Goto(p, "wt_confirm", m) /\ Local("wt_confirm", m)
      BY <1>4, <2>1 DEF WaitPaneEvent, Local, NoDispatchPCs, NoTaskPCs, StartPCs
    <3> QED BY <2>1, <3>1, GotoOK DEF PCs
  <2> QED BY <1>4, <2>2 DEF WaitPaneEvent, StoreOK, store
<1>5. CASE WaitSpurious(p)
  <2> DEFINE m == mem[p]
  <2>1. m \in Memory /\ Local("wt_confirm", m)
    BY <1>5, AtOK DEF WaitSpurious
  <2>2. SaveDispatch(m.d, m.ds[m.d])
    BY <1>5 DEF WaitSpurious
  <2>3. m.ds[m.d] \in DispatchRecord /\ m.d \in Dispatches
    BY <2>1, Held, DispatchUpdates DEF Local, NoDispatchPCs, NoTaskPCs, StartPCs
  <2>4. disp' \in [Dispatches -> DispatchRecord]
    BY <2>2, <2>3, SaveDispatchOK
  <2>5. ProcsOK'
    <3>1. Goto(p, "wt_block", m) /\ Local("wt_block", m)
      BY <1>5, <2>1 DEF WaitSpurious, Local, NoDispatchPCs, NoTaskPCs, StartPCs
    <3> QED BY <2>1, <3>1, GotoOK DEF PCs
  <2> QED BY <1>5, <2>4, <2>5 DEF WaitSpurious, StoreOK, store
<1>6. CASE WaitConfirmed(p)
  <2> DEFINE m == mem[p]
  <2>1. m \in Memory /\ Local("wt_confirm", m)
    BY <1>6, AtOK DEF WaitConfirmed
  <2>2. ProcsOK'
    <3>1. Goto(p, "wt_abandon", [m EXCEPT !.ds[m.d] = disp[m.d]])
      BY <1>6 DEF WaitConfirmed
    <3>2. /\ [m EXCEPT !.ds[m.d] = disp[m.d]] \in Memory
          /\ Local("wt_abandon", [m EXCEPT !.ds[m.d] = disp[m.d]])
      BY <2>1 DEF Local, Memory, StoreOK, NoDispatchPCs, NoTaskPCs, StartPCs
    <3> QED BY <3>1, <3>2, GotoOK DEF PCs
  <2> QED BY <1>6, <2>2 DEF WaitConfirmed, StoreOK, store
<1>7. CASE WaitAbandon(p)
  <2> DEFINE m == mem[p]
             r == m.ds[m.d]
  <2>1. m \in Memory /\ Local("wt_abandon", m)
    BY <1>7, AtOK DEF WaitAbandon
  <2>2. SaveDispatch(m.d, [r EXCEPT !.auth = FALSE]) \/ SaveDispatch(m.d, Abandoned(r))
    BY <1>7 DEF WaitAbandon
  <2>3. disp' \in [Dispatches -> DispatchRecord]
    BY <2>1, <2>2, Held, DispatchUpdates, SaveDispatchOK DEF Local, NoDispatchPCs
  <2>4. ProcsOK'
    BY <1>7, FinishOK DEF WaitAbandon
  <2> QED BY <1>7, <2>3, <2>4 DEF WaitAbandon, StoreOK
<1>8. CASE Nudge(p)
  <2> DEFINE m(d) == [Blank EXCEPT !.d = d, !.ds[d] = disp[d]]
  <2>1. PICK d \in Dispatches :
           Goto(p, "nd_save", m(d))
    BY <1>8 DEF Nudge
  <2>2. m(d) \in Memory /\ Local("nd_save", m(d))
    BY BlankType, CopyTyped DEF Memory, Local, NoTaskPCs, StartPCs
  <2>3. ProcsOK'
    <3> HIDE DEF m
    <3> QED BY <2>1, <2>2, GotoOK DEF PCs
  <2> QED BY <1>8, <2>3 DEF Nudge, StoreOK, store
<1>9. CASE NudgeSave(p)
  <2> DEFINE m == mem[p]
  <2>1. m \in Memory /\ Local("nd_save", m)
    BY <1>9, AtOK DEF NudgeSave
  <2>2. SaveDispatch(m.d, m.ds[m.d])
    BY <1>9 DEF NudgeSave
  <2>3. m.ds[m.d] \in DispatchRecord /\ m.d \in Dispatches
    BY <2>1, Held, DispatchUpdates DEF Local, NoDispatchPCs, NoTaskPCs, StartPCs
  <2>4. disp' \in [Dispatches -> DispatchRecord]
    BY <2>2, <2>3, SaveDispatchOK
  <2>5. ProcsOK'
    BY <1>9, FinishOK DEF NudgeSave
  <2> QED BY <1>9, <2>4, <2>5 DEF NudgeSave, StoreOK, store
<1> QED BY <1>1, <1>2, <1>3, <1>4, <1>5, <1>6, <1>7, <1>8, <1>9 DEF WaitNext

LEMMA CrashTyped == ASSUME Typed, NEW p \in Procs, Crash(p) PROVE Typed'
<1>1. ProcsOK'
  BY FinishOK DEF Crash, Typed
<1> QED BY <1>1 DEF Crash, StoreOK, store, Typed

LEMMA PaneDiesTyped == ASSUME Typed, NEW d \in Dispatches, PaneDies(d) PROVE Typed'
  BY DEF PaneDies, StoreOK, store, Typed, ProcsOK, LocalOK, Local

LEMMA InitTyped == Init => Typed
  BY BlankType, BoundsAreNat, DepsAreTasks
  DEF Init, Typed, StoreOK, ProcsOK, LocalOK, TaskRecord, TaskStates, DispatchRecord, NewTask,
      NoDispatch, PCs

LEMMA StutterTyped == Typed /\ UNCHANGED vars => Typed'
  BY DEF Typed, StoreOK, ProcsOK, LocalOK, Local, vars

LEMMA NextTyped == Typed /\ [Next]_vars => Typed'
<1> SUFFICES ASSUME Typed, [Next]_vars PROVE Typed'
  OBVIOUS
<1>1. ASSUME NEW p \in Procs, ProcNext(p) PROVE Typed'
  BY <1>1, DoneTyped, MessageTyped, StartTyped, CancelTyped, TaskTyped, CleanupTyped,
     WaitTyped, CrashTyped DEF ProcNext
<1> QED BY <1>1, PaneDiesTyped, StutterTyped DEF Next

\* The type invariant, and with it what each process may rely on at its label.
THEOREM TypedInvariant == Spec => []Typed
BY InitTyped, NextTyped, PTL DEF Spec

\* What a step of a command may do to the dispatches, and what the history makes of it.
Recorded ==
    \/ UNCHANGED <<disp, everLive>>
    \/ \E d \in Dispatches : \E r : SaveDispatch(d, r)
    \/ /\ UNCHANGED everLive
       /\ \A d \in Dispatches : disp'[d] = disp[d] \/ disp'[d].state = "superseded"

LEMMA StepsRecorded == ASSUME Typed, NEW p \in Procs, ProcNext(p) PROVE Recorded
<1> DEFINE m == mem[p]
<1> USE DEF At, store
<1>1. pc[p] \notin NoDispatchPCs => m.d \in Dispatches
  BY DEF Typed, ProcsOK, LocalOK, Local
<1>2. ASSUME pc[p] \notin NoDispatchPCs, NEW r, SaveDispatch(m.d, r) PROVE Recorded
  BY <1>1, <1>2 DEF Recorded
<1>3. CASE UNCHANGED <<disp, everLive>>
  BY <1>3 DEF Recorded
<1>4. DoneNext(p) => Recorded
  BY <1>2, <1>3 DEF DoneNext, DoneVerdict, DonePersist, DoneDispatch, DoneTask, NoDispatchPCs
<1>5. MessageNext(p) => Recorded
  BY <1>2, <1>3 DEF MessageNext, SelfDispatch, WriteMessage, NoDispatchPCs
<1>6. StartNext(p) => Recorded
  <2>1. CASE StartSupersede(p)
    <3>1. /\ UNCHANGED everLive
          /\ disp' = [d \in Dispatches |-> IF d \in ToSupersede(m) THEN Superseded(m.ds[d])
                                                                    ELSE disp[d]]
      BY <2>1 DEF StartSupersede
    <3>2. m \in Memory
      BY DEF Typed, ProcsOK
    <3>3. \A d \in Dispatches : Superseded(m.ds[d]).state = "superseded"
      BY <3>2 DEF Memory, DispatchRecord, Superseded
    <3>4. \A d \in Dispatches : disp'[d] = disp[d] \/ disp'[d].state = "superseded"
      BY <3>1, <3>3
    <3> QED BY <3>1, <3>4 DEF Recorded
  <2>2. CASE StartCreate(p)
    BY <2>2 DEF StartCreate, Recorded
  <2>3. CASE StartPaneReady(p)
    <3> DEFINE n == [m EXCEPT !.ds[m.d].pane = TRUE]
    <3>1. SaveDispatch(n.d, n.ds[n.d]) /\ pc[p] = "st_pane_ready"
      BY <2>3 DEF StartPaneReady
    <3>2. n.d = m.d
      BY DEF Typed, ProcsOK, Memory
    <3> QED BY <1>2, <3>1, <3>2 DEF NoDispatchPCs
  <2>4. CASE StartWithdrawn(p) \/ StartPaneFails(p) \/ StartUndeliveredSave(p) \/ StartCommit(p)
    BY <1>2, <2>4 DEF StartWithdrawn, StartPaneFails, StartUndeliveredSave, StartCommit,
       NoDispatchPCs
  <2> QED BY <1>3, <2>1, <2>2, <2>3, <2>4
          DEF StartNext, Start, StartGuards, StartBadKind, StartTrustFails, StartPlacement,
              StartPane, StartAgentFails, StartUndelivered, StartDelivered, StartTask
<1>7. CancelNext(p) => Recorded
  BY <1>2, <1>3 DEF CancelNext, DispatchCancel, DispatchCancelSave, DispatchCancelTask, TaskCancel,
     TaskCancelDispatch, TaskCancelTask, NoDispatchPCs
<1>8. TaskNext(p) \/ Crash(p) => Recorded
  BY <1>3 DEF TaskNext, TaskUpdate, TaskUpdateSave, Readiness, ReadinessSave, Crash
<1>9. CleanupNext(p) => Recorded
  BY <1>2, <1>3 DEF CleanupNext, Release, ReleaseSave, DoctorOrphan, DoctorAbandon, DoctorTask,
     DoctorZombie, DoctorClose, DoctorSkip, PaneClosedHook, PaneClosedSave, NoDispatchPCs
<1>10. WaitNext(p) => Recorded
  BY <1>2, <1>3 DEF WaitNext, Wait, WaitFound, WaitTimeout, WaitPaneEvent, WaitSpurious,
     WaitConfirmed, WaitAbandon, Nudge, NudgeSave, NoDispatchPCs
<1> QED BY <1>4, <1>5, <1>6, <1>7, <1>8, <1>9, <1>10 DEF ProcNext

\* Every record in the store, and every copy a process holds, has its type: in particular no
\* task is ever given more attempts than the circuit breaker allows.
THEOREM TypeCorrect == Spec => []TypeOK
<1> DEFINE History == everLive \in SUBSET Dispatches
<1>1. Typed /\ History => TypeOK
  BY DEF Typed, StoreOK, ProcsOK, TypeOK
<1>2. Init => History
  BY DEF Init
<1>3. Typed /\ History /\ [Next]_vars => History'
  <2> SUFFICES ASSUME Typed, History, [Next]_vars PROVE History'
    OBVIOUS
  <2>1. ASSUME NEW p \in Procs, ProcNext(p) PROVE History'
    BY <2>1, StepsRecorded DEF Recorded, SaveDispatch
  <2> QED BY <2>1 DEF Next, PaneDies, vars, store
<1>4. Spec => []History
  BY <1>2, <1>3, TypedInvariant, PTL DEF Spec
<1> QED BY <1>1, <1>4, TypedInvariant, PTL

-----------------------------------------------------------------------------
(* Evidence: nothing but a report that is in the inbox settles a dispatch, completes a task  *)
(* or makes a duplicate.  The three properties are not inductive by themselves: commands     *)
(* write back records they read earlier, so whatever holds of the store has to hold of every *)
(* copy in a process's memory, and a `done` that has filed its report has to find it still   *)
(* there when it settles.                                                                    *)

ReportsIn(box) == {m \in box : m.type = "report"}

\* The dispatch record r of d, the task record r of t, are backed by reports in box.
DispatchBacked(box, d, r) ==
    r.state = "settled" =>
        \E m \in ReportsIn(box) : m.seq = r.report /\ m.disp = d /\ m.outcome = r.outcome
TaskBacked(box, t, r) ==
    r.state = "completed" => \E m \in ReportsIn(box) : m.task = t /\ m.outcome = "succeeded"

\* So is everything a process at label l holds in its memory m, when n is the last number.
ProcessBacked(box, n, l, m) ==
    /\ \A d \in Dispatches : DispatchBacked(box, d, m.ds[d])
    /\ l \notin NoTaskPCs => TaskBacked(box, m.t, m.ts)
    /\ l \in {"dn_dispatch", "dn_task"} =>
          [seq |-> m.n, type |-> "report", task |-> m.t, disp |-> m.d, outcome |-> m.arg] \in box
    /\ l = "dn_persist" /\ m.why = "already_settled" =>
          \E x \in ReportsIn(box) : x.disp = m.d /\ x.seq <= n

DispatchesBacked(box, f) == \A d \in Dispatches : DispatchBacked(box, d, f[d])
TasksBacked(box, f) == \A t \in Tasks : TaskBacked(box, t, f[t])
ProcessesBacked == \A p \in Procs : ProcessBacked(inbox, seq, pc[p], mem[p])
NumbersClaimed == \A m \in inbox : m.seq <= seq

\* The inductive invariant.
Evidence ==
    /\ Typed
    /\ DispatchesBacked(inbox, disp)
    /\ TasksBacked(inbox, task)
    /\ ProcessesBacked
    /\ NumbersClaimed
    /\ DuplicateHasOriginal

-----------------------------------------------------------------------------
\* Reports are never removed and numbers only grow, so evidence is never lost.
LEMMA EvidenceGrows ==
    ASSUME NEW box, NEW box2, box \subseteq box2, NEW n \in Nat, NEW n2 \in Nat, n <= n2,
           \A m \in box : m.seq \in Nat
    PROVE  /\ \A d, r : DispatchBacked(box, d, r) => DispatchBacked(box2, d, r)
           /\ \A t, r : TaskBacked(box, t, r) => TaskBacked(box2, t, r)
           /\ \A l, m : ProcessBacked(box, n, l, m) => ProcessBacked(box2, n2, l, m)
<1>1. \A d, r : DispatchBacked(box, d, r) => DispatchBacked(box2, d, r)
  BY DEF DispatchBacked, ReportsIn
<1>2. \A t, r : TaskBacked(box, t, r) => TaskBacked(box2, t, r)
  BY DEF TaskBacked, ReportsIn
<1>3. ASSUME NEW l, NEW m, ProcessBacked(box, n, l, m) PROVE ProcessBacked(box2, n2, l, m)
  <2>1. \A x \in ReportsIn(box) : x.seq <= n => x \in ReportsIn(box2) /\ x.seq <= n2
    BY DEF ReportsIn
  <2> QED BY <1>1, <1>2, <1>3, <2>1 DEF ProcessBacked
<1> QED BY <1>1, <1>2, <1>3

\* The changes commands make to a record, and which never invent a settled dispatch.
LEMMA BackedUpdates ==
    ASSUME NEW box, NEW d, NEW r \in DispatchRecord, DispatchBacked(box, d, r)
    PROVE  /\ DispatchBacked(box, d, Superseded(r))
           /\ DispatchBacked(box, d, Abandoned(r))
           /\ DispatchBacked(box, d, [r EXCEPT !.state = "dispatched"])
           /\ DispatchBacked(box, d, [r EXCEPT !.pane = TRUE])
           /\ DispatchBacked(box, d, [r EXCEPT !.released = TRUE])
           /\ DispatchBacked(box, d, [r EXCEPT !.auth = FALSE])
  BY DEF DispatchBacked, DispatchRecord, Superseded, Abandoned

LEMMA BackedReconciled ==
    ASSUME NEW box, NEW t, NEW r \in TaskRecord, TaskBacked(box, t, r)
    PROVE  TaskBacked(box, t, Reconciled(t, r))
  BY DEF TaskBacked, TaskRecord, Reconciled

LEMMA BlankBacked ==
    ASSUME NEW box, NEW n
    PROVE  /\ ProcessBacked(box, n, "idle", Blank)
           /\ \A t : TaskBacked(box, t, NoTask)
           /\ \A d \in Dispatches : Blank.ds[d] = NoDispatch
           /\ \A d, t : DispatchBacked(box, d, NoDispatch) /\ DispatchBacked(box, d, NewDispatch(t))
  BY DEF ProcessBacked, DispatchBacked, TaskBacked, Blank, NoDispatch, NoTask, NewDispatch,
     NoTaskPCs

LEMMA SaveDispatchBacked ==
    ASSUME Evidence, NEW d \in Dispatches, NEW r, DispatchBacked(inbox, d, r), SaveDispatch(d, r)
    PROVE  DispatchesBacked(inbox, disp')
  BY DEF Evidence, Typed, StoreOK, DispatchesBacked, SaveDispatch

LEMMA SaveTaskBacked ==
    ASSUME Evidence, NEW t \in Tasks, NEW r, TaskBacked(inbox, t, r), SaveTask(t, r)
    PROVE  TasksBacked(inbox, task')
  BY DEF Evidence, Typed, StoreOK, TasksBacked, SaveTask

\* A step of process p that leaves the inbox alone.
LEMMA QuietStep ==
    ASSUME Evidence, Typed', NEW p \in Procs, NEW l, NEW m, Goto(p, l, m),
           UNCHANGED <<inbox, rejected, seq>>, ProcessBacked(inbox, seq, l, m),
           DispatchesBacked(inbox, disp'), TasksBacked(inbox, task')
    PROVE  Evidence'
<1>1. ProcessesBacked'
  <2> SUFFICES ASSUME NEW q \in Procs PROVE ProcessBacked(inbox, seq, pc'[q], mem'[q])
    BY DEF ProcessesBacked
  <2>1. CASE q = p
    BY <2>1 DEF Evidence, Typed, ProcsOK, Goto
  <2>2. CASE q # p
    BY <2>2 DEF Evidence, Typed, ProcsOK, Goto, ProcessesBacked
  <2> QED BY <2>1, <2>2
<1>2. DispatchesBacked(inbox, disp)' /\ TasksBacked(inbox, task)'
  BY DEF DispatchesBacked, TasksBacked
<1>3. NumbersClaimed' /\ DuplicateHasOriginal'
  BY DEF Evidence, NumbersClaimed, DuplicateHasOriginal, Reports
<1> QED BY <1>1, <1>2, <1>3 DEF Evidence

\* The last step of a command that leaves the inbox alone.
LEMMA QuietFinish ==
    ASSUME Evidence, Typed', NEW p \in Procs, Finish(p), UNCHANGED <<inbox, rejected, seq>>,
           DispatchesBacked(inbox, disp'), TasksBacked(inbox, task')
    PROVE  Evidence'
  BY QuietStep, BlankBacked DEF Finish

\* What a process at a label has at hand.
LEMMA AtBacked ==
    ASSUME Evidence, NEW p \in Procs, NEW l, At(p, l)
    PROVE  /\ mem[p] \in Memory /\ Local(l, mem[p])
           /\ ProcessBacked(inbox, seq, l, mem[p])
  BY AtOK DEF Evidence, Typed, ProcessesBacked, At

\* The copy of a task that a process at a label has at hand.
LEMMA TaskHeld ==
    ASSUME Evidence, NEW p \in Procs, NEW l, At(p, l), l \notin NoTaskPCs
    PROVE  /\ mem[p] \in Memory /\ mem[p].t \in Tasks /\ mem[p].ts \in TaskRecord
           /\ TaskBacked(inbox, mem[p].t, mem[p].ts)
<1>1. mem[p] \in Memory /\ Local(l, mem[p]) /\ ProcessBacked(inbox, seq, l, mem[p])
  BY AtBacked
<1> QED BY <1>1, Held DEF Local, ProcessBacked

\* A step of process p that keeps its memory and leaves the store alone.
LEMMA MoveStep ==
    ASSUME Evidence, Typed', NEW p \in Procs, NEW k, NEW l, At(p, k), Goto(p, l, mem[p]),
           k \notin NoTaskPCs \/ l \in NoTaskPCs, UNCHANGED store,
           l \notin {"dn_persist", "dn_dispatch", "dn_task"}
    PROVE  Evidence'
<1>1. ProcessBacked(inbox, seq, l, mem[p])
  BY AtBacked DEF ProcessBacked
<1> QED BY <1>1, QuietStep DEF Evidence, store

\* A command that begins with copies of a dispatch and of a task.
LEMMA CopiesBacked ==
    ASSUME Evidence, NEW l, l \notin {"dn_persist", "dn_dispatch", "dn_task"}, NEW m \in Memory,
           \A d \in Dispatches : m.ds[d] \in {NoDispatch, disp[d]},
           l \notin NoTaskPCs => TaskBacked(inbox, m.t, m.ts)
    PROVE  ProcessBacked(inbox, seq, l, m)
  BY BlankBacked DEF Evidence, DispatchesBacked, ProcessBacked

\* A step of process p that files one more message, or one more rejection.
LEMMA FilingStep ==
    ASSUME Evidence, Typed', NEW p \in Procs, NEW l, NEW m, Goto(p, l, m),
           inbox \subseteq inbox', seq <= seq', UNCHANGED task, DispatchesBacked(inbox, disp'),
           ProcessBacked(inbox', seq', l, m), NumbersClaimed', DuplicateHasOriginal'
    PROVE  Evidence'
<1>1. seq \in Nat /\ seq' \in Nat /\ \A y \in inbox : y.seq \in Nat
  BY DEF Evidence, Typed, StoreOK, Message
<1>2. ProcessesBacked'
  <2> SUFFICES ASSUME NEW q \in Procs PROVE ProcessBacked(inbox', seq', pc'[q], mem'[q])
    BY DEF ProcessesBacked
  <2>1. CASE q = p
    BY <2>1 DEF Evidence, Typed, ProcsOK, Goto
  <2>2. CASE q # p
    <3>1. ProcessBacked(inbox, seq, pc[q], mem[q]) /\ pc'[q] = pc[q] /\ mem'[q] = mem[q]
      BY <2>2 DEF Evidence, Typed, ProcsOK, Goto, ProcessesBacked
    <3> QED BY <1>1, <3>1, EvidenceGrows
  <2> QED BY <2>1, <2>2
<1>3. DispatchesBacked(inbox', disp')
  BY <1>1, EvidenceGrows DEF DispatchesBacked
<1>4. TasksBacked(inbox', task')
  BY <1>1, EvidenceGrows DEF TasksBacked, Evidence
<1> QED BY <1>2, <1>3, <1>4 DEF Evidence, DispatchesBacked, TasksBacked

LEMMA VerdictSettled ==
    ASSUME NEW t, NEW d, Verdict(t, d) = "already_settled"
    PROVE  disp[d].state = "settled"
  BY NoneIsNoReason DEF Verdict, Reasons

-----------------------------------------------------------------------------
LEMMA DoneEvidence == ASSUME Evidence, Typed', NEW p \in Procs, DoneNext(p) PROVE Evidence'
<1>1. CASE DoneVerdict(p)
  <2> DEFINE m(t, d, o) == [Blank EXCEPT !.t = t, !.d = d, !.arg = o, !.why = Verdict(t, d),
                                         !.ts = task[t], !.ds[d] = disp[d]]
  <2>1. PICK t \in Tasks, d \in Dispatches, o \in Outcomes : Goto(p, "dn_persist", m(t, d, o))
    BY <1>1 DEF DoneVerdict
  <2> DEFINE n == m(t, d, o)
  <2>2. /\ n.t = t /\ n.d = d /\ n.why = Verdict(t, d) /\ n.ts = task[t]
        /\ \A e \in Dispatches : n.ds[e] \in {NoDispatch, disp[e]}
    BY BlankBacked, BlankType DEF Memory
  <2>3. Verdict(t, d) = "already_settled" => disp[d].state = "settled"
    BY NoneIsNoId, VerdictSettled
  <2>4. disp[d].state = "settled" => \E x \in ReportsIn(inbox) : x.disp = d /\ x.seq <= seq
    BY DEF Evidence, DispatchesBacked, DispatchBacked, NumbersClaimed, ReportsIn
  <2>5. ProcessBacked(inbox, seq, "dn_persist", n)
    <3>1. TaskBacked(inbox, n.t, n.ts)
      BY <2>2 DEF Evidence, TasksBacked
    <3>2. \A e \in Dispatches : DispatchBacked(inbox, e, n.ds[e])
      BY <2>2, BlankBacked DEF Evidence, DispatchesBacked
    <3> HIDE DEF n
    <3> QED BY <2>2, <2>3, <2>4, <3>1, <3>2 DEF ProcessBacked
  <2>6. Goto(p, "dn_persist", n) /\ UNCHANGED store
    BY <1>1, <2>1 DEF DoneVerdict, store
  <2> HIDE DEF n
  <2> QED BY <2>5, <2>6, QuietStep DEF Evidence, store
<1>2. CASE DonePersist(p)
  <2> DEFINE m == mem[p]
             x == [seq |-> seq + 1, type |-> "report", task |-> m.t, disp |-> m.d,
                   outcome |-> m.arg]
             n == [m EXCEPT !.n = seq + 1]
  <2>1. /\ m \in Memory /\ ProcessBacked(inbox, seq, "dn_persist", m)
        /\ seq' = seq + 1 /\ UNCHANGED <<task, disp, pane>>
    BY <1>2, AtBacked DEF DonePersist
  <2>2. seq \in Nat /\ seq' \in Nat /\ seq <= seq' /\ \A y \in inbox : y.seq \in Nat
    BY <2>1 DEF Evidence, Typed, StoreOK, Message
  <2>3. CASE m.why = None
    <3>1. inbox' = inbox \cup {x} /\ Goto(p, "dn_dispatch", n) /\ UNCHANGED rejected
      BY <1>2, <2>3 DEF DonePersist
    <3>2. ProcessBacked(inbox', seq', "dn_dispatch", n)
      <4>1. /\ n.ds = m.ds /\ n.t = m.t /\ n.d = m.d /\ n.arg = m.arg /\ n.ts = m.ts
            /\ n.n = seq + 1
        BY <2>1 DEF Memory
      <4>2. ProcessBacked(inbox', seq', "dn_persist", m)
        BY <2>1, <2>2, <3>1, EvidenceGrows
      <4>3. x \in inbox'
        BY <3>1
      <4> HIDE DEF n
      <4> QED BY <4>1, <4>2, <4>3 DEF ProcessBacked, NoTaskPCs
    <3>3. NumbersClaimed'
      BY <2>1, <2>2, <3>1 DEF Evidence, NumbersClaimed
    <3>4. DuplicateHasOriginal'
      BY <3>1 DEF Evidence, DuplicateHasOriginal, Reports
    <3>5. inbox \subseteq inbox' /\ UNCHANGED task /\ DispatchesBacked(inbox, disp')
      BY <2>1, <3>1 DEF Evidence, DispatchesBacked
    <3>6. Goto(p, "dn_dispatch", n)
      BY <3>1
    <3> HIDE DEF x, n, m
    <3> QED BY <2>2, <3>2, <3>3, <3>4, <3>5, <3>6, FilingStep
  <2>4. CASE m.why # None
    <3> DEFINE z == [seq |-> seq + 1, task |-> m.t, disp |-> m.d, reason |-> m.why]
    <3>1. rejected' = rejected \cup {z} /\ Finish(p) /\ UNCHANGED inbox
      BY <1>2, <2>4 DEF DonePersist
    <3>2. DuplicateHasOriginal'
      <4> SUFFICES ASSUME NEW r \in rejected', r.reason = "already_settled"
                   PROVE  \E y \in Reports : y.disp = r.disp /\ y.seq < r.seq
        BY <3>1 DEF DuplicateHasOriginal, Reports
      <4>1. CASE r \in rejected
        BY <4>1 DEF Evidence, DuplicateHasOriginal
      <4>2. CASE r = z
        <5>1. m.why = "already_settled" /\ r.disp = m.d /\ r.seq = seq + 1
          BY <4>2
        <5>2. PICK y \in ReportsIn(inbox) : y.disp = m.d /\ y.seq <= seq
          BY <2>1, <5>1 DEF ProcessBacked
        <5>3. y \in Reports /\ y.seq \in Nat
          BY <2>2, <5>2 DEF ReportsIn, Reports
        <5> QED BY <2>2, <5>1, <5>2, <5>3
      <4> QED BY <3>1, <4>1, <4>2
    <3>3. NumbersClaimed'
      BY <2>1, <2>2, <3>1 DEF Evidence, NumbersClaimed
    <3>4. ProcessBacked(inbox', seq', "idle", Blank)
      BY BlankBacked
    <3>5. inbox \subseteq inbox' /\ UNCHANGED task /\ DispatchesBacked(inbox, disp')
      BY <2>1, <3>1 DEF Evidence, DispatchesBacked
    <3>6. Goto(p, "idle", Blank)
      BY <3>1 DEF Finish
    <3> HIDE DEF z, m
    <3> QED BY <2>2, <3>2, <3>3, <3>4, <3>5, <3>6, FilingStep
  <2> QED BY <2>3, <2>4
<1>3. CASE DoneDispatch(p)
  <2> DEFINE m == mem[p]
             r == [m.ds[m.d] EXCEPT !.state = "settled", !.outcome = m.arg,
                                    !.report = m.n, !.auth = FALSE]
  <2>1. m \in Memory /\ m.d \in Dispatches /\ ProcessBacked(inbox, seq, "dn_dispatch", m)
    BY <1>3, AtBacked DEF DoneDispatch, Local, NoDispatchPCs
  <2>2. m.ds[m.d] \in DispatchRecord
    BY <2>1, Held
  <2>3. r.outcome = m.arg /\ r.report = m.n
    BY <2>2 DEF DispatchRecord
  <2>4. DispatchBacked(inbox, m.d, r)
    <3> DEFINE x == [seq |-> m.n, type |-> "report", task |-> m.t, disp |-> m.d,
                     outcome |-> m.arg]
    <3>1. x \in ReportsIn(inbox)
      BY <2>1 DEF ProcessBacked, ReportsIn
    <3>2. x.seq = m.n /\ x.disp = m.d /\ x.outcome = m.arg
      OBVIOUS
    <3> HIDE DEF x, r
    <3> QED BY <2>3, <3>1, <3>2 DEF DispatchBacked
  <2>5. SaveDispatch(m.d, r) /\ Goto(p, "dn_task", m) /\ UNCHANGED <<task, inbox, rejected, seq>>
    BY <1>3 DEF DoneDispatch
  <2>6. DispatchesBacked(inbox, disp')
    <3> HIDE DEF r
    <3> QED BY <2>1, <2>4, <2>5, SaveDispatchBacked
  <2>7. ProcessBacked(inbox, seq, "dn_task", m)
    BY <2>1 DEF ProcessBacked, NoTaskPCs
  <2> QED BY <2>5, <2>6, <2>7, QuietStep DEF Evidence
<1>4. CASE DoneTask(p)
  <2> DEFINE m == mem[p]
             s == OutcomeToTaskState[m.arg]
             r(l) == [m.ts EXCEPT !.state = s, !.live = l]
  <2>1. /\ m \in Memory /\ m.t \in Tasks /\ m.arg \in Outcomes
        /\ ProcessBacked(inbox, seq, "dn_task", m)
    BY <1>4, AtBacked DEF DoneTask, Local, NoTaskPCs
  <2>2. s = "completed" => m.arg = "succeeded"
    BY <2>1 DEF OutcomeToTaskState, Outcomes
  <2>3. \A l : r(l).state = s
    BY <2>1, Held DEF TaskRecord
  <2>4. \A l : TaskBacked(inbox, m.t, r(l))
    <3> DEFINE x == [seq |-> m.n, type |-> "report", task |-> m.t, disp |-> m.d,
                     outcome |-> m.arg]
    <3>1. x \in ReportsIn(inbox)
      BY <2>1 DEF ProcessBacked, ReportsIn
    <3>2. x.task = m.t /\ x.outcome = m.arg
      OBVIOUS
    <3> HIDE DEF x, r, s
    <3> QED BY <2>2, <2>3, <3>1, <3>2 DEF TaskBacked
  <2>5. SaveTask(m.t, r(None)) \/ SaveTask(m.t, r(m.ts.live))
    BY <1>4, <2>1, Held DEF DoneTask, TaskRecord
  <2>6. TasksBacked(inbox, task')
    <3> HIDE DEF r
    <3> QED BY <2>1, <2>4, <2>5, SaveTaskBacked
  <2>7. Finish(p) /\ UNCHANGED <<disp, inbox, rejected, seq>>
    BY <1>4 DEF DoneTask
  <2> QED BY <2>6, <2>7, QuietFinish DEF Evidence
<1> QED BY <1>1, <1>2, <1>3, <1>4 DEF DoneNext

LEMMA MessageEvidence == ASSUME Evidence, Typed', NEW p \in Procs, MessageNext(p) PROVE Evidence'
<1>1. CASE SelfDispatch(p)
  <2> DEFINE m(d, type) == [Blank EXCEPT !.t = disp[d].task, !.d = d, !.arg = type,
                                         !.ds[d] = disp[d]]
  <2>1. PICK d \in Dispatches, type \in {"heartbeat", "question"} : Goto(p, "ms_write", m(d, type))
    BY <1>1 DEF SelfDispatch
  <2>2. mem'[p] = m(d, type) /\ m(d, type) \in Memory
    BY <1>1, <2>1 DEF SelfDispatch, Goto, Evidence, Typed, ProcsOK
  <2>3. ProcessBacked(inbox, seq, "ms_write", m(d, type))
    <3>1. \A e \in Dispatches : m(d, type).ds[e] \in {NoDispatch, disp[e]}
      BY BlankBacked, BlankType DEF Memory
    <3>2. TaskBacked(inbox, m(d, type).t, m(d, type).ts)
      BY BlankBacked, BlankType DEF Blank
    <3> HIDE DEF m
    <3> QED BY <2>2, <3>1, <3>2, CopiesBacked DEF NoTaskPCs
  <2>4. UNCHANGED store
    BY <1>1 DEF SelfDispatch, store
  <2> HIDE DEF m
  <2> QED BY <2>1, <2>3, <2>4, QuietStep DEF Evidence, store
<1>2. CASE WriteMessage(p)
  <2> DEFINE m == mem[p]
             x == [seq |-> seq + 1, type |-> m.arg, task |-> m.t, disp |-> m.d, outcome |-> None]
  <2>1. /\ m \in Memory /\ m.d \in Dispatches /\ ProcessBacked(inbox, seq, "ms_write", m)
        /\ seq' = seq + 1 /\ inbox' = inbox \cup {x} /\ UNCHANGED <<task, rejected>>
        /\ Finish(p)
    BY <1>2, AtBacked DEF WriteMessage, Local, NoDispatchPCs
  <2>2. seq \in Nat /\ seq' \in Nat /\ seq <= seq' /\ \A y \in inbox : y.seq \in Nat
    BY <2>1 DEF Evidence, Typed, StoreOK, Message
  <2>3. DispatchesBacked(inbox, disp')
    <3>1. SaveDispatch(m.d, m.ds[m.d]) \/ UNCHANGED disp
      BY <1>2 DEF WriteMessage
    <3>2. DispatchBacked(inbox, m.d, m.ds[m.d])
      BY <2>1 DEF ProcessBacked
    <3> QED BY <2>1, <3>1, <3>2, SaveDispatchBacked DEF Evidence
  <2>4. NumbersClaimed'
    BY <2>1, <2>2 DEF Evidence, NumbersClaimed
  <2>5. DuplicateHasOriginal'
    BY <2>1 DEF Evidence, DuplicateHasOriginal, Reports
  <2>6. ProcessBacked(inbox', seq', "idle", Blank)
    BY BlankBacked
  <2> HIDE DEF x
  <2> QED BY <2>1, <2>2, <2>3, <2>4, <2>5, <2>6, FilingStep DEF Finish, Evidence
<1> QED BY <1>1, <1>2 DEF MessageNext

LEMMA StartEvidence == ASSUME Evidence, Typed', NEW p \in Procs, StartNext(p) PROVE Evidence'
<1>1. CASE Start(p)
  <2> DEFINE m(t, mode, retry) == [Blank EXCEPT !.t = t, !.mode = mode, !.retry = retry,
                                            !.ts = task[t]]
  <2>1. PICK t \in Tasks, mode \in StartModes, retry \in Dispatches \cup {None} :
            Goto(p, "st_guards", m(t, mode, retry))
    BY <1>1 DEF Start
  <2>2. mem'[p] = m(t, mode, retry) /\ m(t, mode, retry) \in Memory
    BY <1>1, <2>1 DEF Start, Goto, Evidence, Typed, ProcsOK
  <2>3. ProcessBacked(inbox, seq, "st_guards", m(t, mode, retry))
    <3>1. \A e \in Dispatches : m(t, mode, retry).ds[e] \in {NoDispatch, disp[e]}
      BY BlankBacked, BlankType DEF Memory
    <3>2. TaskBacked(inbox, m(t, mode, retry).t, m(t, mode, retry).ts)
      BY <2>1, BlankType DEF Evidence, Typed, StoreOK, TasksBacked, Memory
    <3> HIDE DEF m
    <3> QED BY <2>2, <3>1, <3>2, CopiesBacked DEF NoTaskPCs
  <2>4. UNCHANGED store
    BY <1>1 DEF Start, store
  <2> HIDE DEF m
  <2> QED BY <2>1, <2>3, <2>4, QuietStep DEF Evidence, store
<1>2. CASE StartGuards(p)
  <2> DEFINE m == mem[p]
             r == Reconciled(m.t, m.ts)
             n == [m EXCEPT !.ts = r, !.ds = disp]
  <2>1. m \in Memory /\ m.t \in Tasks /\ m.ts \in TaskRecord /\ TaskBacked(inbox, m.t, m.ts)
    <3>1. At(p, "st_guards") /\ "st_guards" \notin NoTaskPCs
      BY <1>2 DEF StartGuards, NoTaskPCs
    <3> QED BY <3>1, TaskHeld
  <2>2. TaskBacked(inbox, m.t, r)
    BY <2>1, BackedReconciled
  <2>3. TasksBacked(inbox, task')
    <3>1. SaveTask(m.t, r) \/ UNCHANGED task
      BY <1>2 DEF StartGuards
    <3> HIDE DEF r
    <3> QED BY <2>1, <2>2, <3>1, SaveTaskBacked DEF Evidence
  <2>4. ProcessBacked(inbox, seq, "st_supersede", n)
    <3>1. n.ds = disp /\ n.t = m.t /\ n.ts = r
      BY <2>1 DEF Memory
    <3> HIDE DEF n, r
    <3> QED BY <2>2, <3>1 DEF ProcessBacked, Evidence, DispatchesBacked
  <2>5. /\ Goto(p, "st_supersede", n) \/ Finish(p)
        /\ UNCHANGED <<disp, inbox, rejected, seq>>
    BY <1>2 DEF StartGuards
  <2> HIDE DEF n
  <2> QED BY <2>3, <2>4, <2>5, QuietStep, QuietFinish DEF Evidence
<1>3. CASE StartSupersede(p)
  <2> DEFINE m == mem[p]
             n == [m EXCEPT !.ds = Blank.ds, !.retry = None]
  <2>1. m \in Memory /\ ProcessBacked(inbox, seq, "st_supersede", m)
    BY <1>3, AtBacked DEF StartSupersede
  <2>2. \A d \in Dispatches : DispatchBacked(inbox, d, Superseded(m.ds[d]))
    BY <2>1, Held, BackedUpdates DEF ProcessBacked
  <2>3. DispatchesBacked(inbox, disp')
    BY <1>3, <2>2 DEF StartSupersede, Evidence, DispatchesBacked
  <2>4. ProcessBacked(inbox, seq, "st_create", n)
    <3>1. n.ds = Blank.ds /\ n.t = m.t /\ n.ts = m.ts
      BY <2>1 DEF Memory
    <3> HIDE DEF n
    <3> QED BY <2>1, <3>1, BlankBacked DEF ProcessBacked, NoTaskPCs
  <2>5. Goto(p, "st_create", n) /\ UNCHANGED <<task, inbox, rejected, seq>>
    BY <1>3 DEF StartSupersede
  <2> HIDE DEF n
  <2> QED BY <2>3, <2>4, <2>5, QuietStep DEF Evidence
<1>4. CASE StartBadKind(p)
  BY <1>4, QuietFinish DEF StartBadKind, store, Evidence
<1>5. CASE StartCreate(p)
  <2> DEFINE m == mem[p]
             n(d) == [m EXCEPT !.d = d, !.ds[d] = NewDispatch(m.t)]
  <2>1. m \in Memory /\ ProcessBacked(inbox, seq, "st_create", m)
    BY <1>5, AtBacked DEF StartCreate
  <2>2. PICK d \in Dispatches : /\ SaveDispatch(d, NewDispatch(m.t)) /\ Goto(p, "st_new", n(d))
                                /\ UNCHANGED <<task, inbox, rejected, seq>>
    BY <1>5 DEF StartCreate
  <2>3. DispatchesBacked(inbox, disp')
    BY <2>2, BlankBacked, SaveDispatchBacked
  <2>4. ProcessBacked(inbox, seq, "st_new", n(d))
    <3>1. /\ n(d).t = m.t /\ n(d).ts = m.ts
          /\ \A e \in Dispatches : n(d).ds[e] \in {m.ds[e], NewDispatch(m.t)}
      BY <2>1 DEF Memory
    <3> HIDE DEF n
    <3> QED BY <2>1, <3>1, BlankBacked DEF ProcessBacked, NoTaskPCs
  <2> HIDE DEF n
  <2> QED BY <2>2, <2>3, <2>4, QuietStep DEF Evidence
<1>6. CASE StartWithdrawn(p)
  <2> DEFINE m == mem[p]
  <2>1. m \in Memory /\ m.d \in Dispatches /\ ProcessBacked(inbox, seq, "st_new", m)
    BY <1>6, AtBacked DEF StartWithdrawn, Local, NoDispatchPCs
  <2>2. /\ DispatchBacked(inbox, m.d, Superseded(m.ds[m.d]))
    BY <2>1, Held, BackedUpdates DEF ProcessBacked
  <2>3. DispatchesBacked(inbox, disp')
    <3>1. SaveDispatch(m.d, Superseded(m.ds[m.d]))
      BY <1>6 DEF StartWithdrawn
    <3> QED BY <2>1, <2>2, <3>1, SaveDispatchBacked
  <2>4. Finish(p) /\ UNCHANGED <<task, inbox, rejected, seq>>
    BY <1>6 DEF StartWithdrawn
  <2> QED BY <2>3, <2>4, QuietFinish DEF Evidence
<1>7. CASE StartTrustFails(p)
  BY <1>7, QuietFinish DEF StartTrustFails, store, Evidence
<1>8. CASE StartPlacement(p)
  <2>1. At(p, "st_new") /\ Goto(p, "st_pane", mem[p]) /\ UNCHANGED store
    BY <1>8 DEF StartPlacement, store
  <2> QED BY <2>1, MoveStep DEF NoTaskPCs
<1>9. CASE StartPaneFails(p)
  <2> DEFINE m == mem[p]
  <2>1. m \in Memory /\ m.d \in Dispatches /\ ProcessBacked(inbox, seq, "st_pane", m)
    BY <1>9, AtBacked DEF StartPaneFails, Local, NoDispatchPCs
  <2>2. /\ DispatchBacked(inbox, m.d, Superseded(m.ds[m.d]))
    BY <2>1, Held, BackedUpdates DEF ProcessBacked
  <2>3. DispatchesBacked(inbox, disp')
    <3>1. SaveDispatch(m.d, Superseded(m.ds[m.d]))
      BY <1>9 DEF StartPaneFails
    <3> QED BY <2>1, <2>2, <3>1, SaveDispatchBacked
  <2>4. Finish(p) /\ UNCHANGED <<task, inbox, rejected, seq>>
    BY <1>9 DEF StartPaneFails
  <2> QED BY <2>3, <2>4, QuietFinish DEF Evidence
<1>10. CASE StartPane(p)
  <2>1. At(p, "st_pane") /\ Goto(p, "st_pane_ready", mem[p]) /\ UNCHANGED store
    BY <1>10 DEF StartPane, store
  <2> QED BY <2>1, MoveStep DEF NoTaskPCs
<1>11. CASE StartPaneReady(p)
  <2> DEFINE d == mem[p].d
             r == [mem[p].ds[d] EXCEPT !.pane = TRUE]
             n == [mem[p] EXCEPT !.ds[d] = r]
             l == IF n.mode = "bare" THEN "st_commit_now" ELSE "st_launch"
  <2>1. mem[p] \in Memory /\ d \in Dispatches /\ ProcessBacked(inbox, seq, "st_pane_ready", mem[p])
    BY <1>11, AtBacked DEF StartPaneReady, Local, NoDispatchPCs
  <2>2. DispatchBacked(inbox, d, r)
    BY <2>1, Held, BackedUpdates DEF ProcessBacked
  <2>3. /\ n.d = d /\ n.t = mem[p].t /\ n.ts = mem[p].ts /\ n.ds[d] = r
        /\ \A e \in Dispatches \ {d} : n.ds[e] = mem[p].ds[e]
    <3> HIDE DEF r
    <3> QED BY <2>1 DEF Memory
  <2>4. [mem[p] EXCEPT !.ds[mem[p].d].pane = TRUE] = n
    BY DEF n, r
  <2>5. /\ SaveDispatch(n.d, n.ds[n.d]) /\ Goto(p, l, n)
        /\ UNCHANGED <<task, inbox, rejected, seq>>
    BY <1>11, <2>4 DEF StartPaneReady
  <2>6. DispatchesBacked(inbox, disp')
    <3> HIDE DEF n, r
    <3> QED BY <2>1, <2>2, <2>3, <2>5, SaveDispatchBacked
  <2>7. ProcessBacked(inbox, seq, l, n)
    <3>1. l \in {"st_commit_now", "st_launch"}
      OBVIOUS
    <3> HIDE DEF n, r, l
    <3> QED BY <2>1, <2>2, <2>3, <3>1 DEF ProcessBacked, NoTaskPCs
  <2> HIDE DEF n, l
  <2> QED BY <2>5, <2>6, <2>7, QuietStep DEF Evidence
<1>12. CASE StartAgentFails(p)
  BY <1>12, QuietFinish DEF StartAgentFails, store, Evidence
<1>13. CASE StartUndelivered(p)
  <2>1. /\ At(p, "st_launch") \/ At(p, "st_commit")
        /\ Goto(p, "st_undelivered", mem[p]) /\ UNCHANGED store
    BY <1>13 DEF StartUndelivered, store
  <2> QED BY <2>1, MoveStep DEF NoTaskPCs
<1>14. CASE StartUndeliveredSave(p)
  <2> DEFINE m == mem[p]
  <2>1. m \in Memory /\ m.d \in Dispatches /\ ProcessBacked(inbox, seq, "st_undelivered", m)
    BY <1>14, AtBacked DEF StartUndeliveredSave, Local, NoDispatchPCs
  <2>2. /\ DispatchBacked(inbox, m.d, Abandoned(m.ds[m.d]))
    BY <2>1, Held, BackedUpdates DEF ProcessBacked
  <2>3. DispatchesBacked(inbox, disp')
    <3>1. SaveDispatch(m.d, Abandoned(m.ds[m.d]))
      BY <1>14 DEF StartUndeliveredSave
    <3> QED BY <2>1, <2>2, <3>1, SaveDispatchBacked
  <2>4. Finish(p) /\ UNCHANGED <<task, inbox, rejected, seq>>
    BY <1>14 DEF StartUndeliveredSave
  <2> QED BY <2>3, <2>4, QuietFinish DEF Evidence
<1>15. CASE StartDelivered(p)
  <2>1. At(p, "st_launch") /\ Goto(p, "st_commit", mem[p]) /\ UNCHANGED store
    BY <1>15 DEF StartDelivered, store
  <2> QED BY <2>1, MoveStep DEF NoTaskPCs
<1>16. CASE StartCommit(p)
  <2> DEFINE m == mem[p]
  <2>1. m \in Memory /\ m.d \in Dispatches /\ ProcessBacked(inbox, seq, "st_commit", m)
    <3>1. PICK l \in {"st_commit", "st_commit_now"} : At(p, l)
      BY <1>16 DEF StartCommit
    <3>2. m \in Memory /\ Local(l, m) /\ ProcessBacked(inbox, seq, l, m)
      BY <3>1, AtBacked
    <3> HIDE DEF m
    <3> QED BY <3>1, <3>2 DEF Local, NoDispatchPCs, ProcessBacked, NoTaskPCs
  <2>2. /\ DispatchBacked(inbox, m.d, [m.ds[m.d] EXCEPT !.state = "dispatched"])
    BY <2>1, Held, BackedUpdates DEF ProcessBacked
  <2>3. DispatchesBacked(inbox, disp')
    <3>1. SaveDispatch(m.d, [m.ds[m.d] EXCEPT !.state = "dispatched"])
      BY <1>16 DEF StartCommit
    <3> QED BY <2>1, <2>2, <3>1, SaveDispatchBacked
  <2>4. Goto(p, "st_task", m) /\ UNCHANGED <<task, inbox, rejected, seq>>
    BY <1>16 DEF StartCommit
  <2>5. ProcessBacked(inbox, seq, "st_task", m)
    BY <2>1 DEF ProcessBacked, NoTaskPCs
  <2> QED BY <2>3, <2>4, <2>5, QuietStep DEF Evidence
<1>17. CASE StartTask(p)
  <2> DEFINE m == mem[p]
             r == [m.ts EXCEPT !.attempts = m.ts.attempts + 1, !.state = "dispatched", !.live = m.d]
  <2>1. m \in Memory /\ m.t \in Tasks /\ m.ts \in TaskRecord /\ TaskBacked(inbox, m.t, m.ts)
    <3>1. At(p, "st_task") /\ "st_task" \notin NoTaskPCs
      BY <1>17 DEF StartTask, NoTaskPCs
    <3> QED BY <3>1, TaskHeld
  <2>2. /\ TaskBacked(inbox, m.t, r)
    BY <2>1 DEF TaskBacked, TaskRecord
  <2>3. SaveTask(m.t, r)
    BY <1>17, <2>1 DEF StartTask, TaskRecord
  <2>4. TasksBacked(inbox, task')
    <3> HIDE DEF r
    <3> QED BY <2>1, <2>2, <2>3, SaveTaskBacked
  <2>5. Finish(p) /\ UNCHANGED <<disp, inbox, rejected, seq>>
    BY <1>17 DEF StartTask
  <2> QED BY <2>4, <2>5, QuietFinish DEF Evidence
<1> QED BY <1>1, <1>2, <1>3, <1>4, <1>5, <1>6, <1>7, <1>8, <1>9, <1>10,
           <1>11, <1>12, <1>13, <1>14, <1>15, <1>16, <1>17 DEF StartNext

LEMMA CancelEvidence == ASSUME Evidence, Typed', NEW p \in Procs, CancelNext(p) PROVE Evidence'
<1>1. CASE DispatchCancel(p)
  <2> DEFINE m(d) == [Blank EXCEPT !.d = d, !.t = disp[d].task, !.ds[d] = disp[d]]
  <2>1. PICK d \in Dispatches : Goto(p, "dc_save", m(d))
    BY <1>1 DEF DispatchCancel
  <2>2. mem'[p] = m(d) /\ m(d) \in Memory
    BY <1>1, <2>1 DEF DispatchCancel, Goto, Evidence, Typed, ProcsOK
  <2>3. ProcessBacked(inbox, seq, "dc_save", m(d))
    <3>1. \A e \in Dispatches : m(d).ds[e] \in {NoDispatch, disp[e]}
      BY BlankBacked, BlankType DEF Memory
    <3>2. TaskBacked(inbox, m(d).t, m(d).ts)
      BY BlankBacked, BlankType DEF Blank
    <3> HIDE DEF m
    <3> QED BY <2>2, <3>1, <3>2, CopiesBacked DEF NoTaskPCs
  <2>4. UNCHANGED store
    BY <1>1 DEF DispatchCancel, store
  <2> HIDE DEF m
  <2> QED BY <2>1, <2>3, <2>4, QuietStep DEF Evidence, store
<1>2. CASE DispatchCancelSave(p)
  <2> DEFINE m == mem[p]
             n == [m EXCEPT !.ts = task[m.t]]
  <2>1. /\ m \in Memory /\ m.d \in Dispatches /\ m.t \in Tasks
        /\ ProcessBacked(inbox, seq, "dc_save", m)
    BY <1>2, AtBacked DEF DispatchCancelSave, Local, NoDispatchPCs, NoTaskPCs
  <2>2. DispatchBacked(inbox, m.d, Superseded(m.ds[m.d]))
    BY <2>1, Held, BackedUpdates DEF ProcessBacked
  <2>3. DispatchesBacked(inbox, disp')
    <3>1. SaveDispatch(m.d, Superseded(m.ds[m.d]))
      BY <1>2 DEF DispatchCancelSave
    <3> QED BY <2>1, <2>2, <3>1, SaveDispatchBacked
  <2>4. ProcessBacked(inbox, seq, "dc_task", n)
    <3>1. n.ds = m.ds /\ n.t = m.t /\ n.ts = task[m.t]
      BY <2>1 DEF Memory
    <3> HIDE DEF n
    <3> QED BY <2>1, <3>1 DEF ProcessBacked, Evidence, TasksBacked, NoTaskPCs
  <2>5. (Goto(p, "dc_task", n) \/ Finish(p)) /\ UNCHANGED <<task, inbox, rejected, seq>>
    BY <1>2 DEF DispatchCancelSave
  <2> HIDE DEF n
  <2> QED BY <2>3, <2>4, <2>5, QuietStep, QuietFinish DEF Evidence
<1>3. CASE DispatchCancelTask(p)
  <2> DEFINE m == mem[p]
             r(s) == [m.ts EXCEPT !.live = None, !.state = s]
  <2>1. m \in Memory /\ m.t \in Tasks /\ m.ts \in TaskRecord /\ TaskBacked(inbox, m.t, m.ts)
    <3>1. At(p, "dc_task") /\ "dc_task" \notin NoTaskPCs
      BY <1>3 DEF DispatchCancelTask, NoTaskPCs
    <3> QED BY <3>1, TaskHeld
  <2>2. /\ TaskBacked(inbox, m.t, r(m.ts.state))
        /\ TaskBacked(inbox, m.t, r("ready"))
    BY <2>1 DEF TaskBacked, TaskRecord
  <2>3. SaveTask(m.t, r(m.ts.state)) \/ SaveTask(m.t, r("ready"))
    BY <1>3, <2>1 DEF DispatchCancelTask, TaskRecord
  <2>4. TasksBacked(inbox, task')
    <3> HIDE DEF r
    <3> QED BY <2>1, <2>2, <2>3, SaveTaskBacked
  <2>5. Finish(p) /\ UNCHANGED <<disp, inbox, rejected, seq>>
    BY <1>3 DEF DispatchCancelTask
  <2> QED BY <2>4, <2>5, QuietFinish DEF Evidence
<1>4. CASE TaskCancel(p)
  <2> DEFINE m(t) == [Blank EXCEPT !.t = t, !.ts = task[t], !.d = task[t].live]
             n(t) == [m(t) EXCEPT !.ds[m(t).d] = disp[m(t).d]]
  <2>1. PICK t \in Tasks : IF m(t).d = None THEN Goto(p, "tc_task", m(t))
                                            ELSE Goto(p, "tc_dispatch", n(t))
    BY <1>4 DEF TaskCancel
  <2>2. m(t) \in Memory /\ m(t).t = t /\ m(t).ts = task[t] /\ m(t).ds = Blank.ds
    BY BlankType DEF Memory, Evidence, Typed, StoreOK, TaskRecord
  <2>3. n(t) \in Memory /\ n(t).t = t /\ n(t).ts = task[t]
        /\ \A e \in Dispatches : n(t).ds[e] \in {NoDispatch, disp[e]}
    <3>1. m(t).d \in Dispatches \cup {None}
      BY <2>2 DEF Memory
    <3>2. m(t).d # None => disp[m(t).d] \in DispatchRecord
      BY <3>1 DEF Evidence, Typed, StoreOK
    <3>3. \A e \in Dispatches : m(t).ds[e] = NoDispatch
      BY <2>2, BlankBacked
    <3> HIDE DEF m
    <3> QED BY <2>2, <3>1, <3>2, <3>3, NoneIsNoId DEF Memory
  <2>4. TaskBacked(inbox, t, task[t])
    BY DEF Evidence, TasksBacked
  <2>5. /\ ProcessBacked(inbox, seq, "tc_task", m(t))
        /\ ProcessBacked(inbox, seq, "tc_dispatch", n(t))
    <3> HIDE DEF m, n
    <3> QED BY <2>2, <2>3, <2>4, BlankBacked, CopiesBacked
  <2>6. UNCHANGED store
    BY <1>4 DEF TaskCancel, store
  <2> HIDE DEF m, n
  <2> QED BY <2>1, <2>5, <2>6, QuietStep DEF Evidence, store
<1>5. CASE TaskCancelDispatch(p)
  <2> DEFINE m == mem[p]
  <2>1. m \in Memory /\ m.d \in Dispatches /\ ProcessBacked(inbox, seq, "tc_dispatch", m)
    BY <1>5, AtBacked DEF TaskCancelDispatch, Local, NoDispatchPCs
  <2>2. DispatchBacked(inbox, m.d, Superseded(m.ds[m.d]))
    BY <2>1, Held, BackedUpdates DEF ProcessBacked
  <2>3. DispatchesBacked(inbox, disp')
    <3>1. SaveDispatch(m.d, Superseded(m.ds[m.d])) \/ UNCHANGED disp
      BY <1>5 DEF TaskCancelDispatch
    <3> QED BY <2>1, <2>2, <3>1, SaveDispatchBacked DEF Evidence
  <2>4. Goto(p, "tc_task", m) /\ UNCHANGED <<task, inbox, rejected, seq>>
    BY <1>5 DEF TaskCancelDispatch
  <2>5. ProcessBacked(inbox, seq, "tc_task", m)
    BY <2>1 DEF ProcessBacked, NoTaskPCs
  <2> QED BY <2>3, <2>4, <2>5, QuietStep DEF Evidence
<1>6. CASE TaskCancelTask(p)
  <2> DEFINE m == mem[p]
             r == [m.ts EXCEPT !.state = "cancelled", !.live = None]
  <2>1. m \in Memory /\ m.t \in Tasks /\ m.ts \in TaskRecord /\ TaskBacked(inbox, m.t, m.ts)
    <3>1. At(p, "tc_task") /\ "tc_task" \notin NoTaskPCs
      BY <1>6 DEF TaskCancelTask, NoTaskPCs
    <3> QED BY <3>1, TaskHeld
  <2>2. /\ TaskBacked(inbox, m.t, r)
    BY <2>1 DEF TaskBacked, TaskRecord
  <2>3. SaveTask(m.t, r)
    BY <1>6, <2>1 DEF TaskCancelTask, TaskRecord
  <2>4. TasksBacked(inbox, task')
    <3> HIDE DEF r
    <3> QED BY <2>1, <2>2, <2>3, SaveTaskBacked
  <2>5. Finish(p) /\ UNCHANGED <<disp, inbox, rejected, seq>>
    BY <1>6 DEF TaskCancelTask
  <2> QED BY <2>4, <2>5, QuietFinish DEF Evidence
<1> QED BY <1>1, <1>2, <1>3, <1>4, <1>5, <1>6 DEF CancelNext

LEMMA TaskEvidence == ASSUME Evidence, Typed', NEW p \in Procs, TaskNext(p) PROVE Evidence'
<1>1. CASE TaskUpdate(p)
  <2> DEFINE r(t, to) == [task[t] EXCEPT !.state = to]
             m(t, to) == [Blank EXCEPT !.t = t, !.ts = r(t, to)]
  <2>1. PICK t \in Tasks, to \in TaskStates :
           (to = task[t].state \/ to # "completed") /\ Goto(p, "up_save", m(t, to))
    BY <1>1 DEF TaskUpdate
  <2>2. TaskBacked(inbox, t, r(t, to))
    BY <2>1 DEF Evidence, Typed, StoreOK, TasksBacked, TaskBacked, TaskRecord
  <2>3. m(t, to).t = t /\ m(t, to).ts = r(t, to) /\ m(t, to).ds = Blank.ds
    BY DEF Blank
  <2>4. mem'[p] = m(t, to) /\ m(t, to) \in Memory
    BY <2>1 DEF Goto, Evidence, Typed, ProcsOK
  <2>5. ProcessBacked(inbox, seq, "up_save", m(t, to))
    <3> HIDE DEF m, r
    <3> QED BY <2>2, <2>3, <2>4, BlankBacked, CopiesBacked
  <2>6. UNCHANGED store
    BY <1>1 DEF TaskUpdate, store
  <2> HIDE DEF m
  <2> QED BY <2>1, <2>5, <2>6, QuietStep DEF Evidence, store
<1>2. CASE TaskUpdateSave(p)
  <2> DEFINE m == mem[p]
  <2>1. m \in Memory /\ m.t \in Tasks /\ m.ts \in TaskRecord /\ TaskBacked(inbox, m.t, m.ts)
    <3>1. At(p, "up_save") /\ "up_save" \notin NoTaskPCs
      BY <1>2 DEF TaskUpdateSave, NoTaskPCs
    <3> QED BY <3>1, TaskHeld
  <2>2. /\ TaskBacked(inbox, m.t, Reconciled(m.t, m.ts))
    BY <2>1, BackedReconciled DEF TaskBacked, TaskRecord
  <2>3. SaveTask(m.t, Reconciled(m.t, m.ts))
    BY <1>2, <2>1 DEF TaskUpdateSave, TaskRecord
  <2>4. TasksBacked(inbox, task')
    <3> QED BY <2>1, <2>2, <2>3, SaveTaskBacked
  <2>5. Finish(p) /\ UNCHANGED <<disp, inbox, rejected, seq>>
    BY <1>2 DEF TaskUpdateSave
  <2> QED BY <2>4, <2>5, QuietFinish DEF Evidence
<1>3. CASE Readiness(p)
  <2> DEFINE m(t) == [Blank EXCEPT !.t = t, !.ts = Reconciled(t, task[t])]
  <2>1. PICK t \in Tasks : Goto(p, "rc_save", m(t))
    BY <1>3 DEF Readiness
  <2>2. mem'[p] = m(t) /\ m(t) \in Memory
    BY <1>3, <2>1 DEF Readiness, Goto, Evidence, Typed, ProcsOK
  <2>3. ProcessBacked(inbox, seq, "rc_save", m(t))
    <3>1. \A e \in Dispatches : m(t).ds[e] \in {NoDispatch, disp[e]}
      BY BlankBacked, BlankType DEF Memory
    <3>2. TaskBacked(inbox, m(t).t, m(t).ts)
      BY <2>1, BackedReconciled, BlankType DEF Evidence, Typed, StoreOK, TasksBacked, Memory
    <3> HIDE DEF m
    <3> QED BY <2>2, <3>1, <3>2, CopiesBacked DEF NoTaskPCs
  <2>4. UNCHANGED store
    BY <1>3 DEF Readiness, store
  <2> HIDE DEF m
  <2> QED BY <2>1, <2>3, <2>4, QuietStep DEF Evidence, store
<1>4. CASE ReadinessSave(p)
  <2> DEFINE m == mem[p]
  <2>1. m \in Memory /\ m.t \in Tasks /\ m.ts \in TaskRecord /\ TaskBacked(inbox, m.t, m.ts)
    <3>1. At(p, "rc_save") /\ "rc_save" \notin NoTaskPCs
      BY <1>4 DEF ReadinessSave, NoTaskPCs
    <3> QED BY <3>1, TaskHeld
  <2>2. /\ TaskBacked(inbox, m.t, m.ts)
    BY <2>1 DEF TaskBacked, TaskRecord
  <2>3. SaveTask(m.t, m.ts)
    BY <1>4, <2>1 DEF ReadinessSave, TaskRecord
  <2>4. TasksBacked(inbox, task')
    <3> QED BY <2>1, <2>2, <2>3, SaveTaskBacked
  <2>5. Finish(p) /\ UNCHANGED <<disp, inbox, rejected, seq>>
    BY <1>4 DEF ReadinessSave
  <2> QED BY <2>4, <2>5, QuietFinish DEF Evidence
<1> QED BY <1>1, <1>2, <1>3, <1>4 DEF TaskNext

LEMMA CleanupEvidence == ASSUME Evidence, Typed', NEW p \in Procs, CleanupNext(p) PROVE Evidence'
<1>1. CASE Release(p)
  <2> DEFINE m(d) == [Blank EXCEPT !.d = d, !.ds[d] = disp[d]]
  <2>1. PICK d \in Dispatches : Goto(p, "rl_save", m(d))
    BY <1>1 DEF Release
  <2>2. mem'[p] = m(d) /\ m(d) \in Memory
    BY <1>1, <2>1 DEF Release, Goto, Evidence, Typed, ProcsOK
  <2>3. ProcessBacked(inbox, seq, "rl_save", m(d))
    <3>1. \A e \in Dispatches : m(d).ds[e] \in {NoDispatch, disp[e]}
      BY BlankBacked, BlankType DEF Memory
    <3> HIDE DEF m
    <3> QED BY <2>2, <3>1, CopiesBacked DEF NoTaskPCs
  <2>4. UNCHANGED store
    BY <1>1 DEF Release, store
  <2> HIDE DEF m
  <2> QED BY <2>1, <2>3, <2>4, QuietStep DEF Evidence, store
<1>2. CASE ReleaseSave(p)
  <2> DEFINE m == mem[p]
             r == [m.ds[m.d] EXCEPT !.released = TRUE]
  <2>1. m \in Memory /\ m.d \in Dispatches /\ ProcessBacked(inbox, seq, "rl_save", m)
    BY <1>2, AtBacked DEF ReleaseSave, Local, NoDispatchPCs
  <2>2. r \in DispatchRecord /\ DispatchBacked(inbox, m.d, r)
    BY <2>1, Held, DispatchUpdates, BackedUpdates DEF ProcessBacked
  <2>3. DispatchBacked(inbox, m.d, Abandoned(r))
    <3> HIDE DEF r
    <3> QED BY <2>2, BackedUpdates
  <2>4. SaveDispatch(m.d, r) \/ SaveDispatch(m.d, Abandoned(r))
    BY <1>2 DEF ReleaseSave
  <2>5. DispatchesBacked(inbox, disp')
    <3> HIDE DEF r
    <3> QED BY <2>1, <2>2, <2>3, <2>4, SaveDispatchBacked
  <2>6. Finish(p) /\ UNCHANGED <<task, inbox, rejected, seq>>
    BY <1>2 DEF ReleaseSave
  <2> QED BY <2>5, <2>6, QuietFinish DEF Evidence
<1>3. CASE DoctorOrphan(p)
  <2> DEFINE m(d) == [Blank EXCEPT !.d = d, !.t = disp[d].task, !.ds[d] = disp[d]]
  <2>1. PICK d \in Dispatches : Goto(p, "dr_scan", m(d))
    BY <1>3 DEF DoctorOrphan
  <2>2. mem'[p] = m(d) /\ m(d) \in Memory
    BY <1>3, <2>1 DEF DoctorOrphan, Goto, Evidence, Typed, ProcsOK
  <2>3. ProcessBacked(inbox, seq, "dr_scan", m(d))
    <3>1. \A e \in Dispatches : m(d).ds[e] \in {NoDispatch, disp[e]}
      BY BlankBacked, BlankType DEF Memory
    <3>2. TaskBacked(inbox, m(d).t, m(d).ts)
      BY BlankBacked, BlankType DEF Blank
    <3> HIDE DEF m
    <3> QED BY <2>2, <3>1, <3>2, CopiesBacked DEF NoTaskPCs
  <2>4. UNCHANGED store
    BY <1>3 DEF DoctorOrphan, store
  <2> HIDE DEF m
  <2> QED BY <2>1, <2>3, <2>4, QuietStep DEF Evidence, store
<1>4. CASE DoctorAbandon(p)
  <2> DEFINE m == mem[p]
             n == [m EXCEPT !.ts = task[m.t]]
  <2>1. /\ m \in Memory /\ m.d \in Dispatches /\ m.t \in Tasks
        /\ ProcessBacked(inbox, seq, "dr_scan", m)
    BY <1>4, AtBacked DEF DoctorAbandon, Local, NoDispatchPCs, NoTaskPCs
  <2>2. DispatchBacked(inbox, m.d, Abandoned(m.ds[m.d]))
    BY <2>1, Held, BackedUpdates DEF ProcessBacked
  <2>3. DispatchesBacked(inbox, disp')
    <3>1. SaveDispatch(m.d, Abandoned(m.ds[m.d]))
      BY <1>4 DEF DoctorAbandon
    <3> QED BY <2>1, <2>2, <3>1, SaveDispatchBacked
  <2>4. ProcessBacked(inbox, seq, "dr_task", n)
    <3>1. n.ds = m.ds /\ n.t = m.t /\ n.ts = task[m.t]
      BY <2>1 DEF Memory
    <3> HIDE DEF n
    <3> QED BY <2>1, <3>1 DEF ProcessBacked, Evidence, TasksBacked, NoTaskPCs
  <2>5. (Goto(p, "dr_task", n) \/ Finish(p)) /\ UNCHANGED <<task, inbox, rejected, seq>>
    BY <1>4 DEF DoctorAbandon
  <2> HIDE DEF n
  <2> QED BY <2>3, <2>4, <2>5, QuietStep, QuietFinish DEF Evidence
<1>5. CASE DoctorTask(p)
  <2> DEFINE m == mem[p]
             r(s) == [m.ts EXCEPT !.live = None, !.state = s]
  <2>1. m \in Memory /\ m.t \in Tasks /\ m.ts \in TaskRecord /\ TaskBacked(inbox, m.t, m.ts)
    <3>1. At(p, "dr_task") /\ "dr_task" \notin NoTaskPCs
      BY <1>5 DEF DoctorTask, NoTaskPCs
    <3> QED BY <3>1, TaskHeld
  <2>2. /\ TaskBacked(inbox, m.t, r("failed"))
        /\ TaskBacked(inbox, m.t, r("ready"))
    BY <2>1 DEF TaskBacked, TaskRecord
  <2>3. SaveTask(m.t, r("failed")) \/ SaveTask(m.t, r("ready"))
    BY <1>5, <2>1 DEF DoctorTask, TaskRecord
  <2>4. TasksBacked(inbox, task')
    <3> HIDE DEF r
    <3> QED BY <2>1, <2>2, <2>3, SaveTaskBacked
  <2>5. Finish(p) /\ UNCHANGED <<disp, inbox, rejected, seq>>
    BY <1>5 DEF DoctorTask
  <2> QED BY <2>4, <2>5, QuietFinish DEF Evidence
<1>6. CASE DoctorZombie(p)
  <2> DEFINE m(d) == [Blank EXCEPT !.d = d, !.ds[d] = disp[d]]
  <2>1. PICK d \in Dispatches : Goto(p, "zb_close", m(d))
    BY <1>6 DEF DoctorZombie
  <2>2. mem'[p] = m(d) /\ m(d) \in Memory
    BY <1>6, <2>1 DEF DoctorZombie, Goto, Evidence, Typed, ProcsOK
  <2>3. ProcessBacked(inbox, seq, "zb_close", m(d))
    <3>1. \A e \in Dispatches : m(d).ds[e] \in {NoDispatch, disp[e]}
      BY BlankBacked, BlankType DEF Memory
    <3> HIDE DEF m
    <3> QED BY <2>2, <3>1, CopiesBacked DEF NoTaskPCs
  <2>4. UNCHANGED store
    BY <1>6 DEF DoctorZombie, store
  <2> HIDE DEF m
  <2> QED BY <2>1, <2>3, <2>4, QuietStep DEF Evidence, store
<1>7. CASE DoctorClose(p)
  <2> DEFINE m == mem[p]
  <2>1. m \in Memory /\ m.d \in Dispatches /\ ProcessBacked(inbox, seq, "zb_close", m)
    BY <1>7, AtBacked DEF DoctorClose, Local, NoDispatchPCs
  <2>2. /\ DispatchBacked(inbox, m.d, [m.ds[m.d] EXCEPT !.released = TRUE])
    BY <2>1, Held, BackedUpdates DEF ProcessBacked
  <2>3. DispatchesBacked(inbox, disp')
    <3>1. SaveDispatch(m.d, [m.ds[m.d] EXCEPT !.released = TRUE])
      BY <1>7 DEF DoctorClose
    <3> QED BY <2>1, <2>2, <3>1, SaveDispatchBacked
  <2>4. Finish(p) /\ UNCHANGED <<task, inbox, rejected, seq>>
    BY <1>7 DEF DoctorClose
  <2> QED BY <2>3, <2>4, QuietFinish DEF Evidence
<1>8. CASE DoctorSkip(p)
  BY <1>8, QuietFinish DEF DoctorSkip, store, Evidence
<1>9. CASE PaneClosedHook(p)
  <2> DEFINE m(d) == [Blank EXCEPT !.d = d, !.ds[d] = disp[d]]
  <2>1. PICK d \in Dispatches : Goto(p, "hk_save", m(d))
    BY <1>9 DEF PaneClosedHook
  <2>2. mem'[p] = m(d) /\ m(d) \in Memory
    BY <1>9, <2>1 DEF PaneClosedHook, Goto, Evidence, Typed, ProcsOK
  <2>3. ProcessBacked(inbox, seq, "hk_save", m(d))
    <3>1. \A e \in Dispatches : m(d).ds[e] \in {NoDispatch, disp[e]}
      BY BlankBacked, BlankType DEF Memory
    <3> HIDE DEF m
    <3> QED BY <2>2, <3>1, CopiesBacked DEF NoTaskPCs
  <2>4. UNCHANGED store
    BY <1>9 DEF PaneClosedHook, store
  <2> HIDE DEF m
  <2> QED BY <2>1, <2>3, <2>4, QuietStep DEF Evidence, store
<1>10. CASE PaneClosedSave(p)
  <2> DEFINE m == mem[p]
  <2>1. m \in Memory /\ m.d \in Dispatches /\ ProcessBacked(inbox, seq, "hk_save", m)
    BY <1>10, AtBacked DEF PaneClosedSave, Local, NoDispatchPCs
  <2>2. /\ DispatchBacked(inbox, m.d, Abandoned(m.ds[m.d]))
    BY <2>1, Held, BackedUpdates DEF ProcessBacked
  <2>3. DispatchesBacked(inbox, disp')
    <3>1. SaveDispatch(m.d, Abandoned(m.ds[m.d]))
      BY <1>10 DEF PaneClosedSave
    <3> QED BY <2>1, <2>2, <3>1, SaveDispatchBacked
  <2>4. Finish(p) /\ UNCHANGED <<task, inbox, rejected, seq>>
    BY <1>10 DEF PaneClosedSave
  <2> QED BY <2>3, <2>4, QuietFinish DEF Evidence
<1> QED BY <1>1, <1>2, <1>3, <1>4, <1>5, <1>6, <1>7, <1>8, <1>9, <1>10 DEF CleanupNext

LEMMA WaitEvidence == ASSUME Evidence, Typed', NEW p \in Procs, WaitNext(p) PROVE Evidence'
<1>1. CASE Wait(p)
  <2> DEFINE m(d, f, n) == [Blank EXCEPT !.d = d, !.arg = f, !.n = n, !.ds[d] = disp[d]]
  <2>1. PICK d \in Dispatches, f \in Outcomes \cup {None}, n \in {0, seq} :
            Goto(p, "wt_block", m(d, f, n))
    BY <1>1 DEF Wait
  <2>2. mem'[p] = m(d, f, n) /\ m(d, f, n) \in Memory
    BY <1>1, <2>1 DEF Wait, Goto, Evidence, Typed, ProcsOK
  <2>3. ProcessBacked(inbox, seq, "wt_block", m(d, f, n))
    <3>1. \A e \in Dispatches : m(d, f, n).ds[e] \in {NoDispatch, disp[e]}
      BY BlankBacked, BlankType DEF Memory
    <3> HIDE DEF m
    <3> QED BY <2>2, <3>1, CopiesBacked DEF NoTaskPCs
  <2>4. UNCHANGED store
    BY <1>1 DEF Wait, store
  <2> HIDE DEF m
  <2> QED BY <2>1, <2>3, <2>4, QuietStep DEF Evidence, store
<1>2. CASE WaitFound(p)
  BY <1>2, QuietFinish DEF WaitFound, store, Evidence
<1>3. CASE WaitTimeout(p)
  <2> DEFINE m == mem[p]
  <2>1. m \in Memory /\ m.d \in Dispatches /\ ProcessBacked(inbox, seq, "wt_block", m)
    BY <1>3, AtBacked DEF WaitTimeout, Local, NoDispatchPCs
  <2>2. /\ DispatchBacked(inbox, m.d, m.ds[m.d])
    BY <2>1, Held, BackedUpdates DEF ProcessBacked
  <2>3. DispatchesBacked(inbox, disp')
    <3>1. SaveDispatch(m.d, m.ds[m.d])
      BY <1>3 DEF WaitTimeout
    <3> QED BY <2>1, <2>2, <3>1, SaveDispatchBacked
  <2>4. Finish(p) /\ UNCHANGED <<task, inbox, rejected, seq>>
    BY <1>3 DEF WaitTimeout
  <2> QED BY <2>3, <2>4, QuietFinish DEF Evidence
<1>4. CASE WaitPaneEvent(p)
  <2>1. At(p, "wt_block") /\ Goto(p, "wt_confirm", mem[p]) /\ UNCHANGED store
    BY <1>4 DEF WaitPaneEvent, store
  <2> QED BY <2>1, MoveStep DEF NoTaskPCs
<1>5. CASE WaitSpurious(p)
  <2> DEFINE m == mem[p]
  <2>1. m \in Memory /\ m.d \in Dispatches /\ ProcessBacked(inbox, seq, "wt_confirm", m)
    BY <1>5, AtBacked DEF WaitSpurious, Local, NoDispatchPCs
  <2>2. /\ DispatchBacked(inbox, m.d, m.ds[m.d])
    BY <2>1, Held, BackedUpdates DEF ProcessBacked
  <2>3. DispatchesBacked(inbox, disp')
    <3>1. SaveDispatch(m.d, m.ds[m.d])
      BY <1>5 DEF WaitSpurious
    <3> QED BY <2>1, <2>2, <3>1, SaveDispatchBacked
  <2>4. Goto(p, "wt_block", m) /\ UNCHANGED <<task, inbox, rejected, seq>>
    BY <1>5 DEF WaitSpurious
  <2>5. ProcessBacked(inbox, seq, "wt_block", m)
    BY <2>1 DEF ProcessBacked, NoTaskPCs
  <2> QED BY <2>3, <2>4, <2>5, QuietStep DEF Evidence
<1>6. CASE WaitConfirmed(p)
  <2> DEFINE m == mem[p]
             n == [m EXCEPT !.ds[m.d] = disp[m.d]]
  <2>1. m \in Memory /\ m.d \in Dispatches /\ ProcessBacked(inbox, seq, "wt_confirm", m)
    BY <1>6, AtBacked DEF WaitConfirmed, Local, NoDispatchPCs
  <2>2. ProcessBacked(inbox, seq, "wt_abandon", n)
    <3>1. \A e \in Dispatches : n.ds[e] \in {m.ds[e], disp[e]}
      BY <2>1 DEF Memory
    <3> HIDE DEF n
    <3> QED BY <2>1, <3>1 DEF ProcessBacked, NoTaskPCs, Evidence, DispatchesBacked
  <2>3. Goto(p, "wt_abandon", n) /\ UNCHANGED store
    BY <1>6 DEF WaitConfirmed, store
  <2> HIDE DEF n
  <2> QED BY <2>2, <2>3, QuietStep DEF Evidence, store
<1>7. CASE WaitAbandon(p)
  <2> DEFINE m == mem[p]
  <2>1. m \in Memory /\ m.d \in Dispatches /\ ProcessBacked(inbox, seq, "wt_abandon", m)
    BY <1>7, AtBacked DEF WaitAbandon, Local, NoDispatchPCs
  <2>2. /\ DispatchBacked(inbox, m.d, [m.ds[m.d] EXCEPT !.auth = FALSE])
        /\ DispatchBacked(inbox, m.d, Abandoned(m.ds[m.d]))
    BY <2>1, Held, BackedUpdates DEF ProcessBacked
  <2>3. DispatchesBacked(inbox, disp')
    <3>1. \/ SaveDispatch(m.d, [m.ds[m.d] EXCEPT !.auth = FALSE])
          \/ SaveDispatch(m.d, Abandoned(m.ds[m.d]))
      BY <1>7 DEF WaitAbandon
    <3> QED BY <2>1, <2>2, <3>1, SaveDispatchBacked
  <2>4. Finish(p) /\ UNCHANGED <<task, inbox, rejected, seq>>
    BY <1>7 DEF WaitAbandon
  <2> QED BY <2>3, <2>4, QuietFinish DEF Evidence
<1>8. CASE Nudge(p)
  <2> DEFINE m(d) == [Blank EXCEPT !.d = d, !.ds[d] = disp[d]]
  <2>1. PICK d \in Dispatches : Goto(p, "nd_save", m(d))
    BY <1>8 DEF Nudge
  <2>2. mem'[p] = m(d) /\ m(d) \in Memory
    BY <1>8, <2>1 DEF Nudge, Goto, Evidence, Typed, ProcsOK
  <2>3. ProcessBacked(inbox, seq, "nd_save", m(d))
    <3>1. \A e \in Dispatches : m(d).ds[e] \in {NoDispatch, disp[e]}
      BY BlankBacked, BlankType DEF Memory
    <3> HIDE DEF m
    <3> QED BY <2>2, <3>1, CopiesBacked DEF NoTaskPCs
  <2>4. UNCHANGED store
    BY <1>8 DEF Nudge, store
  <2> HIDE DEF m
  <2> QED BY <2>1, <2>3, <2>4, QuietStep DEF Evidence, store
<1>9. CASE NudgeSave(p)
  <2> DEFINE m == mem[p]
  <2>1. m \in Memory /\ m.d \in Dispatches /\ ProcessBacked(inbox, seq, "nd_save", m)
    BY <1>9, AtBacked DEF NudgeSave, Local, NoDispatchPCs
  <2>2. /\ DispatchBacked(inbox, m.d, m.ds[m.d])
    BY <2>1, Held, BackedUpdates DEF ProcessBacked
  <2>3. DispatchesBacked(inbox, disp')
    <3>1. SaveDispatch(m.d, m.ds[m.d])
      BY <1>9 DEF NudgeSave
    <3> QED BY <2>1, <2>2, <3>1, SaveDispatchBacked
  <2>4. Finish(p) /\ UNCHANGED <<task, inbox, rejected, seq>>
    BY <1>9 DEF NudgeSave
  <2> QED BY <2>3, <2>4, QuietFinish DEF Evidence
<1> QED BY <1>1, <1>2, <1>3, <1>4, <1>5, <1>6, <1>7, <1>8, <1>9 DEF WaitNext

LEMMA CrashEvidence == ASSUME Evidence, Typed', NEW p \in Procs, Crash(p) PROVE Evidence'
  BY QuietFinish DEF Crash, store, Evidence

LEMMA OtherEvidence ==
    ASSUME Evidence, Typed', UNCHANGED <<store, pc, mem>>
    PROVE  Evidence'
  BY DEF Evidence, store, DispatchesBacked, TasksBacked, ProcessesBacked, NumbersClaimed,
     DuplicateHasOriginal, Reports

LEMMA InitEvidence == Init => Evidence
<1> SUFFICES ASSUME Init PROVE Evidence
  OBVIOUS
<1>1. DispatchesBacked(inbox, disp)
  BY BlankBacked DEF Init, DispatchesBacked
<1>2. TasksBacked(inbox, task)
  BY DEF Init, TasksBacked, TaskBacked, NewTask
<1>3. ProcessesBacked
  BY BlankBacked DEF Init, ProcessesBacked
<1> QED BY <1>1, <1>2, <1>3, InitTyped DEF Init, Evidence, NumbersClaimed, DuplicateHasOriginal

LEMMA NextEvidence == Evidence /\ Typed' /\ [Next]_vars => Evidence'
<1> SUFFICES ASSUME Evidence, Typed', [Next]_vars PROVE Evidence'
  OBVIOUS
<1>1. ASSUME NEW p \in Procs, ProcNext(p) PROVE Evidence'
  BY <1>1, DoneEvidence, MessageEvidence, StartEvidence, CancelEvidence, TaskEvidence,
     CleanupEvidence, WaitEvidence, CrashEvidence DEF ProcNext
<1>2. ASSUME NEW d \in Dispatches, PaneDies(d) PROVE Evidence'
  BY <1>2, OtherEvidence DEF PaneDies
<1>3. CASE UNCHANGED vars
  BY <1>3, OtherEvidence DEF vars, store
<1> QED BY <1>1, <1>2, <1>3 DEF Next

\* The inductive invariant holds in every reachable state.
THEOREM EvidenceInvariant == Spec => []Evidence
  BY InitEvidence, NextEvidence, TypedInvariant, PTL DEF Spec

\* A dispatch is settled only by the accepted report its record names, whatever commands,
\* crashes and pane deaths interleave, and between any two file operations.
THEOREM SettledByReport == Spec => []SettledHasReport
<1>1. Evidence => SettledHasReport
  BY DEF Evidence, DispatchesBacked, DispatchBacked, ReportsIn, SettledHasReport, Reports
<1> QED BY <1>1, EvidenceInvariant, PTL

\* Only an accepted `succeeded` report ever moves a task to completed.
THEOREM CompletedByReport == Spec => []CompletedHasReport
<1>1. Evidence => CompletedHasReport
  BY DEF Evidence, TasksBacked, TaskBacked, ReportsIn, CompletedHasReport, Reports
<1> QED BY <1>1, EvidenceInvariant, PTL

\* No worker is told that it has already reported unless an earlier report of its dispatch
\* is durable.
THEOREM DuplicateRejection == Spec => []DuplicateHasOriginal
<1>1. Evidence => DuplicateHasOriginal
  BY DEF Evidence
<1> QED BY <1>1, EvidenceInvariant, PTL

==============================================================================
