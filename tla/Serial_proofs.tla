---------------------------- MODULE Serial_proofs ----------------------------
(***************************************************************************)
(* Theorems about Contract while commands run one after another (Grain =   *)
(* "command"), for every value of its other constants: the promises to a   *)
(* task's owner, the refinement of Authority, and the bookkeeping of tasks. *)
(***************************************************************************)
EXTENDS Contract_proofs, FiniteSetTheorems

-----------------------------------------------------------------------------
(* Commands that run one after another                                     *)

Alone == \A p, q \in Procs : pc[p] # "idle" /\ pc[q] # "idle" => p = q

LaunchPCs == {"st_new", "st_pane", "st_pane_ready", "st_launch", "st_undelivered", "st_commit",
              "st_commit_now"}
WatchPCs == {"dr_scan", "hk_save", "wt_block", "wt_confirm", "wt_abandon", "nd_save"}
HoldPCs == LaunchPCs \cup WatchPCs
           \cup {"dn_dispatch", "ms_write", "dc_save", "tc_dispatch", "rl_save", "zb_close"}

\* What a command has read is still so, and why it may write what it will write.
Fresh(l, m) ==
    /\ l \in HoldPCs => m.ds[m.d] = disp[m.d] /\ Created(m.d)
    /\ l \in LaunchPCs => disp[m.d].state = "starting"
    /\ l \in WatchPCs => disp[m.d].state = "dispatched"
    /\ l = "dc_save" => disp[m.d].state # "settled"
    /\ l = "zb_close" => disp[m.d].state \in {"abandoned", "superseded"}
    /\ (l = "dn_persist" /\ m.why = None) \/ l = "dn_dispatch" =>
          m.ds[m.d] = disp[m.d] /\ disp[m.d].auth /\ disp[m.d].task = m.t
    /\ l = "st_supersede" => m.ds = disp /\ (m.retry # None => disp[m.retry].task = m.t)
    /\ l = "st_create" => \A d \in Dispatches : ~(disp[d].auth /\ disp[d].task = m.t)
    /\ l = "st_task" => Created(m.d)
    /\ l = "ms_write" => m.arg # "report"
    /\ l # "idle" /\ m.ts.live # None => Created(m.ts.live)

RecordOK(d) ==
    /\ disp[d].auth <=> disp[d].state \in {"starting", "dispatched"}
    /\ Created(d) <=> disp[d].state # "none"

SerialInv ==
    /\ Typed /\ Alone /\ OneAuthorityPerTask
    /\ \A d \in Dispatches : RecordOK(d)
    /\ \A t \in Tasks : task[t].live # None => Created(task[t].live)
    /\ \A p \in Procs : Fresh(pc[p], mem[p])

\* What becomes of a record r: it stays, its launch commits, it ends, or it is settled.
Stays(r, s) ==
    /\ s.task = r.task /\ s.auth = r.auth /\ s.outcome = r.outcome /\ s.report = r.report
    /\ s.state = r.state
Commits(r, s) ==
    /\ s.task = r.task /\ s.auth = r.auth /\ s.outcome = r.outcome /\ s.report = r.report
    /\ r.state = "starting" /\ s.state = "dispatched"
Ends(r, s) ==
    /\ r.state \notin {"none", "settled"} /\ s.state \in {"superseded", "abandoned"}
    /\ s.task = r.task /\ ~s.auth
Settles(r, s) ==
    /\ r.auth /\ s.state = "settled" /\ s.outcome \in Outcomes
    /\ s.task = r.task /\ ~s.auth

\* What one step of process p does to the dispatches.
EndStep ==
    \E t \in Tasks \cup {None} : \A d \in Dispatches :
        \/ Stays(disp[d], disp'[d])
        \/ Ends(disp[d], disp'[d]) /\ (disp[d].auth => disp[d].task = t)
BirthStep(t) ==
    t \in Tasks /\ \E d \in Dispatches :
        /\ ~Created(d) /\ disp'[d] = NewDispatch(t)
        /\ \A e \in Dispatches : ~(disp[e].auth /\ disp[e].task = t)
        /\ \A e \in Dispatches \ {d} : disp'[e] = disp[e]
CommitStep(d) ==
    d \in Dispatches /\ Commits(disp[d], disp'[d]) /\ \A e \in Dispatches \ {d} : disp'[e] = disp[e]
SettleStep(d) ==
    d \in Dispatches /\ Settles(disp[d], disp'[d]) /\ \A e \in Dispatches \ {d} : disp'[e] = disp[e]
DispatchStep(p) ==
    \/ EndStep
    \/ pc[p] = "st_create" /\ BirthStep(mem[p].t)
    \/ pc[p] \in {"st_commit", "st_commit_now"} /\ CommitStep(mem[p].d)
    \/ pc[p] = "dn_dispatch" /\ SettleStep(mem[p].d)

LEMMA InitSerial == Init => SerialInv
<1> SUFFICES ASSUME Init PROVE SerialInv
  OBVIOUS
<1>1. \A t \in Tasks : task[t].live = None
  BY DEF Init, NewTask
<1>2. \A d \in Dispatches : ~disp[d].auth /\ RecordOK(d)
  BY DEF Init, NoDispatch, RecordOK, Created
<1>3. Alone /\ \A p \in Procs : Fresh(pc[p], mem[p])
  BY DEF Init, Alone, Fresh, HoldPCs, LaunchPCs, WatchPCs
<1> QED BY <1>1, <1>2, <1>3, InitTyped DEF SerialInv, OneAuthorityPerTask

LEMMA RecordMoves ==
    ASSUME NEW r \in DispatchRecord
    PROVE  /\ Stays(r, r) /\ Stays(r, [r EXCEPT !.released = TRUE])
           /\ Stays(r, [r EXCEPT !.pane = TRUE])
           /\ r.state = "starting" => Commits(r, [r EXCEPT !.state = "dispatched"])
           /\ r.state \notin {"none", "settled"} => Ends(r, Superseded(r)) /\ Ends(r, Abandoned(r))
           /\ r.auth => \A o \in Outcomes : \A n :
                  Settles(r, [r EXCEPT !.state = "settled", !.outcome = o, !.report = n,
                                       !.auth = FALSE])
BY DEF DispatchRecord, Stays, Commits, Ends, Settles, Superseded, Abandoned

LEMMA OneWrite ==
    ASSUME Typed, NEW d \in Dispatches, NEW s, SaveDispatch(d, s),
           Stays(disp[d], s) \/ Ends(disp[d], s)
    PROVE  EndStep
<1>1. \A e \in Dispatches : disp[e] \in DispatchRecord
  BY DEF Typed, StoreOK
<1>2. disp'[d] = s /\ \A e \in Dispatches \ {d} : disp'[e] = disp[e]
  BY DEF Typed, StoreOK, SaveDispatch
<1>3. disp[d].task \in Tasks \cup {None}
  BY <1>1 DEF DispatchRecord
<1>4. \A e \in Dispatches \ {d} : Stays(disp[e], disp'[e])
  BY <1>1, <1>2, RecordMoves
<1> QED BY <1>2, <1>3, <1>4 DEF EndStep

LEMMA NoWrite == ASSUME Typed, disp' = disp PROVE EndStep
<1>1. \A e \in Dispatches : Stays(disp[e], disp'[e])
  BY RecordMoves DEF Typed, StoreOK
<1> QED BY <1>1 DEF EndStep

\* Every step of a command is one of these.
LEMMA DispatchMoves ==
    ASSUME SerialInv, NEW p \in Procs, ProcNext(p)
    PROVE  DispatchStep(p)
<1> DEFINE m == mem[p]
           r == m.ds[m.d]
<1> USE DEF At
<1>1. /\ Typed /\ m \in Memory /\ Local(pc[p], m) /\ Fresh(pc[p], m)
      /\ \A d \in Dispatches : disp[d] \in DispatchRecord
      /\ pc[p] \notin NoDispatchPCs => m.d \in Dispatches
      /\ \A d \in Dispatches : RecordOK(d)
  BY DEF SerialInv, Typed, StoreOK, ProcsOK, LocalOK, Local
<1>2. ASSUME pc[p] \in HoldPCs, NEW s, SaveDispatch(m.d, s), Stays(r, s) \/ Ends(r, s)
      PROVE  EndStep
  <2>1. m.d \in Dispatches /\ r = disp[m.d]
    BY <1>1, <1>2 DEF Fresh, HoldPCs, LaunchPCs, WatchPCs, NoDispatchPCs
  <2> QED BY <1>1, <1>2, <2>1, OneWrite
<1>3. ASSUME pc[p] \in HoldPCs
      PROVE  r \in DispatchRecord /\ r = disp[m.d] /\ r.state # "none"
  BY <1>1, <1>3 DEF Fresh, RecordOK, HoldPCs, LaunchPCs, WatchPCs, NoDispatchPCs
<1>4. CASE UNCHANGED disp
  BY <1>1, <1>4, NoWrite DEF DispatchStep
<1>5. CASE DoneDispatch(p)
  <2>1. m.d \in Dispatches /\ m.arg \in Outcomes /\ r = disp[m.d] /\ disp[m.d].auth
    BY <1>1, <1>5 DEF DoneDispatch, Fresh, Local, NoDispatchPCs
  <2> DEFINE s == [r EXCEPT !.state = "settled", !.outcome = m.arg, !.report = m.n, !.auth = FALSE]
  <2>2. Settles(disp[m.d], s)
    BY <1>1, <2>1, RecordMoves
  <2>3. SaveDispatch(m.d, s) /\ pc[p] = "dn_dispatch"
    BY <1>5 DEF DoneDispatch
  <2> HIDE DEF s
  <2> QED BY <1>1, <2>1, <2>2, <2>3 DEF SaveDispatch, SettleStep, DispatchStep, Typed, StoreOK
<1>6. CASE StartSupersede(p)
  <2>1. /\ m.ds = disp /\ (m.retry # None => disp[m.retry].task = m.t) /\ m.t \in Tasks
    BY <1>1, <1>6 DEF StartSupersede, Fresh, Local, NoTaskPCs
  <2>2. disp' = [d \in Dispatches |-> IF d \in ToSupersede(m) THEN Superseded(m.ds[d])
                                                              ELSE disp[d]]
    BY <1>6 DEF StartSupersede
  <2>3. ASSUME NEW d \in Dispatches
        PROVE  \/ Stays(disp[d], disp'[d])
               \/ Ends(disp[d], disp'[d]) /\ (disp[d].auth => disp[d].task = m.t)
    <3>1. CASE d \in ToSupersede(m)
      <4>1. disp[d].task = m.t /\ disp[d].state # "settled"
        BY <2>1, <3>1, NoneIsNoId DEF ToSupersede
      <4>2. disp[d].state # "none"
        BY <1>1, <2>1, <4>1, NoneIsNoId DEF RecordOK, Created
      <4>3. disp'[d] = Superseded(disp[d])
        BY <2>1, <2>2, <3>1
      <4> QED BY <1>1, <4>1, <4>2, <4>3, RecordMoves
    <3>2. CASE d \notin ToSupersede(m)
      BY <1>1, <2>2, <3>2, RecordMoves
    <3> QED BY <3>1, <3>2
  <2> QED BY <2>1, <2>3 DEF EndStep, DispatchStep
<1>7. CASE StartCreate(p)
  <2>1. PICK d \in Dispatches : /\ ~Created(d) /\ SaveDispatch(d, NewDispatch(m.t))
                                /\ pc[p] = "st_create"
    BY <1>7 DEF StartCreate
  <2>2. m.t \in Tasks /\ \A e \in Dispatches : ~(disp[e].auth /\ disp[e].task = m.t)
    BY <1>1, <1>7 DEF StartCreate, Fresh, Local, NoTaskPCs
  <2> QED BY <1>1, <2>1, <2>2 DEF SaveDispatch, BirthStep, DispatchStep, Typed, StoreOK
<1>8. CASE WriteMessage(p) \/ WaitTimeout(p) \/ WaitSpurious(p) \/ NudgeSave(p)
  <2>1. pc[p] \in HoldPCs /\ (SaveDispatch(m.d, r) \/ UNCHANGED disp)
    BY <1>8 DEF WriteMessage, WaitTimeout, WaitSpurious, NudgeSave, HoldPCs, WatchPCs
  <2> QED BY <1>2, <1>3, <1>4, <2>1, RecordMoves DEF DispatchStep
<1>9. CASE StartWithdrawn(p) \/ StartPaneFails(p) \/ DispatchCancelSave(p)
  <2>1. pc[p] \in HoldPCs /\ SaveDispatch(m.d, Superseded(r))
    BY <1>9 DEF StartWithdrawn, StartPaneFails, DispatchCancelSave, HoldPCs, LaunchPCs
  <2>2. r.state # "settled"
    BY <1>1, <1>3, <1>9, <2>1 DEF StartWithdrawn, StartPaneFails, DispatchCancelSave, Fresh, LaunchPCs
  <2> QED BY <1>2, <1>3, <2>1, <2>2, RecordMoves DEF DispatchStep
<1>10. CASE StartUndeliveredSave(p) \/ DoctorAbandon(p) \/ PaneClosedSave(p)
  <2>1. pc[p] \in HoldPCs /\ SaveDispatch(m.d, Abandoned(r))
    BY <1>10 DEF StartUndeliveredSave, DoctorAbandon, PaneClosedSave, HoldPCs, LaunchPCs, WatchPCs
  <2>2. r.state # "settled"
    BY <1>1, <1>3, <1>10, <2>1
       DEF StartUndeliveredSave, DoctorAbandon, PaneClosedSave, Fresh, LaunchPCs, WatchPCs
  <2> QED BY <1>2, <1>3, <2>1, <2>2, RecordMoves DEF DispatchStep
<1>11. CASE TaskCancelDispatch(p)
  <2>1. /\ pc[p] \in HoldPCs
        /\ (r.state # "settled" /\ SaveDispatch(m.d, Superseded(r))) \/ UNCHANGED disp
    BY <1>11 DEF TaskCancelDispatch, HoldPCs
  <2> QED BY <1>2, <1>3, <1>4, <2>1, RecordMoves DEF DispatchStep
<1>12. CASE ReleaseSave(p)
  <2> DEFINE q == [r EXCEPT !.released = TRUE]
  <2>1. /\ pc[p] \in HoldPCs
        /\ SaveDispatch(m.d, IF q.state = "settled" THEN q ELSE Abandoned(q))
    BY <1>12 DEF ReleaseSave, HoldPCs
  <2>2. r \in DispatchRecord /\ r.state # "none"
    BY <1>3, <2>1
  <2>3. q \in DispatchRecord /\ Stays(r, q) /\ q.state = r.state /\ q.task = r.task
    BY <2>2 DEF DispatchRecord, Stays
  <2> HIDE DEF q
  <2>4. q.state # "settled" => Ends(r, Abandoned(q))
    BY <2>2, <2>3 DEF Ends, Abandoned, DispatchRecord
  <2> QED BY <1>2, <2>1, <2>3, <2>4 DEF DispatchStep
<1>13. CASE StartPaneReady(p)
  <2> DEFINE n == [m EXCEPT !.ds[m.d].pane = TRUE]
  <2>1. pc[p] \in HoldPCs /\ SaveDispatch(n.d, n.ds[n.d])
    BY <1>13 DEF StartPaneReady, HoldPCs, LaunchPCs
  <2>2. m.d \in Dispatches
    BY <1>1, <2>1 DEF HoldPCs, LaunchPCs, WatchPCs, NoDispatchPCs
  <2>3. n.d = m.d /\ n.ds[m.d] = [r EXCEPT !.pane = TRUE]
    BY <1>1, <2>2 DEF Memory
  <2> QED BY <1>2, <1>3, <2>1, <2>3, RecordMoves DEF DispatchStep
<1>14. CASE StartCommit(p)
  <2>1. pc[p] \in HoldPCs /\ SaveDispatch(m.d, [r EXCEPT !.state = "dispatched"])
    BY <1>14 DEF StartCommit, HoldPCs, LaunchPCs
  <2>2. r.state = "starting"
    BY <1>1, <1>3, <1>14, <2>1 DEF StartCommit, Fresh, LaunchPCs
  <2> DEFINE s == [r EXCEPT !.state = "dispatched"]
  <2>3. m.d \in Dispatches /\ Commits(disp[m.d], s)
    BY <1>1, <1>3, <2>1, <2>2, RecordMoves DEF HoldPCs, LaunchPCs, WatchPCs, NoDispatchPCs
  <2>4. pc[p] \in {"st_commit", "st_commit_now"}
    BY <1>14 DEF StartCommit
  <2> HIDE DEF s
  <2> QED BY <1>1, <2>1, <2>3, <2>4 DEF s, SaveDispatch, CommitStep, DispatchStep, Typed, StoreOK
<1>15. CASE DoctorClose(p)
  <2>1. pc[p] \in HoldPCs /\ SaveDispatch(m.d, [r EXCEPT !.released = TRUE])
    BY <1>15 DEF DoctorClose, HoldPCs
  <2> QED BY <1>2, <1>3, <2>1, RecordMoves DEF DispatchStep
<1>16. CASE WaitAbandon(p)
  <2>1. pc[p] \in HoldPCs /\ r.state = "dispatched"
    BY <1>1, <1>3, <1>16 DEF WaitAbandon, HoldPCs, Fresh, WatchPCs
  <2>2. SaveDispatch(m.d, Abandoned(r))
    BY <1>16, <2>1 DEF WaitAbandon
  <2> QED BY <1>2, <1>3, <2>1, <2>2, RecordMoves DEF DispatchStep
<1> USE DEF store
<1>17. DoneNext(p) => DoneDispatch(p) \/ UNCHANGED disp
  BY DEF DoneNext, DoneVerdict, DonePersist, DoneTask
<1>18. MessageNext(p) => WriteMessage(p) \/ UNCHANGED disp
  BY DEF MessageNext, SelfDispatch
<1>19. StartNext(p) =>
           \/ StartSupersede(p) \/ StartCreate(p) \/ StartWithdrawn(p) \/ StartPaneFails(p)
           \/ StartPaneReady(p) \/ StartUndeliveredSave(p) \/ StartCommit(p) \/ UNCHANGED disp
  BY DEF StartNext, Start, StartGuards, StartBadKind, StartTrustFails, StartPlacement, StartPane,
         StartAgentFails, StartUndelivered, StartDelivered, StartTask
<1>20. CancelNext(p) => DispatchCancelSave(p) \/ TaskCancelDispatch(p) \/ UNCHANGED disp
  BY DEF CancelNext, DispatchCancel, DispatchCancelTask, TaskCancel, TaskCancelTask
<1>21. TaskNext(p) \/ Crash(p) => UNCHANGED disp
  BY DEF TaskNext, TaskUpdate, TaskUpdateSave, Readiness, ReadinessSave, Crash
<1>22. CleanupNext(p) =>
           \/ ReleaseSave(p) \/ DoctorAbandon(p) \/ DoctorClose(p) \/ PaneClosedSave(p)
           \/ UNCHANGED disp
  BY DEF CleanupNext, Release, DoctorOrphan, DoctorTask, DoctorZombie, DoctorSkip, PaneClosedHook
<1>23. WaitNext(p) =>
           \/ WaitTimeout(p) \/ WaitSpurious(p) \/ WaitAbandon(p) \/ NudgeSave(p) \/ UNCHANGED disp
  BY DEF WaitNext, Wait, WaitFound, WaitPaneEvent, WaitConfirmed, Nudge
<1> QED BY <1>4, <1>5, <1>6, <1>7, <1>8, <1>9, <1>10, <1>11, <1>12, <1>13, <1>14, <1>15, <1>16,
           <1>17, <1>18, <1>19, <1>20, <1>21, <1>22, <1>23 DEF ProcNext

\* What such a step keeps: an attempt is never undone, and authority is not shared.
LEMMA StepKeeps ==
    ASSUME SerialInv, NEW p \in Procs, DispatchStep(p), Typed'
    PROVE  /\ OneAuthorityPerTask' /\ \A d \in Dispatches : RecordOK(d)'
           /\ \A d \in Dispatches : Created(d) => Created(d)'
<1>1. /\ \A d \in Dispatches : RecordOK(d) /\ disp[d] \in DispatchRecord
      /\ OneAuthorityPerTask
  BY DEF SerialInv, Typed, StoreOK
<1> USE DEF RecordOK, Created, OneAuthorityPerTask
<1>2. CASE EndStep
  <2>1. \A d \in Dispatches : Stays(disp[d], disp'[d]) \/ Ends(disp[d], disp'[d])
    BY <1>2 DEF EndStep
  <2>2. \A d \in Dispatches : disp'[d].task = disp[d].task /\ (disp'[d].auth => disp[d].auth)
    BY <2>1 DEF Stays, Ends
  <2>3. \A d \in Dispatches : RecordOK(d)'
    BY <1>1, <2>1 DEF Stays, Ends
  <2> QED BY <1>1, <2>2, <2>3
<1>3. CASE SettleStep(mem[p].d) \/ CommitStep(mem[p].d)
  <2>1. PICK d \in Dispatches : /\ Settles(disp[d], disp'[d]) \/ Commits(disp[d], disp'[d])
                                /\ \A e \in Dispatches \ {d} : disp'[e] = disp[e]
    BY <1>3 DEF SettleStep, CommitStep
  <2>2. \A e \in Dispatches : disp'[e].task = disp[e].task /\ (disp'[e].auth => disp[e].auth)
    BY <2>1 DEF Settles, Commits
  <2>3. \A e \in Dispatches : RecordOK(e)'
    BY <1>1, <2>1 DEF Settles, Commits
  <2> QED BY <1>1, <2>2, <2>3
<1>4. CASE BirthStep(mem[p].t)
  <2>1. PICK d \in Dispatches, t \in Tasks :
            /\ ~Created(d) /\ disp'[d] = NewDispatch(t)
            /\ \A e \in Dispatches : ~(disp[e].auth /\ disp[e].task = t)
            /\ \A e \in Dispatches \ {d} : disp'[e] = disp[e]
    BY <1>4 DEF BirthStep
  <2>2. /\ NewDispatch(t).task = t /\ NewDispatch(t).auth = TRUE
        /\ NewDispatch(t).state = "starting" /\ t # None
    BY NoneIsNoId DEF NewDispatch, NoDispatch
  <2> HIDE DEF RecordOK
  <2>3. \A e \in Dispatches : RecordOK(e)'
    BY <1>1, <2>1, <2>2 DEF RecordOK
  <2>4. OneAuthorityPerTask'
    <3> SUFFICES ASSUME NEW a \in Dispatches, NEW b \in Dispatches, disp'[a].auth, disp'[b].auth,
                        disp'[a].task = disp'[b].task
                 PROVE  a = b
      OBVIOUS
    <3> QED BY <1>1, <2>1, <2>2
  <2> QED BY <2>1, <2>2, <2>3, <2>4
<1> QED BY <1>2, <1>3, <1>4 DEF DispatchStep

\* Only one process is inside a command, and it alone moves.
LEMMA OthersWait ==
    ASSUME Grain = "command", SerialInv, NEW p \in Procs, ProcNext(p)
    PROVE  /\ Alone' /\ \A q \in Procs \ {p} : pc[q] = "idle" /\ pc'[q] = "idle"
           /\ \A l, n : Goto(p, l, n) => pc'[p] = l /\ mem'[p] = n
<1>1. pc \in [Procs -> PCs] /\ mem \in [Procs -> Memory] /\ Alone
  BY DEF SerialInv, Typed, ProcsOK
<1> USE DEF At, Begins, Finish
<1>2. MayStep(p) \/ pc[p] # "idle"
  BY DEF ProcNext, DoneNext, MessageNext, StartNext, CancelNext, TaskNext, CleanupNext, WaitNext,
         DoneVerdict, DonePersist, DoneDispatch, DoneTask, SelfDispatch, WriteMessage,
         Start, StartGuards, StartSupersede, StartBadKind, StartCreate, StartWithdrawn,
         StartTrustFails, StartPlacement, StartPaneFails, StartPane, StartPaneReady,
         StartAgentFails, StartUndelivered, StartUndeliveredSave, StartDelivered, StartCommit,
         StartTask, DispatchCancel, DispatchCancelSave, DispatchCancelTask,
         TaskCancel, TaskCancelDispatch, TaskCancelTask, TaskUpdate, TaskUpdateSave,
         Readiness, ReadinessSave, Release, ReleaseSave, DoctorOrphan, DoctorAbandon,
         DoctorTask, DoctorZombie, DoctorClose, DoctorSkip, PaneClosedHook, PaneClosedSave,
         Wait, WaitFound, WaitTimeout, WaitPaneEvent, WaitSpurious, WaitConfirmed,
         WaitAbandon, Nudge, NudgeSave, Crash
<1>3. \A q \in Procs \ {p} : pc[q] = "idle"
  BY <1>1, <1>2 DEF Alone, MayStep, YieldPCs
<1>4. \E l, n : Goto(p, l, n)
  BY DEF ProcNext, DoneNext, MessageNext, StartNext, CancelNext, TaskNext, CleanupNext, WaitNext,
         DoneVerdict, DonePersist, DoneDispatch, DoneTask, SelfDispatch, WriteMessage,
         Start, StartGuards, StartSupersede, StartBadKind, StartCreate, StartWithdrawn,
         StartTrustFails, StartPlacement, StartPaneFails, StartPane, StartPaneReady,
         StartAgentFails, StartUndelivered, StartUndeliveredSave, StartDelivered, StartCommit,
         StartTask, DispatchCancel, DispatchCancelSave, DispatchCancelTask,
         TaskCancel, TaskCancelDispatch, TaskCancelTask, TaskUpdate, TaskUpdateSave,
         Readiness, ReadinessSave, Release, ReleaseSave, DoctorOrphan, DoctorAbandon,
         DoctorTask, DoctorZombie, DoctorClose, DoctorSkip, PaneClosedHook, PaneClosedSave,
         Wait, WaitFound, WaitTimeout, WaitPaneEvent, WaitSpurious, WaitConfirmed,
         WaitAbandon, Nudge, NudgeSave, Crash
<1>5. \A q \in Procs \ {p} : pc'[q] = pc[q]
  BY <1>1, <1>4 DEF Goto
<1> QED BY <1>1, <1>3, <1>5 DEF Alone, Goto

\* The records of tasks name dispatches that exist.
LEMMA LiveKeeps ==
    ASSUME SerialInv, NEW p \in Procs, ProcNext(p), \A d \in Dispatches : Created(d) => Created(d)'
    PROVE  \A t \in Tasks : (task[t].live # None => Created(task[t].live))'
<1> DEFINE m == mem[p]
           Known(x) == x = None \/ (x \in Dispatches /\ Created(x))
<1> USE DEF At
<1>1. /\ task \in [Tasks -> TaskRecord] /\ m \in Memory /\ m.ts \in TaskRecord
      /\ Local(pc[p], m) /\ Fresh(pc[p], m) /\ \A t \in Tasks : Known(task[t].live)
  BY DEF SerialInv, Typed, StoreOK, ProcsOK, LocalOK, Memory, TaskRecord
<1>2. pc[p] # "idle" => Known(m.ts.live)
  BY <1>1 DEF Fresh, TaskRecord
<1>3. ASSUME NEW t \in Tasks, NEW x \in TaskRecord, SaveTask(t, x), Known(x.live)
      PROVE  \A u \in Tasks : Known(task'[u].live)
  BY <1>1, <1>3 DEF SaveTask
<1>4. pc[p] \notin NoTaskPCs => m.t \in Tasks
  BY <1>1 DEF Local
<1> HIDE DEF Known
<1>5. SUFFICES ASSUME ~UNCHANGED task
               PROVE  \A u \in Tasks : Known(task'[u].live)
  BY <1>1 DEF Known
<1>6. CASE DoneTask(p)
  <2>1. PICK l \in {None, m.ts.live} :
            SaveTask(m.t, [m.ts EXCEPT !.state = OutcomeToTaskState[m.arg], !.live = l])
    BY <1>1, <1>6 DEF DoneTask, TaskRecord
  <2>2. OutcomeToTaskState[m.arg] \in TaskStates /\ m.t \in Tasks /\ Known(l)
    BY <1>1, <1>2, <1>4, <1>6
       DEF DoneTask, Local, OutcomeToTaskState, TaskStates, Outcomes, Known, NoTaskPCs
  <2> DEFINE x == [m.ts EXCEPT !.state = OutcomeToTaskState[m.arg], !.live = l]
  <2>3. x \in TaskRecord /\ x.live = l
    BY <1>1, <2>2 DEF TaskRecord
  <2>4. SaveTask(m.t, x)
    BY <2>1
  <2> HIDE DEF x
  <2> QED BY <1>3, <2>2, <2>3, <2>4
<1>7. CASE StartTask(p)
  <2> DEFINE x == [m.ts EXCEPT !.attempts = m.ts.attempts + 1, !.state = "dispatched", !.live = m.d]
  <2>1. m.t \in Tasks /\ m.d \in Dispatches /\ Created(m.d) /\ m.ts.attempts < MaxAttempts
    BY <1>1, <1>4, <1>7 DEF StartTask, Local, Fresh, NoTaskPCs, NoDispatchPCs, StartPCs
  <2>2. x \in TaskRecord
    BY <1>1, <2>1, CountedAttempt
  <2>3. SaveTask(m.t, x)
    BY <1>1, <1>7 DEF StartTask, TaskRecord
  <2>4. x.live = m.d
    BY <1>1 DEF TaskRecord
  <2> HIDE DEF x
  <2> QED BY <1>3, <2>1, <2>2, <2>3, <2>4 DEF Known
<1>8. CASE StartGuards(p) \/ TaskUpdateSave(p)
  <2>1. SaveTask(m.t, Reconciled(m.t, m.ts)) /\ pc[p] \in {"st_guards", "up_save"}
    BY <1>5, <1>8 DEF StartGuards, TaskUpdateSave
  <2>2. Reconciled(m.t, m.ts) \in TaskRecord /\ Reconciled(m.t, m.ts).live = m.ts.live
    BY <1>1, TaskUpdates DEF Reconciled, TaskRecord
  <2> QED BY <1>2, <1>3, <1>4, <2>1, <2>2 DEF NoTaskPCs
<1>9. CASE ReadinessSave(p)
  BY <1>1, <1>2, <1>3, <1>4, <1>9 DEF ReadinessSave, NoTaskPCs
<1>10. CASE DispatchCancelTask(p) \/ TaskCancelTask(p) \/ DoctorTask(p)
  <2>1. PICK s \in TaskStates : SaveTask(m.t, [m.ts EXCEPT !.state = s, !.live = None])
    <3>1. m.ts.state \in TaskStates
      BY <1>1 DEF TaskRecord
    <3>2. {"ready", "cancelled", "failed"} \subseteq TaskStates
      BY DEF TaskStates
    <3>3. \E s \in {"ready", "cancelled", "failed", m.ts.state} :
              task' = [task EXCEPT ![m.t] = [m.ts EXCEPT !.state = s, !.live = None]]
      <4>1. CASE DispatchCancelTask(p)
        BY <1>1, <4>1 DEF DispatchCancelTask, SaveTask, TaskRecord
      <4>2. CASE TaskCancelTask(p)
        BY <1>1, <4>2 DEF TaskCancelTask, SaveTask, TaskRecord
      <4>3. CASE DoctorTask(p)
        BY <1>1, <4>3 DEF DoctorTask, SaveTask, TaskRecord
      <4> QED BY <1>10, <4>1, <4>2, <4>3
    <3> QED BY <3>1, <3>2, <3>3 DEF SaveTask
  <2> DEFINE x == [m.ts EXCEPT !.state = s, !.live = None]
  <2>2. x \in TaskRecord /\ x.live = None
    BY <1>1 DEF TaskRecord
  <2>3. m.t \in Tasks
    BY <1>4, <1>10 DEF DispatchCancelTask, TaskCancelTask, DoctorTask, NoTaskPCs
  <2> HIDE DEF x
  <2> QED BY <1>3, <2>1, <2>2, <2>3 DEF x, Known
<1> USE DEF store
<1>11. DoneNext(p) \/ MessageNext(p) => DoneTask(p) \/ UNCHANGED task
  BY DEF DoneNext, DoneVerdict, DonePersist, DoneDispatch, MessageNext, SelfDispatch, WriteMessage
<1>12. StartNext(p) => StartGuards(p) \/ StartTask(p) \/ UNCHANGED task
  BY DEF StartNext, Start, StartSupersede, StartBadKind, StartCreate, StartWithdrawn,
         StartTrustFails, StartPlacement, StartPaneFails, StartPane, StartPaneReady,
         StartAgentFails, StartUndelivered, StartUndeliveredSave, StartDelivered, StartCommit
<1>13. CancelNext(p) => DispatchCancelTask(p) \/ TaskCancelTask(p) \/ UNCHANGED task
  BY DEF CancelNext, DispatchCancel, DispatchCancelSave, TaskCancel, TaskCancelDispatch
<1>14. TaskNext(p) \/ Crash(p) => TaskUpdateSave(p) \/ ReadinessSave(p) \/ UNCHANGED task
  BY DEF TaskNext, TaskUpdate, Readiness, Crash
<1>15. CleanupNext(p) \/ WaitNext(p) => DoctorTask(p) \/ UNCHANGED task
  BY DEF CleanupNext, Release, ReleaseSave, DoctorOrphan, DoctorAbandon, DoctorZombie, DoctorClose,
         DoctorSkip, PaneClosedHook, PaneClosedSave, WaitNext, Wait, WaitFound, WaitTimeout,
         WaitPaneEvent, WaitSpurious, WaitConfirmed, WaitAbandon, Nudge, NudgeSave
<1> QED BY <1>5, <1>6, <1>7, <1>8, <1>9, <1>10, <1>11, <1>12, <1>13, <1>14, <1>15 DEF ProcNext

\* A command ends, or takes one of the steps after which it goes on.
LEMMA GoesOn ==
    ASSUME NEW p \in Procs, ProcNext(p)
    PROVE  \/ Finish(p)
           \/ DoneVerdict(p) \/ DonePersist(p) \/ DoneDispatch(p) \/ SelfDispatch(p)
           \/ Start(p) \/ StartGuards(p) \/ StartSupersede(p) \/ StartCreate(p) \/ StartPlacement(p)
           \/ StartPane(p) \/ StartPaneReady(p) \/ StartUndelivered(p) \/ StartDelivered(p)
           \/ StartCommit(p) \/ DispatchCancel(p) \/ DispatchCancelSave(p)
           \/ TaskCancel(p) \/ TaskCancelDispatch(p) \/ TaskUpdate(p) \/ Readiness(p)
           \/ Release(p) \/ DoctorOrphan(p) \/ DoctorAbandon(p) \/ DoctorZombie(p)
           \/ PaneClosedHook(p) \/ Wait(p) \/ WaitPaneEvent(p) \/ WaitSpurious(p)
           \/ WaitConfirmed(p) \/ Nudge(p)
  BY DEF ProcNext, DoneNext, MessageNext, StartNext, CancelNext, TaskNext, CleanupNext, WaitNext,
       DoneTask, WriteMessage, StartBadKind, StartWithdrawn, StartTrustFails, StartPaneFails,
       StartAgentFails, StartUndeliveredSave, StartTask, DispatchCancelTask, TaskCancelTask,
       TaskUpdateSave, ReadinessSave, ReleaseSave, DoctorTask, DoctorClose, DoctorSkip,
       PaneClosedSave, WaitFound, WaitTimeout, WaitAbandon, NudgeSave, Crash

LEMMA FreshKeeps ==
    ASSUME Grain = "command", SerialInv, NEW p \in Procs, ProcNext(p),
           \A d \in Dispatches : Created(d) => Created(d)'
    PROVE  Fresh(pc[p], mem[p])'
<1> DEFINE m == mem[p]
           Known(x) == x = None \/ (x \in Dispatches /\ Created(x))
<1> USE DEF At, Begins
<1>1. /\ m \in Memory /\ m.ts \in TaskRecord /\ Local(pc[p], m) /\ Fresh(pc[p], m)
      /\ task \in [Tasks -> TaskRecord] /\ disp \in [Dispatches -> DispatchRecord]
      /\ \A d \in Dispatches : RecordOK(d)
      /\ \A t \in Tasks : Known(task[t].live)
  BY DEF SerialInv, Typed, StoreOK, ProcsOK, LocalOK, Memory, TaskRecord
<1>2. \A l, n : Goto(p, l, n) => pc'[p] = l /\ mem'[p] = n
  BY OthersWait
<1>3. pc[p] # "idle" => Known(m.ts.live)
  BY <1>1 DEF Fresh, TaskRecord
<1>4. \A x : Known(x) /\ x # None => Created(x)'
  OBVIOUS
<1>5. pc[p] \notin NoDispatchPCs => m.d \in Dispatches
  BY <1>1 DEF Local
<1> HIDE DEF Known
<1> USE DEF HoldPCs, LaunchPCs, WatchPCs
\* A command that ends.
<1>6. CASE Finish(p)
  BY <1>2, <1>6 DEF Finish, Fresh
\* A command that goes on with what it has.
<1>7. ASSUME NEW l, Goto(p, l, m), pc[p] # "idle", disp' = disp,
             \/ pc[p] \in LaunchPCs /\ l \in LaunchPCs
             \/ pc[p] \in WatchPCs /\ l \in WatchPCs
      PROVE  Fresh(pc[p], mem[p])'
  <2>1. pc'[p] = l /\ mem'[p] = m
    BY <1>2, <1>7
  <2> QED BY <1>1, <1>3, <1>4, <1>7, <2>1 DEF Fresh, Created
\* A command that has written and has its task left to write.
<1>8. ASSUME NEW l \in {"dn_task", "tc_task", "st_task", "dc_task", "dr_task", "up_save", "rc_save",
                       "st_guards"},
             NEW n, Goto(p, l, n), Known(n.ts.live),
             l = "st_task" => \E d \in Dispatches : n.d = d /\ Created(d)'
      PROVE  Fresh(pc[p], mem[p])'
  <2>1. pc'[p] = l /\ mem'[p] = n
    BY <1>2, <1>8
  <2> QED BY <1>4, <1>8, <2>1 DEF Fresh
\* A command that begins with the record of a dispatch.
<1>9. ASSUME NEW l, NEW n, NEW d \in Dispatches, Goto(p, l, n), disp' = disp, Created(d),
             n.d = d, n.ds[d] = disp[d], n.ts.live = None, l = "ms_write" => n.arg # "report",
             \/ l \in WatchPCs /\ disp[d].state = "dispatched"
             \/ l = "dc_save" /\ disp[d].state # "settled"
             \/ l = "zb_close" /\ disp[d].state \in {"abandoned", "superseded"}
             \/ l \in {"ms_write", "rl_save"}
      PROVE  Fresh(pc[p], mem[p])'
  <2>1. pc'[p] = l /\ mem'[p] = n
    BY <1>2, <1>9
  <2> QED BY <1>9, <2>1 DEF Fresh, Created
<1>10. CASE DoneVerdict(p)
  <2>1. PICK t \in Tasks, d \in Dispatches, o \in Outcomes :
            Goto(p, "dn_persist", [Blank EXCEPT !.t = t, !.d = d, !.arg = o, !.why = Verdict(t, d),
                                                !.ts = task[t], !.ds[d] = disp[d]])
    BY <1>10 DEF DoneVerdict
  <2> DEFINE n == [Blank EXCEPT !.t = t, !.d = d, !.arg = o, !.why = Verdict(t, d),
                                !.ts = task[t], !.ds[d] = disp[d]]
  <2>2. n.t = t /\ n.d = d /\ n.why = Verdict(t, d) /\ n.ts = task[t] /\ n.ds[d] = disp[d]
    BY DEF Blank
  <2>3. disp' = disp
    BY <1>10 DEF DoneVerdict, store
  <2>4. Verdict(t, d) = None => disp[d].task = t /\ disp[d].auth
    BY NoneIsNoReason DEF Verdict, Reasons
  <2>5. Goto(p, "dn_persist", n)
    BY <2>1
  <2> HIDE DEF n
  <2>6. pc'[p] = "dn_persist" /\ mem'[p] = n
    BY <1>2, <2>5
  <2> QED BY <1>1, <1>4, <2>2, <2>3, <2>4, <2>6 DEF Fresh
<1>11. CASE DonePersist(p)
  <2> DEFINE n == [m EXCEPT !.n = seq + 1]
  <2>1. Finish(p) \/ (m.why = None /\ Goto(p, "dn_dispatch", n))
    BY <1>11 DEF DonePersist
  <2>2. n.t = m.t /\ n.d = m.d /\ n.ds = m.ds /\ n.ts = m.ts
    BY <1>1 DEF Memory
  <2>3. disp' = disp /\ pc[p] = "dn_persist"
    BY <1>11 DEF DonePersist
  <2>4. m.d \in Dispatches /\ m.t \in Tasks
    BY <1>1, <2>3 DEF Local, NoDispatchPCs, NoTaskPCs
  <2> HIDE DEF n
  <2>5. ASSUME m.why = None, pc'[p] = "dn_dispatch", mem'[p] = n
        PROVE  Fresh(pc[p], mem[p])'
    <3>1. m.ds[m.d] = disp[m.d] /\ disp[m.d].auth /\ disp[m.d].task = m.t
      BY <1>1, <2>3, <2>5 DEF Fresh
    <3>2. Created(m.d)
      BY <2>4, <3>1, NoneIsNoId DEF Created
    <3> QED BY <1>3, <1>4, <2>2, <2>3, <2>4, <2>5, <3>1, <3>2 DEF Fresh, Created
  <2> QED BY <1>2, <1>6, <2>1, <2>5
<1>12. CASE DoneDispatch(p) \/ TaskCancelDispatch(p)
  BY <1>3, <1>8, <1>12 DEF DoneDispatch, TaskCancelDispatch
<1>13. CASE StartCommit(p)
  <2>1. m.d \in Dispatches /\ Created(m.d) /\ pc[p] # "idle" /\ Goto(p, "st_task", m)
    BY <1>1, <1>5, <1>13 DEF StartCommit, Fresh, NoDispatchPCs
  <2>2. \E d \in Dispatches : m.d = d /\ Created(d)'
    BY <2>1
  <2> QED BY <1>3, <1>8, <2>1, <2>2
<1>14. CASE Start(p) \/ TaskUpdate(p) \/ Readiness(p)
  <2>1. PICK t \in Tasks, l \in {"st_guards", "up_save", "rc_save"} :
            \E n : /\ Goto(p, l, n)
                   /\ n.ts.live = task[t].live
    <3>1. CASE Start(p)
      <4>1. PICK t \in Tasks, mode \in StartModes, retry \in Dispatches \cup {None} :
                Goto(p, "st_guards",
                     [Blank EXCEPT !.t = t, !.mode = mode, !.retry = retry, !.ts = task[t]])
        BY <3>1 DEF Start
      <4>2. [Blank EXCEPT !.t = t, !.mode = mode, !.retry = retry, !.ts = task[t]].ts = task[t]
        BY DEF Blank
      <4> QED BY <4>1, <4>2
    <3>2. CASE TaskUpdate(p)
      <4>1. PICK t \in Tasks, to \in TaskStates :
                Goto(p, "up_save", [Blank EXCEPT !.t = t, !.ts = [task[t] EXCEPT !.state = to]])
        BY <3>2 DEF TaskUpdate
      <4>2. [task[t] EXCEPT !.state = to].live = task[t].live
        BY <1>1 DEF TaskRecord
      <4> DEFINE x == [task[t] EXCEPT !.state = to]
                 n == [Blank EXCEPT !.t = t, !.ts = x]
      <4>3. n.ts = x
        BY DEF Blank
      <4>4. Goto(p, "up_save", n) /\ n.ts.live = task[t].live
        BY <4>1, <4>2, <4>3
      <4> HIDE DEF n
      <4> QED BY <4>4
    <3>3. CASE Readiness(p)
      <4>1. PICK t \in Tasks :
                Goto(p, "rc_save", [Blank EXCEPT !.t = t, !.ts = Reconciled(t, task[t])])
        BY <3>3 DEF Readiness
      <4>2. Reconciled(t, task[t]).live = task[t].live
        BY <1>1 DEF TaskRecord, Reconciled
      <4> DEFINE x == Reconciled(t, task[t])
                 n == [Blank EXCEPT !.t = t, !.ts = x]
      <4>3. n.ts = x
        BY DEF Blank
      <4>4. Goto(p, "rc_save", n) /\ n.ts.live = task[t].live
        BY <4>1, <4>2, <4>3
      <4> HIDE DEF n
      <4> QED BY <4>4
    <3> QED BY <1>14, <3>1, <3>2, <3>3
  <2> QED BY <1>1, <1>8, <2>1
<1>15. CASE StartGuards(p)
  <2> DEFINE r == Reconciled(m.t, m.ts)
             n == [m EXCEPT !.ts = r, !.ds = disp]
  <2>1. \/ Finish(p)
        \/ /\ Goto(p, "st_supersede", n)
           /\ m.retry # None => disp[m.retry].task = m.t
    BY <1>15 DEF StartGuards, MayStart
  <2>2. r.live = m.ts.live
    BY <1>1 DEF Reconciled, TaskRecord
  <2> HIDE DEF r
  <2>3. n.t = m.t /\ n.retry = m.retry /\ n.ds = disp /\ n.ts = r
    BY <1>1 DEF Memory
  <2>4. disp' = disp /\ pc[p] # "idle"
    BY <1>15 DEF StartGuards
  <2> HIDE DEF n
  <2>5. ASSUME pc'[p] = "st_supersede", mem'[p] = n, m.retry # None => disp[m.retry].task = m.t
        PROVE  Fresh(pc[p], mem[p])'
    BY <1>3, <1>4, <2>2, <2>3, <2>4, <2>5 DEF Fresh
  <2> QED BY <1>2, <1>6, <2>1, <2>5
<1>16. CASE StartSupersede(p)
  <2> DEFINE n == [m EXCEPT !.ds = Blank.ds, !.retry = None]
  <2>1. Goto(p, "st_create", n) /\ pc[p] = "st_supersede" /\ m.ds = disp
    BY <1>1, <1>16 DEF StartSupersede, Fresh
  <2>2. n.t = m.t /\ n.ts = m.ts
    BY <1>1 DEF Memory
  <2>3. disp' = [d \in Dispatches |-> IF d \in ToSupersede(m) THEN Superseded(m.ds[d])
                                                              ELSE disp[d]]
    BY <1>16 DEF StartSupersede
  <2>4. \A d \in Dispatches : ~(disp'[d].auth /\ disp'[d].task = m.t)
    <3> SUFFICES ASSUME NEW d \in Dispatches, disp'[d].auth, disp'[d].task = m.t
                 PROVE  FALSE
      OBVIOUS
    <3>1. ~Superseded(disp[d]).auth
      BY <1>1 DEF Superseded, DispatchRecord
    <3>2. disp'[d] = disp[d] /\ d \notin ToSupersede(m)
      BY <2>1, <2>3, <3>1
    <3>3. disp[d].state # "settled"
      BY <1>1, <3>2 DEF RecordOK
    <3> QED BY <2>1, <3>2, <3>3 DEF ToSupersede
  <2> HIDE DEF n
  <2>5. pc'[p] = "st_create" /\ mem'[p] = n
    BY <1>2, <2>1
  <2> QED BY <1>3, <1>4, <2>1, <2>2, <2>4, <2>5 DEF Fresh
<1>17. CASE StartCreate(p)
  <2>1. PICK d \in Dispatches : /\ SaveDispatch(d, NewDispatch(m.t))
                                /\ Goto(p, "st_new", [m EXCEPT !.d = d, !.ds[d] = NewDispatch(m.t)])
    BY <1>17 DEF StartCreate
  <2> DEFINE n == [m EXCEPT !.d = d, !.ds[d] = NewDispatch(m.t)]
  <2>2. n.d = d /\ n.ds[d] = NewDispatch(m.t) /\ n.ts = m.ts
    BY <1>1 DEF Memory
  <2>3. disp'[d] = NewDispatch(m.t)
    BY <1>1, <2>1 DEF SaveDispatch
  <2>4. pc[p] = "st_create" /\ m.t \in Tasks
    BY <1>1, <1>17 DEF StartCreate, Local, NoTaskPCs
  <2>5. NewDispatch(m.t).state = "starting" /\ NewDispatch(m.t).task # None
    BY <2>4, NoneIsNoId DEF NewDispatch, NoDispatch
  <2>6. Goto(p, "st_new", n)
    BY <2>1
  <2> HIDE DEF n
  <2>7. pc'[p] = "st_new" /\ mem'[p] = n
    BY <1>2, <2>6
  <2> QED BY <1>3, <1>4, <2>2, <2>3, <2>4, <2>5, <2>7 DEF Fresh, Created
<1>18. CASE StartPlacement(p) \/ StartPane(p) \/ StartUndelivered(p) \/ StartDelivered(p)
  BY <1>7, <1>18 DEF StartPlacement, StartPane, StartUndelivered, StartDelivered, store
<1>19. CASE StartPaneReady(p)
  <2> DEFINE n == [m EXCEPT !.ds[m.d].pane = TRUE]
             s == [m.ds[m.d] EXCEPT !.pane = TRUE]
  <2>1. /\ pc[p] = "st_pane_ready" /\ SaveDispatch(n.d, n.ds[n.d])
        /\ Goto(p, "st_commit_now", n) \/ Goto(p, "st_launch", n)
    BY <1>1, <1>19 DEF StartPaneReady, Memory
  <2>2. m.d \in Dispatches /\ m.ds[m.d] = disp[m.d] /\ disp[m.d].state = "starting" /\ Created(m.d)
    BY <1>1, <1>5, <2>1 DEF Fresh, NoDispatchPCs
  <2>3. n.d = m.d /\ n.ds[m.d] = s /\ n.ts = m.ts
    BY <1>1, <2>2 DEF Memory
  <2>4. disp'[m.d] = s
    BY <1>1, <2>1, <2>2, <2>3 DEF SaveDispatch
  <2>5. s.state = "starting" /\ s.task = disp[m.d].task
    BY <1>1, <2>2 DEF DispatchRecord
  <2> HIDE DEF n, s
  <2>6. pc'[p] \in {"st_commit_now", "st_launch"} /\ mem'[p] = n
    BY <1>2, <2>1
  <2> QED BY <1>3, <1>4, <2>1, <2>2, <2>3, <2>4, <2>5, <2>6 DEF Fresh, Created
<1>20. CASE TaskCancel(p)
  <2>1. PICK t \in Tasks : LET n == [Blank EXCEPT !.t = t, !.ts = task[t], !.d = task[t].live] IN
                           IF n.d = None THEN Goto(p, "tc_task", n)
                           ELSE Goto(p, "tc_dispatch", [n EXCEPT !.ds[n.d] = disp[n.d]])
    BY <1>20 DEF TaskCancel
  <2> DEFINE n == [Blank EXCEPT !.t = t, !.ts = task[t], !.d = task[t].live]
             o == [n EXCEPT !.ds[n.d] = disp[n.d]]
  <2>2. n.d = task[t].live /\ n.ts = task[t]
    BY DEF Blank
  <2>3. o.d = n.d /\ o.ts = n.ts /\ (n.d \in Dispatches => o.ds[n.d] = disp[n.d])
    BY DEF Blank
  <2>4. (n.d = None /\ Goto(p, "tc_task", n)) \/ (n.d # None /\ Goto(p, "tc_dispatch", o))
    BY <2>1
  <2>5. disp' = disp
    BY <1>20 DEF TaskCancel, store
  <2> HIDE DEF n, o
  <2>6. ASSUME n.d # None, pc'[p] = "tc_dispatch", mem'[p] = o
        PROVE  Fresh(pc[p], mem[p])'
    <3>1. n.d \in Dispatches /\ Created(n.d)
      BY <1>1, <2>2, <2>6 DEF Known
    <3> QED BY <1>1, <1>4, <2>2, <2>3, <2>5, <2>6, <3>1 DEF Fresh, Created
  <2> QED BY <1>1, <1>2, <1>8, <2>2, <2>4, <2>6
<1>21. CASE DispatchCancelSave(p) \/ DoctorAbandon(p)
  <2> DEFINE n == [m EXCEPT !.ts = task[m.t]]
  <2>1. \/ Finish(p)
        \/ Goto(p, "dc_task", n) \/ Goto(p, "dr_task", n)
    BY <1>21 DEF DispatchCancelSave, DoctorAbandon
  <2>2. m.t \in Tasks
    BY <1>1, <1>21 DEF DispatchCancelSave, DoctorAbandon, Local, NoTaskPCs
  <2>3. n.ts = task[m.t]
    BY <1>1 DEF Memory
  <2> HIDE DEF n
  <2> QED BY <1>1, <1>6, <1>8, <2>1, <2>2, <2>3
<1>22. CASE WaitPaneEvent(p)
  BY <1>7, <1>22 DEF WaitPaneEvent, store
<1>23. CASE WaitSpurious(p)
  <2>1. disp' = disp
    BY <1>1, <1>5, <1>23 DEF WaitSpurious, Fresh, SaveDispatch, NoDispatchPCs
  <2> QED BY <1>7, <1>23, <2>1 DEF WaitSpurious
<1>24. CASE WaitConfirmed(p)
  <2>1. pc[p] = "wt_confirm" /\ m.ds[m.d] = disp[m.d] /\ m.d \in Dispatches /\ disp' = disp
    BY <1>1, <1>5, <1>24 DEF WaitConfirmed, Fresh, NoDispatchPCs, store
  <2>2. [m EXCEPT !.ds[m.d] = disp[m.d]] = m
    BY <1>1, <2>1 DEF Memory
  <2>3. Goto(p, "wt_abandon", m)
    BY <1>24, <2>2 DEF WaitConfirmed
  <2> QED BY <1>7, <2>1, <2>3
<1>25. CASE SelfDispatch(p) \/ DispatchCancel(p) \/ Release(p) \/ DoctorOrphan(p) \/ DoctorZombie(p)
            \/ PaneClosedHook(p) \/ Wait(p) \/ Nudge(p)
  <2>1. disp' = disp
    BY <1>25 DEF SelfDispatch, DispatchCancel, Release, DoctorOrphan, DoctorZombie, PaneClosedHook,
                 Wait, Nudge, store
  <2>2. \A d \in Dispatches : disp[d].state # "none" => Created(d)
    BY <1>1 DEF RecordOK
  <2>3. CASE SelfDispatch(p)
    <3>1. PICK d \in Dispatches, type \in {"heartbeat", "question"} :
              /\ Created(d)
              /\ Goto(p, "ms_write", [Blank EXCEPT !.t = disp[d].task, !.d = d, !.arg = type,
                                                   !.ds[d] = disp[d]])
      BY <2>3 DEF SelfDispatch
    <3> DEFINE n == [Blank EXCEPT !.t = disp[d].task, !.d = d, !.arg = type, !.ds[d] = disp[d]]
    <3>2. n.d = d /\ n.ds[d] = disp[d] /\ n.ts.live = None /\ n.arg # "report"
      BY DEF Blank, NoTask
    <3> HIDE DEF n
    <3> QED BY <1>9, <2>1, <3>1, <3>2 DEF n
  <2>4. CASE DispatchCancel(p) \/ DoctorOrphan(p)
    <3>1. PICK d \in Dispatches, l \in {"dc_save", "dr_scan"} :
              /\ Created(d) /\ disp[d].state # "settled"
              /\ l = "dr_scan" => disp[d].state = "dispatched"
              /\ Goto(p, l, [Blank EXCEPT !.d = d, !.t = disp[d].task, !.ds[d] = disp[d]])
      BY <2>4 DEF DispatchCancel, DoctorOrphan
    <3> DEFINE n == [Blank EXCEPT !.d = d, !.t = disp[d].task, !.ds[d] = disp[d]]
    <3>2. n.d = d /\ n.ds[d] = disp[d] /\ n.ts.live = None
      BY DEF Blank, NoTask
    <3>3. Goto(p, l, n)
      BY <3>1
    <3> HIDE DEF n
    <3> QED BY <1>9, <2>1, <3>1, <3>2, <3>3
  <2>5. CASE Release(p) \/ DoctorZombie(p) \/ PaneClosedHook(p) \/ Nudge(p)
    <3>1. PICK d \in Dispatches, l \in {"rl_save", "zb_close", "hk_save", "nd_save"} :
              /\ Created(d)
              /\ l \in {"hk_save", "nd_save"} => disp[d].state = "dispatched"
              /\ l = "zb_close" => disp[d].state \in {"abandoned", "superseded"}
              /\ Goto(p, l, [Blank EXCEPT !.d = d, !.ds[d] = disp[d]])
      BY <2>2, <2>5 DEF Release, DoctorZombie, PaneClosedHook, Nudge
    <3> DEFINE n == [Blank EXCEPT !.d = d, !.ds[d] = disp[d]]
    <3>2. n.d = d /\ n.ds[d] = disp[d] /\ n.ts.live = None
      BY DEF Blank, NoTask
    <3>3. Goto(p, l, n)
      BY <3>1
    <3> HIDE DEF n
    <3> QED BY <1>9, <2>1, <3>1, <3>2, <3>3
  <2>6. CASE Wait(p)
    <3>1. PICK d \in Dispatches, filter \in Outcomes \cup {None}, i \in {0, seq} :
              /\ disp[d].state = "dispatched"
              /\ Goto(p, "wt_block", [Blank EXCEPT !.d = d, !.arg = filter, !.n = i,
                                                   !.ds[d] = disp[d]])
      BY <2>6 DEF Wait
    <3> DEFINE n == [Blank EXCEPT !.d = d, !.arg = filter, !.n = i, !.ds[d] = disp[d]]
    <3>2. n.d = d /\ n.ds[d] = disp[d] /\ n.ts.live = None
      BY DEF Blank, NoTask
    <3>3. Goto(p, "wt_block", n)
      BY <3>1
    <3> HIDE DEF n
    <3> QED BY <1>9, <2>1, <2>2, <3>1, <3>2, <3>3
  <2> QED BY <1>25, <2>3, <2>4, <2>5, <2>6
<1>26. \/ Finish(p)
       \/ DoneVerdict(p) \/ DonePersist(p) \/ DoneDispatch(p) \/ SelfDispatch(p)
       \/ Start(p) \/ StartGuards(p) \/ StartSupersede(p) \/ StartCreate(p) \/ StartPlacement(p)
       \/ StartPane(p) \/ StartPaneReady(p) \/ StartUndelivered(p) \/ StartDelivered(p)
       \/ StartCommit(p) \/ DispatchCancel(p) \/ DispatchCancelSave(p)
       \/ TaskCancel(p) \/ TaskCancelDispatch(p) \/ TaskUpdate(p) \/ Readiness(p)
       \/ Release(p) \/ DoctorOrphan(p) \/ DoctorAbandon(p) \/ DoctorZombie(p)
       \/ PaneClosedHook(p) \/ Wait(p) \/ WaitPaneEvent(p) \/ WaitSpurious(p)
       \/ WaitConfirmed(p) \/ Nudge(p)
  BY GoesOn
<1> QED BY <1>6, <1>10, <1>11, <1>12, <1>13, <1>14, <1>15, <1>16, <1>17, <1>18, <1>19, <1>20,
           <1>21, <1>22, <1>23, <1>24, <1>25, <1>26

LEMMA NextSerial == Grain = "command" /\ SerialInv /\ [Next]_vars => SerialInv'
<1> SUFFICES ASSUME Grain = "command", SerialInv, [Next]_vars PROVE SerialInv'
  OBVIOUS
<1>1. Typed'
  BY NextTyped DEF SerialInv
<1>2. ASSUME NEW p \in Procs, ProcNext(p) PROVE SerialInv'
  <2>1. DispatchStep(p)
    BY <1>2, DispatchMoves
  <2>2. /\ OneAuthorityPerTask' /\ \A d \in Dispatches : RecordOK(d)'
        /\ \A d \in Dispatches : Created(d) => Created(d)'
    BY <1>1, <2>1, StepKeeps
  <2>3. Alone' /\ \A q \in Procs \ {p} : pc'[q] = "idle"
    BY <1>2, OthersWait
  <2>4. \A t \in Tasks : (task[t].live # None => Created(task[t].live))'
    BY <1>2, <2>2, LiveKeeps
  <2>5. \A q \in Procs : Fresh(pc[q], mem[q])'
    <3>1. Fresh(pc[p], mem[p])'
      BY <1>2, <2>2, FreshKeeps
    <3>2. \A q \in Procs \ {p} : Fresh(pc[q], mem[q])'
      BY <2>3 DEF Fresh, HoldPCs, LaunchPCs, WatchPCs
    <3> QED BY <3>1, <3>2
  <2> QED BY <1>1, <2>2, <2>3, <2>4, <2>5 DEF SerialInv
<1>3. ASSUME UNCHANGED <<task, disp, pc, mem>> PROVE SerialInv'
  BY <1>1, <1>3 DEF SerialInv, Alone, OneAuthorityPerTask, RecordOK, Created, Fresh
<1> QED BY <1>2, <1>3 DEF Next, PaneDies, vars, store

\* While commands run one after another: what a command has read is still so when it writes.
THEOREM SerialCommands ==
    ASSUME Grain = "command"
    PROVE  Spec => []SerialInv
<1>1. SerialInv /\ [Next]_vars => SerialInv'
  BY NextSerial
<1> QED BY <1>1, InitSerial, PTL DEF Spec

\* At most one attempt of a task has the authority to complete it.
THEOREM OneAuthority ==
    ASSUME Grain = "command"
    PROVE  Spec => []OneAuthorityPerTask
<1>1. SerialInv => OneAuthorityPerTask
  BY DEF SerialInv
<1> QED BY <1>1, SerialCommands, PTL

\* Whatever happens to the store happens to the dispatches in one of these ways, or not at all.
LEMMA NextMoves == SerialInv /\ [Next]_vars => (\E p \in Procs : DispatchStep(p)) \/ UNCHANGED disp
  BY DispatchMoves DEF Next, PaneDies, vars, store

LEMMA SettledStays ==
    ASSUME SerialInv, NEW p \in Procs, DispatchStep(p), NEW d \in Dispatches
    PROVE  /\ disp[d].state = "settled" =>
                  disp'[d].state = "settled" /\ disp'[d].outcome = disp[d].outcome
                  /\ disp'[d].report = disp[d].report
           /\ disp[d].state = "superseded" =>
                  disp'[d].state \notin {"starting", "dispatched", "settled"}
<1>1. RecordOK(d)
  BY DEF SerialInv
<1>2. CASE EndStep
  BY <1>1, <1>2 DEF EndStep, Stays, Ends
<1>3. CASE SettleStep(mem[p].d) \/ CommitStep(mem[p].d)
  BY <1>1, <1>3 DEF SettleStep, Settles, CommitStep, Commits, RecordOK
<1>4. CASE BirthStep(mem[p].t)
  BY <1>1, <1>4 DEF BirthStep, RecordOK
<1> QED BY <1>2, <1>3, <1>4 DEF DispatchStep

\* The first report stands, and no superseded attempt settles, for any retries, failed launches,
\* dead panes and crashes.
THEOREM FirstReport ==
    ASSUME Grain = "command"
    PROVE  Spec => FirstReportStands
<1>1. SerialInv /\ [Next]_vars =>
          [\A d \in Dispatches : disp[d].state = "settled" =>
              /\ disp'[d].state = "settled"
              /\ disp'[d].outcome = disp[d].outcome
              /\ disp'[d].report = disp[d].report]_disp
  BY NextMoves, SettledStays
<1> QED BY <1>1, SerialCommands, PTL DEF Spec, FirstReportStands

\* Once superseded, an attempt is over.
THEOREM SupersededIsOver ==
    ASSUME Grain = "command"
    PROVE  Spec => SupersededNeverSettles
<1>1. SerialInv /\ [Next]_vars =>
          [\A d \in Dispatches : disp[d].state = "superseded" =>
              disp'[d].state \notin {"starting", "dispatched", "settled"}]_disp
  BY NextMoves, SettledStays
<1> QED BY <1>1, SerialCommands, PTL DEF Spec, SupersededNeverSettles

-----------------------------------------------------------------------------
(* A worker reports once                                                   *)

\* A report that is filed has settled its dispatch, or is about to.
Heard ==
    \A x \in Reports :
        \/ disp[x.disp].state = "settled"
        \/ \E p \in Procs : pc[p] = "dn_dispatch" /\ mem[p].d = x.disp

LEMMA ProcHears ==
    ASSUME Grain = "command", "crash" \notin Faults, SerialInv, Heard, OneReportPerDispatch,
           NEW p \in Procs, ProcNext(p)
    PROVE  Heard' /\ OneReportPerDispatch'
<1> DEFINE m == mem[p]
<1> USE DEF At, Finish, store
<1>1. /\ m \in Memory /\ Local(pc[p], m) /\ Fresh(pc[p], m) /\ Typed
      /\ \A d \in Dispatches : RecordOK(d)
      /\ \A x \in inbox : x.disp \in Dispatches
  BY DEF SerialInv, Typed, StoreOK, ProcsOK, LocalOK, Message
<1>2. /\ \A q \in Procs \ {p} : pc[q] = "idle"
      /\ \A l, n : Goto(p, l, n) => pc'[p] = l /\ mem'[p] = n
  BY OthersWait
<1>3. \A x \in Reports : \/ disp[x.disp].state = "settled"
                         \/ pc[p] = "dn_dispatch" /\ m.d = x.disp
  BY <1>2 DEF Heard
<1>4. \A d \in Dispatches : disp[d].state = "settled" => disp'[d].state = "settled"
  BY DispatchMoves, SettledStays
<1>5. CASE DonePersist(p) /\ m.why = None
  <2> DEFINE x == [seq |-> seq + 1, type |-> "report", task |-> m.t, disp |-> m.d,
                   outcome |-> m.arg]
  <2>1. /\ pc[p] = "dn_persist" /\ inbox' = inbox \cup {x} /\ disp' = disp
        /\ Goto(p, "dn_dispatch", [m EXCEPT !.n = seq + 1])
    BY <1>5 DEF DonePersist
  <2>2. pc'[p] = "dn_dispatch" /\ mem'[p].d = m.d
    BY <1>1, <1>2, <2>1 DEF Memory
  <2>3. m.d \in Dispatches /\ disp[m.d].state # "settled"
    BY <1>1, <1>5, <2>1 DEF Fresh, RecordOK, Local, NoDispatchPCs
  <2>4. Reports' = Reports \cup {x} /\ x.disp = m.d
    BY <2>1 DEF Reports
  <2>5. \A y \in Reports : disp[y.disp].state = "settled" /\ y.disp # m.d
    BY <1>3, <2>1, <2>3
  <2> HIDE DEF x
  <2>6. Heard'
    BY <2>1, <2>2, <2>4, <2>5 DEF Heard
  <2>7. OneReportPerDispatch'
    BY <2>4, <2>5 DEF OneReportPerDispatch
  <2> QED BY <2>6, <2>7
<1>6. CASE Reports' = Reports /\ pc[p] # "dn_dispatch"
  <2>1. \A x \in Reports : disp'[x.disp].state = "settled"
    BY <1>1, <1>3, <1>4, <1>6 DEF Reports
  <2> QED BY <1>6, <2>1 DEF Heard, OneReportPerDispatch
<1>7. CASE DoneDispatch(p)
  <2>1. m.d \in Dispatches /\ pc[p] = "dn_dispatch" /\ Reports' = Reports
    BY <1>1, <1>7 DEF DoneDispatch, Reports, Local, NoDispatchPCs
  <2>2. disp'[m.d].state = "settled"
    <3>1. disp'[m.d] = [m.ds[m.d] EXCEPT !.state = "settled", !.outcome = m.arg, !.report = m.n,
                                         !.auth = FALSE]
      BY <1>1, <1>7, <2>1 DEF DoneDispatch, SaveDispatch, Typed, StoreOK
    <3>2. m.ds[m.d] \in DispatchRecord
      BY <1>1, <2>1, Held
    <3> QED BY <3>1, <3>2 DEF DispatchRecord
  <2>3. \A x \in Reports : disp'[x.disp].state = "settled"
    BY <1>1, <1>3, <1>4, <2>1, <2>2 DEF Reports
  <2> QED BY <2>1, <2>3 DEF Heard, OneReportPerDispatch
<1>8. CASE WriteMessage(p)
  <2>1. /\ pc[p] = "ms_write" /\ m.arg # "report"
        /\ inbox' = inbox \cup {[seq |-> seq + 1, type |-> m.arg, task |-> m.t, disp |-> m.d,
                                 outcome |-> None]}
    BY <1>1, <1>8 DEF WriteMessage, Fresh
  <2>2. Reports' = Reports
    BY <2>1 DEF Reports
  <2> QED BY <1>6, <2>1, <2>2
<1>9. CASE inbox' = inbox /\ pc[p] # "dn_dispatch"
  BY <1>6, <1>9 DEF Reports
<1>10. \/ DoneDispatch(p) \/ WriteMessage(p)
       \/ DonePersist(p) /\ m.why = None
       \/ inbox' = inbox /\ pc[p] # "dn_dispatch"
  BY DEF ProcNext, DoneNext, MessageNext, StartNext, CancelNext, TaskNext, CleanupNext, WaitNext,
         Begins, DoneVerdict, DonePersist, DoneTask, SelfDispatch,
         Start, StartGuards, StartSupersede, StartBadKind, StartCreate, StartWithdrawn,
         StartTrustFails, StartPlacement, StartPaneFails, StartPane, StartPaneReady,
         StartAgentFails, StartUndelivered, StartUndeliveredSave, StartDelivered, StartCommit,
         StartTask, DispatchCancel, DispatchCancelSave, DispatchCancelTask,
         TaskCancel, TaskCancelDispatch, TaskCancelTask, TaskUpdate, TaskUpdateSave,
         Readiness, ReadinessSave, Release, ReleaseSave, DoctorOrphan, DoctorAbandon,
         DoctorTask, DoctorZombie, DoctorClose, DoctorSkip, PaneClosedHook, PaneClosedSave,
         Wait, WaitFound, WaitTimeout, WaitPaneEvent, WaitSpurious, WaitConfirmed,
         WaitAbandon, Nudge, NudgeSave, Crash
<1> QED BY <1>5, <1>7, <1>8, <1>9, <1>10

\* A worker reports exactly once, however its dispatch is retried, cancelled, nudged or cleaned
\* up in between: no dispatch has two accepted reports, while commands run one after another
\* and none of them crashes.
THEOREM OneReport ==
    ASSUME Grain = "command", "crash" \notin Faults
    PROVE  Spec => []OneReportPerDispatch
<1> DEFINE Once == Heard /\ OneReportPerDispatch
<1>1. Init => Once
  BY DEF Init, Heard, OneReportPerDispatch, Reports
<1>2. SerialInv /\ Once /\ [Next]_vars => Once'
  <2> SUFFICES ASSUME SerialInv, Once, [Next]_vars PROVE Once'
    OBVIOUS
  <2>1. ASSUME UNCHANGED <<disp, inbox, pc, mem>> PROVE Once'
    BY <2>1 DEF Heard, OneReportPerDispatch, Reports
  <2> QED BY <2>1, ProcHears DEF Next, PaneDies, vars, store
<1>3. Once => OneReportPerDispatch
  OBVIOUS
<1> QED BY <1>1, <1>2, <1>3, SerialCommands, PTL DEF Spec

-----------------------------------------------------------------------------
(* The promise                                                             *)

LEMMA PromiseInit == Init => Promise!Init
<1> SUFFICES ASSUME Init PROVE Promise!Init
  OBVIOUS
<1>1. \A t \in Tasks : Holder(t) = {}
  BY DEF Init, Holder, NoDispatch
<1>2. \A d \in Dispatches : Fate(d) = "unborn"
  BY DEF Init, Fate, NoDispatch
<1> QED BY <1>1, <1>2 DEF Promise!Init

LEMMA PromiseStep ==
    ASSUME SerialInv, SerialInv', NEW p \in Procs, DispatchStep(p)
    PROVE  Promise!Next \/ UNCHANGED Promise!avars
<1> DEFINE H == [t \in Tasks |-> Holder(t)]
           F == [d \in Dispatches |-> Fate(d)]
<1>1. /\ \A d \in Dispatches : disp[d] \in DispatchRecord /\ RecordOK(d)
      /\ \A d \in Dispatches : disp'[d] \in DispatchRecord /\ RecordOK(d)'
      /\ OneAuthorityPerTask /\ OneAuthorityPerTask'
  BY DEF SerialInv, Typed, StoreOK
<1>2. \A d \in Dispatches : disp[d].auth => disp[d].task \in Tasks /\ Fate(d) = "live"
  BY <1>1 DEF RecordOK, Created, DispatchRecord, Fate
<1>3. ASSUME NEW d \in Dispatches, Stays(disp[d], disp'[d])
      PROVE  Fate(d)' = Fate(d)
  BY <1>1, <1>3 DEF Stays, Fate
<1>4. ASSUME NEW d \in Dispatches, Ends(disp[d], disp'[d])
      PROVE  Fate(d)' = "ended" /\ (~disp[d].auth => Fate(d) = "ended")
  BY <1>1, <1>4 DEF Ends, Fate
<1>5. ASSUME NEW d \in Dispatches, NEW t \in Tasks, disp[d].auth, disp[d].task = t,
             ~disp'[d].auth, NEW f, Fate(d)' = f,
             \A e \in Dispatches \ {d} : /\ Fate(e)' = Fate(e) /\ disp'[e].auth = disp[e].auth
                                         /\ disp'[e].task = disp[e].task
      PROVE  /\ d \in H[t] /\ H' = [H EXCEPT ![t] = {}] /\ F' = [F EXCEPT ![d] = f]
  <2>1. Holder(t) = {d} /\ Holder(t)' = {}
    BY <1>1, <1>5 DEF Holder, OneAuthorityPerTask
  <2>2. \A u \in Tasks \ {t} : Holder(u)' = Holder(u)
    BY <1>5 DEF Holder
  <2>3. H' = [H EXCEPT ![t] = {}] /\ d \in H[t]
    BY <2>1, <2>2
  <2>4. F' = [F EXCEPT ![d] = f]
    BY <1>5
  <2> QED BY <2>3, <2>4
<1>6. CASE EndStep
  <2>1. PICK t \in Tasks \cup {None} : \A d \in Dispatches :
            \/ Stays(disp[d], disp'[d])
            \/ Ends(disp[d], disp'[d]) /\ (disp[d].auth => disp[d].task = t)
    BY <1>6 DEF EndStep
  <2>2. CASE \E d \in Dispatches : disp[d].auth /\ ~disp'[d].auth
    <3>1. PICK d \in Dispatches : disp[d].auth /\ ~disp'[d].auth
      BY <2>2
    <3>2. Ends(disp[d], disp'[d]) /\ disp[d].task = t /\ t \in Tasks
      BY <1>2, <2>1, <3>1 DEF Stays
    <3>3. \A e \in Dispatches \ {d} : /\ Fate(e)' = Fate(e) /\ disp'[e].auth = disp[e].auth
                                      /\ disp'[e].task = disp[e].task
      <4> SUFFICES ASSUME NEW e \in Dispatches \ {d}
                   PROVE  /\ Fate(e)' = Fate(e) /\ disp'[e].auth = disp[e].auth
                          /\ disp'[e].task = disp[e].task
        OBVIOUS
      <4>1. CASE Stays(disp[e], disp'[e])
        BY <1>3, <4>1 DEF Stays
      <4>2. CASE Ends(disp[e], disp'[e])
        <5>1. ~disp[e].auth
          BY <1>1, <2>1, <3>1, <3>2, <4>2 DEF OneAuthorityPerTask, Stays, Ends
        <5> QED BY <1>1, <1>4, <4>2, <5>1 DEF Ends, DispatchRecord
      <4> QED BY <2>1, <4>1, <4>2
    <3>4. d \in H[t] /\ H' = [H EXCEPT ![t] = {}] /\ F' = [F EXCEPT ![d] = "ended"]
      BY <1>4, <1>5, <3>1, <3>2, <3>3
    <3> QED BY <3>2, <3>4 DEF Promise!Next, Promise!Revoke
  <2>3. CASE \A d \in Dispatches : disp[d].auth => disp'[d].auth
    <3>1. \A d \in Dispatches : /\ Fate(d)' = Fate(d) /\ disp'[d].auth = disp[d].auth
                                /\ disp'[d].task = disp[d].task
      <4> SUFFICES ASSUME NEW d \in Dispatches
                   PROVE  /\ Fate(d)' = Fate(d) /\ disp'[d].auth = disp[d].auth
                          /\ disp'[d].task = disp[d].task
        OBVIOUS
      <4>1. CASE Stays(disp[d], disp'[d])
        BY <1>3, <4>1 DEF Stays
      <4>2. CASE Ends(disp[d], disp'[d])
        BY <1>1, <1>4, <2>3, <4>2 DEF Ends, DispatchRecord
      <4> QED BY <2>1, <4>1, <4>2
    <3>2. \A t1 \in Tasks : Holder(t1)' = Holder(t1)
      BY <3>1 DEF Holder
    <3> QED BY <3>1, <3>2 DEF Promise!avars
  <2> QED BY <2>2, <2>3
<1>7. CASE SettleStep(mem[p].d)
  <2>1. PICK d \in Dispatches : /\ Settles(disp[d], disp'[d])
                                /\ \A e \in Dispatches \ {d} : disp'[e] = disp[e]
    BY <1>7 DEF SettleStep
  <2>2. disp[d].auth /\ ~disp'[d].auth /\ disp[d].task \in Tasks
    BY <1>2, <2>1 DEF Settles
  <2>3. Fate(d)' = disp'[d].outcome /\ disp'[d].outcome \in Outcomes
    BY <2>1 DEF Fate, Settles
  <2>4. \A e \in Dispatches \ {d} : /\ Fate(e)' = Fate(e) /\ disp'[e].auth = disp[e].auth
                                    /\ disp'[e].task = disp[e].task
    BY <2>1 DEF Fate
  <2> DEFINE t == disp[d].task
             o == disp'[d].outcome
  <2>5. d \in H[t] /\ H' = [H EXCEPT ![t] = {}] /\ F' = [F EXCEPT ![d] = o]
    BY <1>5, <2>2, <2>3, <2>4
  <2> QED BY <2>2, <2>3, <2>5 DEF Promise!Next, Promise!Settle
<1>8. CASE BirthStep(mem[p].t)
  <2>1. PICK d \in Dispatches, t \in Tasks :
            /\ ~Created(d) /\ disp'[d] = NewDispatch(t)
            /\ \A e \in Dispatches : ~(disp[e].auth /\ disp[e].task = t)
            /\ \A e \in Dispatches \ {d} : disp'[e] = disp[e]
    BY <1>8 DEF BirthStep
  <2>2. /\ disp'[d].auth /\ disp'[d].task = t /\ disp'[d].state = "starting"
        /\ disp[d].state = "none" /\ ~disp[d].auth
    BY <1>1, <2>1 DEF NewDispatch, NoDispatch, RecordOK
  <2>3. Fate(d) = "unborn" /\ Fate(d)' = "live" /\ \A e \in Dispatches \ {d} : Fate(e)' = Fate(e)
    BY <2>1, <2>2 DEF Fate
  <2>4. Holder(t) = {} /\ Holder(t)' = {d} /\ \A u \in Tasks \ {t} : Holder(u)' = Holder(u)
    BY <2>1, <2>2 DEF Holder
  <2> QED BY <2>3, <2>4 DEF Promise!Next, Promise!Grant
<1>9. CASE CommitStep(mem[p].d)
  <2>1. \A d \in Dispatches : /\ disp'[d].auth = disp[d].auth /\ disp'[d].task = disp[d].task
                              /\ Fate(d)' = Fate(d)
    BY <1>9 DEF CommitStep, Commits, Fate
  <2>2. \A t \in Tasks : Holder(t)' = Holder(t)
    BY <2>1 DEF Holder
  <2> QED BY <2>1, <2>2 DEF Promise!avars
<1> QED BY <1>6, <1>7, <1>8, <1>9 DEF DispatchStep

\* cbds implements the promise of module Authority, for any retries, failed launches, dead panes
\* and crashes, while commands run one after another: every step of a command is a grant, a
\* revocation or a settlement of one task's authority, or leaves the promise alone.
THEOREM PromiseKept ==
    ASSUME Grain = "command"
    PROVE  Spec => KeepsPromise
<1>1. SerialInv /\ SerialInv' /\ [Next]_vars => [Promise!Next]_(Promise!avars)
  <2> SUFFICES ASSUME SerialInv, SerialInv', [Next]_vars
               PROVE  Promise!Next \/ UNCHANGED Promise!avars
    OBVIOUS
  <2>1. CASE disp' = disp
    BY <2>1 DEF Promise!avars, Holder, Fate
  <2> QED BY <2>1, NextMoves, PromiseStep
<1> QED BY <1>1, PromiseInit, SerialCommands, PTL DEF Spec, KeepsPromise, Promise!Spec

-----------------------------------------------------------------------------
(* What happens to a task                                                  *)

NoAuthority(t) == \A d \in Dispatches : ~(disp[d].auth /\ disp[d].task = t)

\* The labels of a command that holds a copy of its task and will decide by it.
TaskPCs == StartPCs \cup {"st_guards", "dn_persist", "dn_dispatch", "dn_task",
                          "tc_dispatch", "tc_task", "dc_task", "dr_task"}
\* The command is a `done` whose report is accepted.
Reporting(l, m) == (l = "dn_persist" /\ m.why = None) \/ l \in {"dn_dispatch", "dn_task"}

\* What a process at label l knows of its task and may count on until it writes it.
Aware(l, m) ==
    /\ l \in TaskPCs => m.ts = task[m.t]
    /\ l \in {"up_save", "rc_save"} =>
          /\ m.ts.live = task[m.t].live /\ m.ts.attempts = task[m.t].attempts
          /\ m.ts.state = "completed" <=> task[m.t].state = "completed"
    /\ l = "up_save" => "task_update" \in Commands
    /\ l = "rc_save" => {m.ts.state, task[m.t].state} \subseteq {"pending", "ready"}
    /\ l \in StartPCs =>
          DepsSatisfied(m.t) /\ m.ts.state \in {"ready", "dispatched", "failed", "blocked"}
    /\ l \in LaunchPCs \cup {"st_task", "dc_save", "dr_scan"} => disp[m.d].task = m.t
    /\ Reporting(l, m) \/ l = "dr_task" => m.ts.state # "completed"
    /\ l = "dn_task" => NoAuthority(m.t)
    /\ l \in {"tc_dispatch", "tc_task"} =>
          CanTransitionTask(m.ts.state, "cancelled") /\ m.d = m.ts.live
    /\ l \in {"dc_task", "dr_task"} => m.d = m.ts.live
    /\ l \in {"dc_task", "dr_task", "tc_task"} => m.d = None \/ ~disp[m.d].auth

TaskInv ==
    /\ SerialInv
    /\ \A t \in Tasks : task[t].state = "completed" => NoAuthority(t)
    /\ DepsBeforeWork
    /\ \A p \in Procs : Aware(pc[p], mem[p])

\* A command at label l with memory m turns the record r of its task into x.
TaskMoves(l, m, r, x) ==
    \/ /\ l = "st_task"
       /\ x.attempts = r.attempts + 1 /\ x.state = "dispatched" /\ x.live = m.d
    \/ /\ x.attempts = r.attempts
       /\ \/ /\ l = "dn_task"
             /\ x.state = OutcomeToTaskState[m.arg] /\ x.live \in {None, r.live}
          \/ /\ l = "dc_task" /\ x.live = None
             /\ x.state = IF r.state = "dispatched" THEN "ready" ELSE r.state
          \/ l = "dr_task" /\ x.live = None /\ x.state \in {"failed", "ready"}
          \/ l = "tc_task" /\ x.live = None /\ x.state = "cancelled"
          \/ /\ l \in {"st_guards", "rc_save"} /\ x.live = r.live
             /\ x.state = r.state \/ {x.state, r.state} \subseteq {"pending", "ready"}
          \/ /\ l = "up_save" /\ x.live = r.live
             /\ x.state = "completed" <=> r.state = "completed"

TaskStep(p) ==
    LET t == mem[p].t IN
    /\ t \in Tasks
    /\ \E x \in TaskRecord : /\ task' = [task EXCEPT ![t] = x]
                             /\ TaskMoves(pc[p], mem[p], task[t], x)

LEMMA ReconciledMoves ==
    ASSUME NEW r \in TaskRecord, NEW t
    PROVE  LET x == Reconciled(t, r) IN
           /\ x \in TaskRecord /\ x.live = r.live /\ x.attempts = r.attempts
           /\ x.state = r.state \/ {x.state, r.state} \subseteq {"pending", "ready"}
           /\ x # r => {x.state, r.state} \subseteq {"pending", "ready"}
           /\ DepsSatisfied(t) => x.state # "pending"
BY DEF TaskRecord, TaskStates, Reconciled

\* Every step of a command leaves the tasks alone or is one of these.
LEMMA TaskSteps ==
    ASSUME TaskInv, NEW p \in Procs, ProcNext(p)
    PROVE  UNCHANGED task \/ TaskStep(p)
<1> DEFINE m == mem[p]
           r == task[m.t]
<1> USE DEF At
<1>1. /\ task \in [Tasks -> TaskRecord] /\ m \in Memory /\ m.ts \in TaskRecord
      /\ Local(pc[p], m) /\ Aware(pc[p], m)
  BY DEF TaskInv, SerialInv, Typed, StoreOK, ProcsOK, LocalOK, Memory
<1>2. pc[p] \notin NoTaskPCs => m.t \in Tasks /\ r \in TaskRecord
  BY <1>1 DEF Local
<1>3. pc[p] \in TaskPCs => m.ts = r
  BY <1>1 DEF Aware
<1>4. ASSUME NEW x \in TaskRecord, SaveTask(m.t, x), pc[p] \notin NoTaskPCs,
             TaskMoves(pc[p], m, r, x)
      PROVE  TaskStep(p)
  BY <1>2, <1>4 DEF SaveTask, TaskStep
<1>5. CASE DoneTask(p)
  <2>1. PICK l \in {None, m.ts.live} :
            SaveTask(m.t, [m.ts EXCEPT !.state = OutcomeToTaskState[m.arg], !.live = l])
    BY <1>1, <1>5 DEF DoneTask, TaskRecord
  <2>2. OutcomeToTaskState[m.arg] \in TaskStates /\ pc[p] = "dn_task" /\ m.ts = r
    BY <1>1, <1>3, <1>5 DEF DoneTask, Local, OutcomeToTaskState, TaskStates, Outcomes, TaskPCs
  <2> DEFINE x == [m.ts EXCEPT !.state = OutcomeToTaskState[m.arg], !.live = l]
  <2>3. /\ x \in TaskRecord /\ x.live = l /\ x.state = OutcomeToTaskState[m.arg]
        /\ x.attempts = m.ts.attempts
    BY <1>1, <2>2 DEF TaskRecord
  <2>4. SaveTask(m.t, x)
    BY <2>1
  <2> HIDE DEF x
  <2>5. TaskMoves(pc[p], m, r, x)
    BY <2>2, <2>3 DEF TaskMoves
  <2> QED BY <1>4, <2>2, <2>3, <2>4, <2>5 DEF NoTaskPCs
<1>6. CASE StartTask(p)
  <2> DEFINE x == [m.ts EXCEPT !.attempts = m.ts.attempts + 1, !.state = "dispatched", !.live = m.d]
  <2>1. m.ts = r /\ m.d \in Dispatches /\ m.ts.attempts < MaxAttempts /\ pc[p] = "st_task"
    BY <1>1, <1>3, <1>6 DEF StartTask, Local, NoDispatchPCs, StartPCs, TaskPCs
  <2>2. x \in TaskRecord
    BY <1>1, <2>1, CountedAttempt
  <2>3. SaveTask(m.t, x)
    BY <1>1, <1>6 DEF StartTask, TaskRecord
  <2>4. x.live = m.d /\ x.state = "dispatched" /\ x.attempts = m.ts.attempts + 1
    BY <1>1 DEF TaskRecord
  <2> HIDE DEF x
  <2>5. TaskMoves(pc[p], m, r, x)
    BY <2>1, <2>4 DEF TaskMoves
  <2> QED BY <1>4, <2>1, <2>2, <2>3, <2>5 DEF NoTaskPCs
<1>7. CASE StartGuards(p)
  <2> DEFINE x == Reconciled(m.t, m.ts)
  <2>1. (SaveTask(m.t, x) \/ UNCHANGED task) /\ pc[p] = "st_guards" /\ m.ts = r
    BY <1>3, <1>7 DEF StartGuards, TaskPCs
  <2>2. x \in TaskRecord /\ TaskMoves(pc[p], m, r, x)
    BY <1>1, <2>1, ReconciledMoves DEF TaskMoves
  <2> HIDE DEF x
  <2> QED BY <1>4, <2>1, <2>2 DEF NoTaskPCs
<1>8. CASE TaskUpdateSave(p)
  <2> DEFINE x == Reconciled(m.t, m.ts)
  <2>1. SaveTask(m.t, x) /\ pc[p] = "up_save"
    BY <1>8 DEF TaskUpdateSave
  <2>2. x \in TaskRecord /\ TaskMoves(pc[p], m, r, x)
    BY <1>1, <2>1, ReconciledMoves DEF TaskMoves, Aware
  <2> HIDE DEF x
  <2> QED BY <1>4, <2>1, <2>2 DEF NoTaskPCs
<1>9. CASE ReadinessSave(p)
  BY <1>1, <1>4, <1>9 DEF ReadinessSave, TaskMoves, Aware, NoTaskPCs
<1>10. CASE DispatchCancelTask(p)
  <2> DEFINE x == [m.ts EXCEPT !.live = None,
                               !.state = IF @ = "dispatched" THEN "ready" ELSE @]
  <2>1. SaveTask(m.t, x) /\ pc[p] = "dc_task" /\ m.ts = r
    BY <1>3, <1>10 DEF DispatchCancelTask, TaskPCs
  <2>2. x \in TaskRecord /\ TaskMoves(pc[p], m, r, x)
    BY <1>1, <2>1 DEF TaskMoves, TaskRecord, TaskStates
  <2> HIDE DEF x
  <2> QED BY <1>4, <2>1, <2>2 DEF NoTaskPCs
<1>11. CASE DoctorTask(p)
  <2> DEFINE x == [m.ts EXCEPT !.live = None,
                         !.state = IF m.ts.attempts >= MaxAttempts THEN "failed" ELSE "ready"]
  <2>1. SaveTask(m.t, x) /\ pc[p] = "dr_task" /\ m.ts = r
    BY <1>3, <1>11 DEF DoctorTask, TaskPCs
  <2>2. x \in TaskRecord /\ TaskMoves(pc[p], m, r, x)
    BY <1>1, <2>1 DEF TaskMoves, TaskRecord, TaskStates
  <2> HIDE DEF x
  <2> QED BY <1>4, <2>1, <2>2 DEF NoTaskPCs
<1>12. CASE TaskCancelTask(p)
  <2> DEFINE x == [m.ts EXCEPT !.state = "cancelled", !.live = None]
  <2>1. SaveTask(m.t, x) /\ pc[p] = "tc_task" /\ m.ts = r
    BY <1>3, <1>12 DEF TaskCancelTask, TaskPCs
  <2>2. x \in TaskRecord /\ TaskMoves(pc[p], m, r, x)
    BY <1>1, <2>1 DEF TaskMoves, TaskRecord, TaskStates
  <2> HIDE DEF x
  <2> QED BY <1>4, <2>1, <2>2 DEF NoTaskPCs
<1> USE DEF store
<1>13. DoneNext(p) \/ MessageNext(p) => DoneTask(p) \/ UNCHANGED task
  BY DEF DoneNext, DoneVerdict, DonePersist, DoneDispatch, MessageNext, SelfDispatch, WriteMessage
<1>14. StartNext(p) => StartGuards(p) \/ StartTask(p) \/ UNCHANGED task
  BY DEF StartNext, Start, StartSupersede, StartBadKind, StartCreate, StartWithdrawn,
         StartTrustFails, StartPlacement, StartPaneFails, StartPane, StartPaneReady,
         StartAgentFails, StartUndelivered, StartUndeliveredSave, StartDelivered, StartCommit
<1>15. CancelNext(p) => DispatchCancelTask(p) \/ TaskCancelTask(p) \/ UNCHANGED task
  BY DEF CancelNext, DispatchCancel, DispatchCancelSave, TaskCancel, TaskCancelDispatch
<1>16. TaskNext(p) \/ Crash(p) => TaskUpdateSave(p) \/ ReadinessSave(p) \/ UNCHANGED task
  BY DEF TaskNext, TaskUpdate, Readiness, Crash
<1>17. CleanupNext(p) \/ WaitNext(p) => DoctorTask(p) \/ UNCHANGED task
  BY DEF CleanupNext, Release, ReleaseSave, DoctorOrphan, DoctorAbandon, DoctorZombie, DoctorClose,
         DoctorSkip, PaneClosedHook, PaneClosedSave, WaitNext, Wait, WaitFound, WaitTimeout,
         WaitPaneEvent, WaitSpurious, WaitConfirmed, WaitAbandon, Nudge, NudgeSave
<1> QED BY <1>5, <1>6, <1>7, <1>8, <1>9, <1>10, <1>11, <1>12, <1>13, <1>14, <1>15, <1>16, <1>17
        DEF ProcNext

\* Only a launch gives authority, to an attempt of its own task; no attempt changes its task.
LEMMA AuthorityMoves ==
    ASSUME SerialInv, NEW p \in Procs, DispatchStep(p)
    PROVE  /\ \A d \in Dispatches : Created(d) => disp'[d].task = disp[d].task
           /\ \A t \in Tasks : NoAuthority(t) /\ (pc[p] = "st_create" => t # mem[p].t) =>
                  NoAuthority(t)'
<1>1. \A d \in Dispatches : RecordOK(d)
  BY DEF SerialInv
<1>2. CASE EndStep
  <2>1. \A d \in Dispatches : Stays(disp[d], disp'[d]) \/ Ends(disp[d], disp'[d])
    BY <1>2 DEF EndStep
  <2> QED BY <2>1 DEF Stays, Ends, NoAuthority
<1>3. CASE SettleStep(mem[p].d)
  BY <1>3 DEF SettleStep, Settles, NoAuthority
<1>4. CASE CommitStep(mem[p].d)
  BY <1>4 DEF CommitStep, Commits, NoAuthority
<1>5. CASE pc[p] = "st_create" /\ BirthStep(mem[p].t)
  <2>1. PICK d \in Dispatches : /\ ~Created(d) /\ disp'[d] = NewDispatch(mem[p].t)
                                /\ \A e \in Dispatches \ {d} : disp'[e] = disp[e]
    BY <1>5 DEF BirthStep
  <2>2. disp'[d].task = mem[p].t
    BY <2>1 DEF NewDispatch, NoDispatch
  <2> QED BY <1>5, <2>1, <2>2 DEF NoAuthority
<1> QED BY <1>2, <1>3, <1>4, <1>5 DEF DispatchStep

\* Completed is for good: no command that writes a completed task had it before.
LEMMA CompletedStays ==
    ASSUME TaskInv, NEW p \in Procs, UNCHANGED task \/ TaskStep(p)
    PROVE  /\ \A t \in Tasks : task[t].state = "completed" => task'[t].state = "completed"
           /\ \A t \in Tasks : DepsSatisfied(t) => DepsSatisfied(t)'
<1> DEFINE m == mem[p]
<1>1. task \in [Tasks -> TaskRecord] /\ Aware(pc[p], m)
  BY DEF TaskInv, SerialInv, Typed, StoreOK
<1>2. ASSUME NEW t \in Tasks, task[t].state = "completed"
      PROVE  task'[t].state = "completed"
  <2>1. CASE TaskStep(p) /\ t = m.t
    <3>1. PICK x \in TaskRecord : task'[t] = x /\ TaskMoves(pc[p], m, task[t], x)
      BY <1>1, <2>1 DEF TaskStep
    <3>2. pc[p] \in TaskPCs => m.ts.state = "completed"
      BY <1>1, <1>2, <2>1 DEF Aware
    <3> QED BY <1>1, <1>2, <3>1, <3>2
            DEF TaskMoves, Aware, TaskPCs, StartPCs, Reporting, CanTransitionTask, TaskTransitions
  <2> QED BY <1>1, <1>2, <2>1 DEF TaskStep
<1>3. \A t \in Tasks : Deps[t] \subseteq Tasks
  BY DepsAreTasks
<1> QED BY <1>2, <1>3 DEF DepsSatisfied

LEMMA InitTask == Init => TaskInv
<1> SUFFICES ASSUME Init PROVE TaskInv
  OBVIOUS
<1>1. \A t \in Tasks : task[t].attempts = 0 /\ task[t].state # "completed"
  BY DEF Init, NewTask
<1>2. \A p \in Procs : Aware(pc[p], mem[p])
  BY DEF Init, Aware, TaskPCs, StartPCs, LaunchPCs, Reporting
<1> QED BY <1>1, <1>2, InitSerial DEF TaskInv, DepsBeforeWork

LEMMA AwareKeeps ==
    ASSUME Grain = "command", TaskInv, NEW p \in Procs, ProcNext(p)
    PROVE  Aware(pc[p], mem[p])'
<1> DEFINE m == mem[p]
<1> USE DEF At, Begins
<1>1. /\ m \in Memory /\ m.ts \in TaskRecord /\ Local(pc[p], m) /\ Fresh(pc[p], m)
      /\ Aware(pc[p], m)
      /\ task \in [Tasks -> TaskRecord] /\ disp \in [Dispatches -> DispatchRecord]
      /\ \A d \in Dispatches : RecordOK(d)
      /\ \A t \in Tasks : task[t].state = "completed" => NoAuthority(t)
  BY DEF TaskInv, SerialInv, Typed, StoreOK, ProcsOK, LocalOK, Memory
<1>2. \A l, n : Goto(p, l, n) => pc'[p] = l /\ mem'[p] = n
  BY OthersWait DEF TaskInv
<1>3. \A t \in Tasks : DepsSatisfied(t) => DepsSatisfied(t)'
  BY TaskSteps, CompletedStays
<1>4. /\ \A d \in Dispatches : Created(d) => disp'[d].task = disp[d].task
      /\ \A t \in Tasks : NoAuthority(t) /\ pc[p] # "st_create" => NoAuthority(t)'
  BY DispatchMoves, AuthorityMoves DEF TaskInv
<1>5. pc[p] \notin NoDispatchPCs => m.d \in Dispatches
  BY <1>1 DEF Local
<1>6. pc[p] \notin NoTaskPCs => m.t \in Tasks
  BY <1>1 DEF Local
<1> USE DEF TaskPCs, StartPCs, LaunchPCs, Reporting
\* A command that ends, or is not about a task.
<1>7. CASE Finish(p)
  BY <1>2, <1>7 DEF Finish, Aware
<1>8. ASSUME NEW l \in {"ms_write", "rl_save", "zb_close", "hk_save", "wt_block", "wt_confirm",
                       "wt_abandon", "nd_save"}, NEW n, Goto(p, l, n)
      PROVE  Aware(pc[p], mem[p])'
  <2>1. pc'[p] = l /\ mem'[p] = n
    BY <1>2, <1>8
  <2> QED BY <1>8, <2>1 DEF Aware
\* A launch that goes on.
<1>9. ASSUME NEW l \in StartPCs \ {"st_supersede"}, NEW n, Goto(p, l, n), UNCHANGED task,
             pc[p] \in StartPCs, n.ts = m.ts, n.t = m.t,
             l \in LaunchPCs \cup {"st_task"} =>
                \/ pc[p] \in LaunchPCs /\ n.d = m.d
                \/ n.d \in Dispatches /\ disp'[n.d].task = m.t
      PROVE  Aware(pc[p], mem[p])'
  <2>1. pc'[p] = l /\ mem'[p] = n
    BY <1>2, <1>9
  <2>2. m.ts = task[m.t] /\ m.t \in Tasks /\ DepsSatisfied(m.t)
        /\ m.ts.state \in {"ready", "dispatched", "failed", "blocked"}
    BY <1>1, <1>6, <1>9 DEF Aware, NoTaskPCs
  <2>3. DepsSatisfied(n.t)'
    BY <1>3, <1>9, <2>2
  <2>4. pc[p] \in LaunchPCs => disp[m.d].task = m.t /\ m.d \in Dispatches /\ Created(m.d)
    BY <1>1, <1>5 DEF Aware, Fresh, HoldPCs, NoDispatchPCs
  <2>5. l \in LaunchPCs \cup {"st_task"} => disp'[n.d].task = n.t
    BY <1>4, <1>9, <2>4
  <2> QED BY <1>9, <2>1, <2>2, <2>3, <2>5 DEF Aware
<1>10. CASE DoneVerdict(p)
  <2>1. PICK t \in Tasks, d \in Dispatches, o \in Outcomes :
            Goto(p, "dn_persist", [Blank EXCEPT !.t = t, !.d = d, !.arg = o, !.why = Verdict(t, d),
                                                !.ts = task[t], !.ds[d] = disp[d]])
    BY <1>10 DEF DoneVerdict
  <2> DEFINE n == [Blank EXCEPT !.t = t, !.d = d, !.arg = o, !.why = Verdict(t, d),
                                !.ts = task[t], !.ds[d] = disp[d]]
  <2>2. n.t = t /\ n.d = d /\ n.why = Verdict(t, d) /\ n.ts = task[t]
    BY DEF Blank
  <2>3. task' = task
    BY <1>10 DEF DoneVerdict, store
  <2>4. Verdict(t, d) = None => disp[d].task = t /\ disp[d].auth
    BY NoneIsNoReason DEF Verdict, Reasons
  <2>5. Verdict(t, d) = None => task[t].state # "completed"
    BY <1>1, <2>4 DEF NoAuthority
  <2>6. Goto(p, "dn_persist", n)
    BY <2>1
  <2> HIDE DEF n
  <2>7. pc'[p] = "dn_persist" /\ mem'[p] = n
    BY <1>2, <2>6
  <2> QED BY <2>2, <2>3, <2>5, <2>7 DEF Aware
<1>11. CASE DonePersist(p)
  <2> DEFINE n == [m EXCEPT !.n = seq + 1]
  <2>1. Finish(p) \/ (m.why = None /\ Goto(p, "dn_dispatch", n))
    BY <1>11 DEF DonePersist
  <2>2. n.t = m.t /\ n.d = m.d /\ n.ts = m.ts
    BY <1>1 DEF Memory
  <2>3. task' = task /\ pc[p] = "dn_persist"
    BY <1>11 DEF DonePersist
  <2> HIDE DEF n
  <2>4. ASSUME m.why = None, pc'[p] = "dn_dispatch", mem'[p] = n
        PROVE  Aware(pc[p], mem[p])'
    BY <1>1, <2>2, <2>3, <2>4 DEF Aware
  <2> QED BY <1>2, <1>7, <2>1, <2>4
<1>12. CASE DoneDispatch(p)
  <2>1. /\ pc[p] = "dn_dispatch" /\ pc'[p] = "dn_task" /\ mem'[p] = m /\ task' = task
        /\ m.d \in Dispatches /\ m.t \in Tasks /\ m.ds[m.d] = disp[m.d]
        /\ disp[m.d].auth /\ disp[m.d].task = m.t
    BY <1>1, <1>2, <1>5, <1>6, <1>12 DEF DoneDispatch, Fresh, NoDispatchPCs, NoTaskPCs
  <2>2. ~disp'[m.d].auth /\ \A e \in Dispatches \ {m.d} : disp'[e] = disp[e]
    BY <1>1, <1>12, <2>1 DEF DoneDispatch, SaveDispatch, DispatchRecord
  <2>3. OneAuthorityPerTask
    BY DEF TaskInv, SerialInv
  <2>4. NoAuthority(m.t)'
    BY <2>1, <2>2, <2>3 DEF NoAuthority, OneAuthorityPerTask
  <2> QED BY <1>1, <2>1, <2>4 DEF Aware
<1>13. CASE Start(p)
  <2>1. PICK t \in Tasks, mode \in StartModes, retry \in Dispatches \cup {None} :
            Goto(p, "st_guards",
                 [Blank EXCEPT !.t = t, !.mode = mode, !.retry = retry, !.ts = task[t]])
    BY <1>13 DEF Start
  <2> DEFINE n == [Blank EXCEPT !.t = t, !.mode = mode, !.retry = retry, !.ts = task[t]]
  <2>2. n.t = t /\ n.ts = task[t]
    BY DEF Blank
  <2>3. task' = task
    BY <1>13 DEF Start, store
  <2>4. Goto(p, "st_guards", n)
    BY <2>1
  <2> HIDE DEF n
  <2>5. pc'[p] = "st_guards" /\ mem'[p] = n
    BY <1>2, <2>4
  <2> QED BY <2>2, <2>3, <2>5 DEF Aware
<1>14. CASE StartGuards(p)
  <2> DEFINE r == Reconciled(m.t, m.ts)
             n == [m EXCEPT !.ts = r, !.ds = disp]
  <2>1. Finish(p) \/ (Goto(p, "st_supersede", n) /\ MayStart(m.t, r, m.retry))
    BY <1>14 DEF StartGuards
  <2>2. /\ pc[p] = "st_guards" /\ m.t \in Tasks /\ m.ts = task[m.t]
        /\ IF r # m.ts THEN SaveTask(m.t, r) ELSE UNCHANGED task
    BY <1>1, <1>6, <1>14 DEF StartGuards, NoTaskPCs, Aware
  <2>3. r \in TaskRecord /\ (DepsSatisfied(m.t) => r.state # "pending")
    BY <1>1, ReconciledMoves
  <2>4. n.t = m.t /\ n.ts = r
    BY <1>1 DEF Memory
  <2> HIDE DEF r, n
  <2>5. task'[m.t] = r
    BY <1>1, <2>2 DEF SaveTask
  <2>6. ASSUME MayStart(m.t, r, m.retry), pc'[p] = "st_supersede", mem'[p] = n
        PROVE  Aware(pc[p], mem[p])'
    <3>1. DepsSatisfied(m.t) /\ r.state \in {"ready", "dispatched", "failed", "blocked"}
      BY <2>3, <2>6 DEF MayStart, TerminalTaskStates, TaskRecord, TaskStates
    <3>2. \A t \in Tasks : t = m.t => DepsSatisfied(t)'
      BY <1>3, <3>1
    <3>3. mem'[p].t = m.t /\ mem'[p].ts = r
      BY <2>4, <2>6
    <3>4. DepsSatisfied(mem[p].t)'
      BY <2>2, <3>2, <3>3
    <3> QED BY <2>2, <2>5, <2>6, <3>1, <3>3, <3>4 DEF Aware
  <2> QED BY <1>2, <1>7, <2>1, <2>6
<1>15. CASE StartSupersede(p)
  <2> DEFINE n == [m EXCEPT !.ds = Blank.ds, !.retry = None]
  <2>1. Goto(p, "st_create", n) /\ pc[p] = "st_supersede" /\ UNCHANGED task
    BY <1>15 DEF StartSupersede
  <2>2. n.t = m.t /\ n.ts = m.ts
    BY <1>1 DEF Memory
  <2> HIDE DEF n
  <2> QED BY <1>9, <2>1, <2>2
<1>16. CASE StartCreate(p)
  <2>1. PICK d \in Dispatches : /\ SaveDispatch(d, NewDispatch(m.t))
                                /\ Goto(p, "st_new", [m EXCEPT !.d = d, !.ds[d] = NewDispatch(m.t)])
    BY <1>16 DEF StartCreate
  <2> DEFINE n == [m EXCEPT !.d = d, !.ds[d] = NewDispatch(m.t)]
  <2>2. n.d = d /\ n.ts = m.ts /\ n.t = m.t
    BY <1>1 DEF Memory
  <2>3. disp'[d].task = m.t
    BY <1>1, <2>1 DEF SaveDispatch, NewDispatch, NoDispatch
  <2>4. pc[p] = "st_create" /\ UNCHANGED task /\ Goto(p, "st_new", n)
    BY <1>16, <2>1 DEF StartCreate
  <2> HIDE DEF n
  <2> QED BY <1>9, <2>2, <2>3, <2>4
<1>17. CASE StartPlacement(p) \/ StartPane(p) \/ StartUndelivered(p) \/ StartDelivered(p)
            \/ StartCommit(p)
  BY <1>9, <1>17 DEF StartPlacement, StartPane, StartUndelivered, StartDelivered, StartCommit, store
<1>18. CASE StartPaneReady(p)
  <2> DEFINE n == [m EXCEPT !.ds[m.d].pane = TRUE]
  <2>1. /\ pc[p] = "st_pane_ready" /\ UNCHANGED task
        /\ Goto(p, "st_commit_now", n) \/ Goto(p, "st_launch", n)
    BY <1>1, <1>18 DEF StartPaneReady, Memory
  <2>2. n.d = m.d /\ n.ts = m.ts /\ n.t = m.t
    BY <1>1 DEF Memory
  <2> HIDE DEF n
  <2> QED BY <1>9, <2>1, <2>2
<1>19. CASE DispatchCancel(p) \/ DoctorOrphan(p)
  <2>1. PICK d \in Dispatches, l \in {"dc_save", "dr_scan"} :
            Goto(p, l, [Blank EXCEPT !.d = d, !.t = disp[d].task, !.ds[d] = disp[d]])
    BY <1>19 DEF DispatchCancel, DoctorOrphan
  <2> DEFINE n == [Blank EXCEPT !.d = d, !.t = disp[d].task, !.ds[d] = disp[d]]
  <2>2. n.d = d /\ n.t = disp[d].task
    BY DEF Blank
  <2>3. disp' = disp /\ Goto(p, l, n)
    BY <1>19, <2>1 DEF DispatchCancel, DoctorOrphan, store
  <2> HIDE DEF n
  <2>4. pc'[p] = l /\ mem'[p] = n
    BY <1>2, <2>3
  <2> QED BY <2>2, <2>3, <2>4 DEF Aware
<1>20. CASE DispatchCancelSave(p) \/ DoctorAbandon(p)
  <2> DEFINE n == [m EXCEPT !.ts = task[m.t]]
             s == IF pc[p] = "dc_save" THEN Superseded(m.ds[m.d]) ELSE Abandoned(m.ds[m.d])
  <2>1. /\ pc[p] \in {"dc_save", "dr_scan"} /\ UNCHANGED task /\ SaveDispatch(m.d, s)
        /\ \/ Finish(p)
           \/ /\ task[m.t].live = m.d
              /\ Goto(p, IF pc[p] = "dc_save" THEN "dc_task" ELSE "dr_task", n)
    BY <1>20 DEF DispatchCancelSave, DoctorAbandon
  <2>2. m.t \in Tasks /\ m.d \in Dispatches /\ m.ds[m.d] = disp[m.d] /\ disp[m.d].task = m.t
    BY <1>1, <1>5, <1>6, <2>1 DEF NoTaskPCs, NoDispatchPCs, Fresh, HoldPCs, WatchPCs, Aware
  <2>3. n.ts = task[m.t] /\ n.d = m.d /\ n.t = m.t
    BY <1>1 DEF Memory
  <2>4. ~disp'[m.d].auth
    BY <1>1, <2>1, <2>2 DEF SaveDispatch, Superseded, Abandoned, DispatchRecord
  <2>5. pc[p] = "dr_scan" => task[m.t].state # "completed"
    BY <1>1, <2>2 DEF Fresh, WatchPCs, RecordOK, NoAuthority
  <2> HIDE DEF n
  <2>6. ASSUME task[m.t].live = m.d, mem'[p] = n,
               pc'[p] = IF pc[p] = "dc_save" THEN "dc_task" ELSE "dr_task"
        PROVE  Aware(pc[p], mem[p])'
    BY <2>1, <2>2, <2>3, <2>4, <2>5, <2>6 DEF Aware
  <2> QED BY <1>2, <1>7, <2>1, <2>6
<1>21. CASE TaskCancel(p)
  <2>1. PICK t \in Tasks : /\ CanTransitionTask(task[t].state, "cancelled")
                           /\ LET n == [Blank EXCEPT !.t = t, !.ts = task[t], !.d = task[t].live] IN
                              IF n.d = None THEN Goto(p, "tc_task", n)
                              ELSE Goto(p, "tc_dispatch", [n EXCEPT !.ds[n.d] = disp[n.d]])
    BY <1>21 DEF TaskCancel
  <2> DEFINE n == [Blank EXCEPT !.t = t, !.ts = task[t], !.d = task[t].live]
             o == [n EXCEPT !.ds[n.d] = disp[n.d]]
  <2>2. n.d = task[t].live /\ n.ts = task[t] /\ n.t = t
    BY DEF Blank
  <2>3. o.d = n.d /\ o.ts = n.ts /\ o.t = t
    BY DEF Blank
  <2>4. (n.d = None /\ Goto(p, "tc_task", n)) \/ (n.d # None /\ Goto(p, "tc_dispatch", o))
    BY <2>1
  <2>5. task' = task
    BY <1>21 DEF TaskCancel, store
  <2> HIDE DEF n, o
  <2>6. \/ n.d = None /\ pc'[p] = "tc_task" /\ mem'[p] = n
        \/ pc'[p] = "tc_dispatch" /\ mem'[p] = o
    BY <1>2, <2>4
  <2> QED BY <2>1, <2>2, <2>3, <2>5, <2>6 DEF Aware
<1>22. CASE TaskCancelDispatch(p)
  <2>1. /\ pc[p] = "tc_dispatch" /\ pc'[p] = "tc_task" /\ mem'[p] = m /\ task' = task
        /\ IF m.ds[m.d].state = "settled" THEN UNCHANGED disp
                                         ELSE SaveDispatch(m.d, Superseded(m.ds[m.d]))
    BY <1>2, <1>22 DEF TaskCancelDispatch
  <2>2. m.d \in Dispatches /\ m.ds[m.d] = disp[m.d]
    BY <1>1, <1>5, <2>1 DEF NoDispatchPCs, Fresh, HoldPCs
  <2>3. ~disp'[m.d].auth
    BY <1>1, <2>1, <2>2 DEF SaveDispatch, Superseded, DispatchRecord, RecordOK
  <2> QED BY <1>1, <2>1, <2>3 DEF Aware
<1>23. CASE TaskUpdate(p)
  <2>1. PICK t \in Tasks, to \in TaskStates :
            /\ to = task[t].state \/ (to # "completed" /\ CanTransitionTask(task[t].state, to))
            /\ Goto(p, "up_save", [Blank EXCEPT !.t = t, !.ts = [task[t] EXCEPT !.state = to]])
    BY <1>23 DEF TaskUpdate
  <2> DEFINE x == [task[t] EXCEPT !.state = to]
             n == [Blank EXCEPT !.t = t, !.ts = x]
  <2>2. x.live = task[t].live /\ x.attempts = task[t].attempts /\ x.state = to
    BY <1>1 DEF TaskRecord
  <2>3. x.state = "completed" <=> task[t].state = "completed"
    BY <2>1, <2>2 DEF CanTransitionTask, TaskTransitions
  <2>4. n.ts = x /\ n.t = t
    BY DEF Blank
  <2>5. Goto(p, "up_save", n) /\ task' = task /\ "task_update" \in Commands
    BY <1>23, <2>1 DEF TaskUpdate, store
  <2> HIDE DEF n, x
  <2>6. pc'[p] = "up_save" /\ mem'[p] = n
    BY <1>2, <2>5
  <2> QED BY <2>2, <2>3, <2>4, <2>5, <2>6 DEF Aware
<1>24. CASE Readiness(p)
  <2>1. PICK t \in Tasks :
            /\ Reconciled(t, task[t]) # task[t]
            /\ Goto(p, "rc_save", [Blank EXCEPT !.t = t, !.ts = Reconciled(t, task[t])])
    BY <1>24 DEF Readiness
  <2> DEFINE x == Reconciled(t, task[t])
             n == [Blank EXCEPT !.t = t, !.ts = x]
  <2>2. /\ x.live = task[t].live /\ x.attempts = task[t].attempts
        /\ {x.state, task[t].state} \subseteq {"pending", "ready"}
    BY <1>1, <2>1, ReconciledMoves
  <2>3. n.ts = x /\ n.t = t
    BY DEF Blank
  <2>4. Goto(p, "rc_save", n) /\ task' = task
    BY <1>24, <2>1 DEF Readiness, store
  <2> HIDE DEF n, x
  <2>5. pc'[p] = "rc_save" /\ mem'[p] = n
    BY <1>2, <2>4
  <2> QED BY <2>2, <2>3, <2>4, <2>5 DEF Aware
<1>25. CASE SelfDispatch(p) \/ Release(p) \/ DoctorZombie(p) \/ PaneClosedHook(p) \/ Wait(p)
            \/ WaitPaneEvent(p) \/ WaitSpurious(p) \/ WaitConfirmed(p) \/ Nudge(p)
  <2>1. \E l \in {"ms_write", "rl_save", "zb_close", "hk_save", "wt_block", "wt_confirm",
                  "wt_abandon", "nd_save"} : \E n : Goto(p, l, n)
    BY <1>25 DEF SelfDispatch, Release, DoctorZombie, PaneClosedHook, Wait, WaitPaneEvent,
                 WaitSpurious, WaitConfirmed, Nudge
  <2> QED BY <1>8, <2>1
<1>26. \/ Finish(p)
       \/ DoneVerdict(p) \/ DonePersist(p) \/ DoneDispatch(p) \/ SelfDispatch(p)
       \/ Start(p) \/ StartGuards(p) \/ StartSupersede(p) \/ StartCreate(p) \/ StartPlacement(p)
       \/ StartPane(p) \/ StartPaneReady(p) \/ StartUndelivered(p) \/ StartDelivered(p)
       \/ StartCommit(p) \/ DispatchCancel(p) \/ DispatchCancelSave(p)
       \/ TaskCancel(p) \/ TaskCancelDispatch(p) \/ TaskUpdate(p) \/ Readiness(p)
       \/ Release(p) \/ DoctorOrphan(p) \/ DoctorAbandon(p) \/ DoctorZombie(p)
       \/ PaneClosedHook(p) \/ Wait(p) \/ WaitPaneEvent(p) \/ WaitSpurious(p)
       \/ WaitConfirmed(p) \/ Nudge(p)
  BY GoesOn
<1> QED BY <1>7, <1>10, <1>11, <1>12, <1>13, <1>14, <1>15, <1>16, <1>17, <1>18, <1>19, <1>20,
           <1>21, <1>22, <1>23, <1>24, <1>25, <1>26

\* What a step of a command does to what is known of the tasks themselves.
LEMMA TasksKeep ==
    ASSUME TaskInv, NEW p \in Procs, UNCHANGED task \/ TaskStep(p), DispatchStep(p)
    PROVE  /\ (\A t \in Tasks : task[t].state = "completed" => NoAuthority(t))'
           /\ DepsBeforeWork'
<1> DEFINE m == mem[p]
<1>1. task \in [Tasks -> TaskRecord] /\ Aware(pc[p], m) /\ Fresh(pc[p], m)
  BY DEF TaskInv, SerialInv, Typed, StoreOK
<1>2. ASSUME NEW t \in Tasks, TaskStep(p), t = m.t
      PROVE  task'[t] \in TaskRecord /\ TaskMoves(pc[p], m, task[t], task'[t])
  BY <1>1, <1>2 DEF TaskStep
<1>3. ASSUME NEW t \in Tasks, ~(TaskStep(p) /\ t = m.t) PROVE task'[t] = task[t]
  BY <1>1, <1>3 DEF TaskStep
<1>4. ASSUME NEW t \in Tasks, task'[t].state = "completed" PROVE NoAuthority(t)'
  <2>1. task[t].state # "completed" => pc[p] = "dn_task" /\ t = m.t
    BY <1>1, <1>2, <1>3, <1>4 DEF TaskMoves, Aware
  <2>2. NoAuthority(t)
    BY <1>1, <2>1 DEF TaskInv, Aware
  <2>3. pc[p] = "st_create" => ~(t = m.t)
    BY <1>1, <2>1 DEF TaskInv, Aware, TaskPCs, StartPCs
  <2> QED BY <2>2, <2>3, AuthorityMoves DEF TaskInv
<1>5. ASSUME NEW t \in Tasks, task'[t].attempts > 0 PROVE DepsSatisfied(t)'
  <2>1. DepsSatisfied(t) => DepsSatisfied(t)'
    BY CompletedStays
  <2>2. task'[t].attempts # task[t].attempts => pc[p] = "st_task" /\ t = m.t
    BY <1>2, <1>3 DEF TaskMoves
  <2>3. task[t].attempts > 0 => DepsSatisfied(t)
    BY DEF TaskInv, DepsBeforeWork
  <2> QED BY <1>1, <1>5, <2>1, <2>2, <2>3 DEF Aware, StartPCs
<1> QED BY <1>4, <1>5 DEF DepsBeforeWork

LEMMA NextTask == Grain = "command" /\ TaskInv /\ [Next]_vars => TaskInv'
<1> SUFFICES ASSUME Grain = "command", TaskInv, [Next]_vars PROVE TaskInv'
  OBVIOUS
<1>1. SerialInv'
  BY NextSerial DEF TaskInv
<1>2. ASSUME NEW p \in Procs, ProcNext(p) PROVE TaskInv'
  <2>1. /\ (\A t \in Tasks : task[t].state = "completed" => NoAuthority(t))'
        /\ DepsBeforeWork'
    BY <1>2, TaskSteps, DispatchMoves, TasksKeep DEF TaskInv
  <2>2. \A q \in Procs \ {p} : pc'[q] = "idle"
    BY <1>2, OthersWait DEF TaskInv
  <2>3. \A q \in Procs \ {p} : Aware(pc[q], mem[q])'
    BY <2>2 DEF Aware, TaskPCs, StartPCs, LaunchPCs, Reporting
  <2>4. Aware(pc[p], mem[p])'
    BY <1>2, AwareKeeps
  <2> QED BY <1>1, <2>1, <2>3, <2>4 DEF TaskInv
<1>3. ASSUME UNCHANGED <<task, disp, pc, mem>> PROVE TaskInv'
  BY <1>1, <1>3 DEF TaskInv, NoAuthority, DepsBeforeWork, DepsSatisfied, Aware
<1> QED BY <1>2, <1>3 DEF Next, PaneDies, vars, store

\* While commands run one after another: what a command knows of its task is still so.
THEOREM TasksFollow ==
    ASSUME Grain = "command"
    PROVE  Spec => []TaskInv
<1>1. TaskInv /\ [Next]_vars => TaskInv'
  BY NextTask
<1> QED BY <1>1, InitTask, PTL DEF Spec

\* No attempt is ever counted for a task with a dependency that is not completed, whatever
\* commands run, edits by the operator and crashes between two writes included.
THEOREM DepsFirst ==
    ASSUME Grain = "command"
    PROVE  Spec => []DepsBeforeWork
<1>1. TaskInv => DepsBeforeWork
  BY DEF TaskInv
<1> QED BY <1>1, TasksFollow, PTL

\* What is completed is over: no retry, cancellation, edit, repair or crash reopens the task,
\* and nobody is left with the authority to report on it.
THEOREM CompletedIsFinal ==
    ASSUME Grain = "command"
    PROVE  Spec => CompletedIsOver
<1> DEFINE Over == \A t \in Tasks : task[t].state = "completed" =>
                       task'[t].state = "completed" /\ Holder(t)' = {}
<1>1. TaskInv /\ TaskInv' /\ [Next]_vars => [Over]_<<task, disp>>
  <2> SUFFICES ASSUME TaskInv, TaskInv', Next PROVE [Over]_<<task, disp>>
    BY DEF vars, store
  <2>1. ASSUME NEW p \in Procs, ProcNext(p) PROVE Over
    <3>1. \A t \in Tasks : task[t].state = "completed" => task'[t].state = "completed"
      BY <2>1, TaskSteps, CompletedStays
    <3>2. \A t \in Tasks : task'[t].state = "completed" => Holder(t)' = {}
      BY DEF TaskInv, NoAuthority, Holder
    <3> QED BY <3>1, <3>2
  <2>2. ASSUME NEW d \in Dispatches, PaneDies(d) PROVE UNCHANGED <<task, disp>>
    BY <2>2 DEF PaneDies, store
  <2> QED BY <2>1, <2>2 DEF Next
<1> QED BY <1>1, TasksFollow, PTL DEF Spec, CompletedIsOver

-----------------------------------------------------------------------------
(* Every worker is named by its task, and counted                          *)

Workers(t) == {d \in everLive : disp[d].task = t}

\* The launch of d has committed its dispatch and not yet written its task.
Committed(d) == \E p \in Procs : pc[p] = "st_task" /\ mem[p].d = d
Due(t) == IF \E p \in Procs : pc[p] = "st_task" /\ mem[p].t = t THEN 1 ELSE 0

\* An operator's edit may take the task out of dispatched; what it names stays.
Named(d) ==
    LET r == task[disp[d].task] IN
    r.live = d /\ ("task_update" \notin Commands => r.state = "dispatched")

\* The occupant of the pane may act already, and the launch still has to say so.
Prompted(l, m) ==
    \/ l \in {"st_commit", "st_undelivered", "st_commit_now"}
    \/ l = "st_pane_ready" /\ m.mode = "bare"

Placed(l, m) ==
    /\ l = "st_task" => disp[m.d].state = "dispatched"
    /\ Reporting(l, m) => disp[m.d].state = IF l = "dn_task" THEN "settled" ELSE "dispatched"
    /\ Reporting(l, m) \/ l = "dr_task" =>
          ("task_update" \notin Commands => m.ts.state = "dispatched")

NamedOK == \A d \in Dispatches : disp[d].state = "dispatched" => Named(d) \/ Committed(d)
PaneOK ==
    \A d \in Dispatches : pane[d] = "working" /\ disp[d].state \in {"none", "starting"} =>
        \E p \in Procs : Prompted(pc[p], mem[p]) /\ mem[p].d = d
\* A dispatch that was ever live has left the launch behind; one that is live was.
EverOK ==
    /\ everLive \subseteq Dispatches
    /\ \A d \in Dispatches : /\ d \in everLive => disp[d].state \notin {"none", "starting"}
                             /\ disp[d].state = "dispatched" => d \in everLive
CountOK ==
    \A t \in Tasks : /\ IsFiniteSet(Workers(t))
                     /\ Cardinality(Workers(t)) = task[t].attempts + Due(t)
PlacedOK == \A p \in Procs : Placed(pc[p], mem[p])

WorkInv == NamedOK /\ PaneOK /\ EverOK /\ CountOK /\ PlacedOK

LEMMA InitWork == Init => WorkInv
<1> SUFFICES ASSUME Init PROVE WorkInv
  OBVIOUS
<1>1. \A d \in Dispatches : disp[d].state = "none" /\ pane[d] = "none"
  BY DEF Init, NoDispatch
<1>2. \A t \in Tasks : Workers(t) = {} /\ task[t].attempts = 0
  BY <1>1 DEF Workers, Init, NewTask
<1>3. \A t \in Tasks : Due(t) = 0
  BY DEF Due, Init
<1>4. EverOK /\ CountOK
  <2>1. EverOK
    BY <1>1 DEF EverOK, Init
  <2>2. CountOK
    BY <1>2, <1>3, FS_EmptySet DEF CountOK
  <2> QED BY <2>1, <2>2
<1>5. PlacedOK
  BY DEF Init, PlacedOK, Placed, Reporting
<1> QED BY <1>1, <1>4, <1>5 DEF WorkInv, NamedOK, PaneOK

\* What a command that does not crash does next at these labels.
LEMMA AtLabel ==
    ASSUME NEW p \in Procs, ProcNext(p), "crash" \notin Faults
    PROVE  /\ pc[p] = "st_task" => StartTask(p)
           /\ pc[p] \in {"st_commit", "st_commit_now"} => StartCommit(p) \/ StartUndelivered(p)
           /\ pc[p] = "st_undelivered" => StartUndeliveredSave(p)
           /\ pc[p] = "st_pane_ready" => StartPaneReady(p)
<1> USE DEF At, Begins
<1>1. CASE StartNext(p)
  BY <1>1 DEF StartNext, Start, StartGuards, StartSupersede, StartBadKind, StartCreate,
              StartWithdrawn, StartTrustFails, StartPlacement, StartPaneFails, StartPane,
              StartAgentFails, StartUndelivered, StartDelivered, StartCommit, StartPaneReady,
              StartUndeliveredSave, StartTask
<1>2. CASE DoneNext(p) \/ MessageNext(p) \/ TaskNext(p)
  BY <1>2 DEF DoneNext, DoneVerdict, DonePersist, DoneDispatch, DoneTask, MessageNext,
              SelfDispatch, WriteMessage, TaskNext, TaskUpdate, TaskUpdateSave, Readiness,
              ReadinessSave
<1>3. CASE CancelNext(p) \/ CleanupNext(p)
  BY <1>3 DEF CancelNext, DispatchCancel, DispatchCancelSave, DispatchCancelTask,
              TaskCancel, TaskCancelDispatch, TaskCancelTask, CleanupNext, Release, ReleaseSave,
              DoctorOrphan, DoctorAbandon, DoctorTask, DoctorZombie, DoctorClose, DoctorSkip,
              PaneClosedHook, PaneClosedSave
<1>4. CASE WaitNext(p)
  BY <1>4 DEF WaitNext, Wait, WaitFound, WaitTimeout, WaitPaneEvent, WaitSpurious,
              WaitConfirmed, WaitAbandon, Nudge, NudgeSave
<1> QED BY <1>1, <1>2, <1>3, <1>4 DEF ProcNext, Crash

\* Only a launch puts a worker in a pane.
LEMMA PaneMoves ==
    ASSUME Typed, NEW p \in Procs, ProcNext(p), NEW d \in Dispatches, pane'[d] = "working"
    PROVE  \/ pane[d] = "working"
           \/ d = mem[p].d /\ StartPane(p) /\ mem[p].mode = "bare"
           \/ d = mem[p].d /\ StartDelivered(p)
<1>1. pane \in [Dispatches -> {"none", "open", "working", "gone"}]
  BY DEF Typed, StoreOK
<1>2. CASE StartPane(p) \/ StartDelivered(p)
  BY <1>1, <1>2 DEF StartPane, StartDelivered
<1>3. CASE StartUndeliveredSave(p) \/ ReleaseSave(p) \/ DoctorClose(p)
  BY <1>1, <1>3 DEF StartUndeliveredSave, ReleaseSave, DoctorClose
<1>4. CASE UNCHANGED pane
  BY <1>4
<1>5. StartNext(p) => \/ StartPane(p) \/ StartDelivered(p) \/ StartUndeliveredSave(p)
                      \/ UNCHANGED pane
  BY DEF StartNext, Start, StartGuards, StartSupersede, StartBadKind, StartCreate,
         StartWithdrawn, StartTrustFails, StartPlacement, StartPaneFails, StartPaneReady,
         StartAgentFails, StartUndelivered, StartCommit, StartTask
<1>6. CleanupNext(p) => ReleaseSave(p) \/ DoctorClose(p) \/ UNCHANGED pane
  BY DEF CleanupNext, Release, DoctorOrphan, DoctorAbandon, DoctorTask, DoctorZombie, DoctorSkip,
         PaneClosedHook, PaneClosedSave
<1>7. DoneNext(p) \/ MessageNext(p) \/ CancelNext(p) \/ TaskNext(p) \/ WaitNext(p) \/ Crash(p) =>
          UNCHANGED pane
  BY DEF DoneNext, DoneVerdict, DonePersist, DoneDispatch, DoneTask, MessageNext, SelfDispatch,
         WriteMessage, CancelNext, DispatchCancel, DispatchCancelSave, DispatchCancelTask,
         TaskCancel, TaskCancelDispatch, TaskCancelTask, TaskNext, TaskUpdate, TaskUpdateSave,
         Readiness, ReadinessSave, WaitNext, Wait, WaitFound, WaitTimeout, WaitPaneEvent,
         WaitSpurious, WaitConfirmed, WaitAbandon, Nudge, NudgeSave, Crash
<1> QED BY <1>2, <1>3, <1>4, <1>5, <1>6, <1>7 DEF ProcNext

\* While p runs, what the invariant says of some process it says of p.
LEMMA RunnerOnly ==
    ASSUME Grain = "command", TaskInv, NEW p \in Procs, ProcNext(p), NEW d
    PROVE  /\ Committed(d) => pc[p] = "st_task" /\ mem[p].d = d
           /\ (\E q \in Procs : Prompted(pc[q], mem[q]) /\ mem[q].d = d) =>
                  Prompted(pc[p], mem[p]) /\ mem[p].d = d
<1>1. \A q \in Procs \ {p} : pc[q] = "idle"
  BY OthersWait DEF TaskInv
<1> QED BY <1>1 DEF Committed, Prompted

LEMMA NamedKeeps ==
    ASSUME Grain = "command", "crash" \notin Faults, TaskInv, WorkInv, NEW p \in Procs, ProcNext(p)
    PROVE  NamedOK'
<1> DEFINE m == mem[p]
<1> SUFFICES ASSUME NEW d \in Dispatches, disp'[d].state = "dispatched"
             PROVE  Named(d)' \/ Committed(d)'
  BY DEF NamedOK
<1>1. /\ task \in [Tasks -> TaskRecord] /\ disp \in [Dispatches -> DispatchRecord]
      /\ m \in Memory /\ Aware(pc[p], m) /\ Placed(pc[p], m)
      /\ OneAuthorityPerTask /\ RecordOK(d)
  BY DEF TaskInv, SerialInv, Typed, StoreOK, ProcsOK, WorkInv, PlacedOK
<1>2. \A l, n : Goto(p, l, n) => pc'[p] = l /\ mem'[p] = n
  BY OthersWait DEF TaskInv
<1>3. CASE StartCommit(p) /\ d = m.d
  <2>1. pc'[p] = "st_task" /\ mem'[p].d = d
    BY <1>2, <1>3 DEF StartCommit
  <2> QED BY <2>1 DEF Committed
<1>4. CASE ~(StartCommit(p) /\ d = m.d)
  <2>1. DispatchStep(p)
    BY DispatchMoves DEF TaskInv
  <2>2. disp[d].state = "dispatched" /\ disp'[d].task = disp[d].task
    <3>1. CASE EndStep
      BY <3>1 DEF EndStep, Stays, Ends
    <3>2. CASE SettleStep(m.d)
      BY <3>2 DEF SettleStep, Settles
    <3>3. CASE BirthStep(m.t)
      BY <3>3 DEF BirthStep, NewDispatch, NoDispatch
    <3>4. CASE pc[p] \in {"st_commit", "st_commit_now"} /\ CommitStep(m.d)
      <4>1. ~StartUndelivered(p)
        BY <3>4 DEF CommitStep, Commits, StartUndelivered, store
      <4> QED BY <1>4, <3>4, <4>1, AtLabel DEF CommitStep
    <3> QED BY <2>1, <3>1, <3>2, <3>3, <3>4 DEF DispatchStep
  <2>3. disp[d].auth /\ disp[d].task \in Tasks
    BY <1>1, <2>2 DEF RecordOK, Created, DispatchRecord
  <2> DEFINE t == disp[d].task
  <2>4. CASE pc[p] = "st_task" /\ m.t = t
    <3>1. StartTask(p) /\ m.d \in Dispatches
      BY <1>1, <2>4, AtLabel DEF TaskInv, SerialInv, Typed, ProcsOK, LocalOK, Local, NoDispatchPCs
    <3>2. disp[m.d].state = "dispatched" /\ disp[m.d].task = t
      BY <1>1, <2>4 DEF Placed, Aware
    <3>3. m.d = d
      BY <1>1, <2>3, <3>1, <3>2 DEF OneAuthorityPerTask, TaskInv, SerialInv, RecordOK
    <3>4. task'[t].live = m.d /\ task'[t].state = "dispatched"
      BY <1>1, <2>3, <2>4, <3>1 DEF StartTask, SaveTask, Memory, TaskRecord
    <3> QED BY <2>2, <3>3, <3>4 DEF Named
  <2>5. CASE ~(pc[p] = "st_task" /\ m.t = t)
    <3>1. Named(d)
      <4>1. ~Committed(d)
        BY <1>1, <2>5, RunnerOnly DEF Aware
      <4> QED BY <2>2, <4>1 DEF WorkInv, NamedOK
    <3>2. CASE task'[t] = task[t]
      BY <2>2, <3>1, <3>2 DEF Named
    <3>3. CASE TaskStep(p) /\ t = m.t
      <4>1. TaskMoves(pc[p], m, task[t], task'[t])
        BY <1>1, <3>3 DEF TaskStep
      <4>2. pc[p] # "dn_task"
        BY <1>1, <2>3, <3>3 DEF Aware, NoAuthority
      <4>3. pc[p] \notin {"dc_task", "dr_task", "tc_task"}
        BY <1>1, <2>3, <3>1, <3>3, NoneIsNoId DEF Aware, TaskPCs, Named
      <4> QED BY <1>1, <2>2, <2>5, <3>1, <3>3, <4>1, <4>2, <4>3 DEF TaskMoves, Aware, Named
    <3> QED BY <1>1, <2>3, <3>2, <3>3, TaskSteps DEF TaskStep
  <2> QED BY <2>4, <2>5
<1> QED BY <1>3, <1>4

LEMMA PaneKeeps ==
    ASSUME Grain = "command", "crash" \notin Faults, TaskInv, WorkInv, NEW p \in Procs, ProcNext(p)
    PROVE  PaneOK'
<1> DEFINE m == mem[p]
<1> USE DEF At
<1> SUFFICES ASSUME NEW d \in Dispatches, pane'[d] = "working", disp'[d].state \in {"none", "starting"}
             PROVE  Prompted(pc'[p], mem'[p]) /\ mem'[p].d = d
  BY DEF PaneOK
<1>1. disp \in [Dispatches -> DispatchRecord] /\ m \in Memory /\ RecordOK(d) /\ Fresh(pc[p], m)
  BY DEF TaskInv, SerialInv, Typed, StoreOK, ProcsOK
<1>2. \A l, n : Goto(p, l, n) => pc'[p] = l /\ mem'[p] = n
  BY OthersWait DEF TaskInv
<1>3. CASE d = m.d /\ StartPane(p) /\ m.mode = "bare"
  BY <1>2, <1>3 DEF StartPane, Prompted
<1>4. CASE d = m.d /\ StartDelivered(p)
  BY <1>2, <1>4 DEF StartDelivered, Prompted
<1>5. CASE pane[d] = "working"
  <2>1. DispatchStep(p)
    BY DispatchMoves DEF TaskInv
  <2>2. disp[d].state \in {"none", "starting"}
    BY <1>1, <2>1 DEF DispatchStep, EndStep, Stays, Ends, BirthStep, CommitStep, Commits,
                      SettleStep, Settles, RecordOK, Created
  <2>3. Prompted(pc[p], m) /\ m.d = d
    BY <1>5, <2>2, RunnerOnly DEF WorkInv, PaneOK
  <2>4. CASE StartPaneReady(p) /\ m.mode = "bare"
    <3> DEFINE n == [m EXCEPT !.ds[m.d].pane = TRUE]
    <3>1. n.mode = m.mode /\ n.d = d
      BY <1>1, <2>3 DEF Memory
    <3>2. Goto(p, "st_commit_now", n)
      BY <2>4, <3>1 DEF StartPaneReady
    <3> HIDE DEF n
    <3> QED BY <1>2, <3>1, <3>2 DEF Prompted
  <2>5. CASE StartCommit(p)
    <3>1. m.ds[m.d] = disp[d]
      BY <1>1, <2>3, <2>5 DEF StartCommit, Fresh, HoldPCs, LaunchPCs
    <3>2. disp'[d].state = "dispatched"
      BY <1>1, <2>3, <2>5, <3>1 DEF StartCommit, SaveDispatch, DispatchRecord
    <3> QED BY <3>2
  <2>6. CASE StartUndelivered(p)
    BY <1>2, <2>3, <2>6 DEF StartUndelivered, Prompted
  <2>7. CASE StartUndeliveredSave(p)
    <3>1. m.ds[m.d] = disp[d]
      BY <1>1, <2>3, <2>7 DEF StartUndeliveredSave, Fresh, HoldPCs, LaunchPCs
    <3>2. disp'[d].state = "abandoned"
      BY <1>1, <2>3, <2>7, <3>1 DEF StartUndeliveredSave, SaveDispatch, DispatchRecord, Abandoned
    <3> QED BY <3>2
  <2> QED BY <2>3, <2>4, <2>5, <2>6, <2>7, AtLabel DEF Prompted
<1> QED BY <1>3, <1>4, <1>5, PaneMoves DEF TaskInv, SerialInv

\* The history remembers the dispatches a step leaves live.
LEMMA Remembered ==
    ASSUME Typed, Typed', EverOK, NEW p \in Procs, ProcNext(p)
    PROVE  everLive' = everLive \cup {d \in Dispatches : disp'[d].state = "dispatched"}
<1>1. CASE UNCHANGED <<disp, everLive>>
  BY <1>1 DEF EverOK
<1>2. ASSUME NEW d \in Dispatches, NEW r, SaveDispatch(d, r)
      PROVE  everLive' = everLive \cup {e \in Dispatches : disp'[e].state = "dispatched"}
  <2>1. disp'[d] = r /\ \A e \in Dispatches \ {d} : disp'[e] = disp[e]
    BY <1>2 DEF SaveDispatch, Typed, StoreOK
  <2>2. everLive' = everLive \cup (IF r.state = "dispatched" THEN {d} ELSE {})
    BY <1>2 DEF SaveDispatch
  <2>3. \A e \in Dispatches \ {d} : disp'[e].state = "dispatched" => e \in everLive
    BY <2>1 DEF EverOK
  <2>4. CASE r.state = "dispatched"
    BY <2>1, <2>2, <2>3, <2>4
  <2>5. CASE r.state # "dispatched"
    BY <2>1, <2>2, <2>3, <2>5
  <2> QED BY <2>4, <2>5
<1>3. CASE /\ UNCHANGED everLive
           /\ \A d \in Dispatches : disp'[d] = disp[d] \/ disp'[d].state = "superseded"
  <2>1. \A d \in Dispatches : disp'[d].state = "dispatched" => d \in everLive
    BY <1>3 DEF EverOK
  <2> QED BY <1>3, <2>1
<1> QED BY <1>1, <1>2, <1>3, StepsRecorded DEF Recorded

\* A dispatch goes live when its launch commits, and then for the first time.
LEMMA EverMoves ==
    ASSUME TaskInv, WorkInv, TaskInv', NEW p \in Procs, ProcNext(p)
    PROVE  /\ EverOK'
           /\ \A d \in everLive : disp'[d].task = disp[d].task
           /\ \/ everLive' = everLive
              \/ /\ pc[p] \in {"st_commit", "st_commit_now"} /\ CommitStep(mem[p].d)
                 /\ everLive' = everLive \cup {mem[p].d} /\ mem[p].d \notin everLive
<1> DEFINE m == mem[p]
<1>1. /\ everLive' = everLive \cup {d \in Dispatches : disp'[d].state = "dispatched"}
      /\ EverOK /\ \A d \in Dispatches : RecordOK(d)
  BY Remembered DEF TaskInv, SerialInv, WorkInv
<1>2. \/ EndStep \/ BirthStep(m.t) \/ SettleStep(m.d)
      \/ pc[p] \in {"st_commit", "st_commit_now"} /\ CommitStep(m.d)
  BY DispatchMoves DEF TaskInv, DispatchStep
<1>3. CASE EndStep \/ BirthStep(m.t) \/ SettleStep(m.d)
  <2>1. \A d \in Dispatches :
            /\ disp'[d].state = "dispatched" => disp[d].state = "dispatched"
            /\ disp[d].state \notin {"none", "starting"} =>
                   disp'[d].state \notin {"none", "starting"} /\ disp'[d].task = disp[d].task
    <3>1. CASE EndStep
      BY <3>1 DEF EndStep, Stays, Ends
    <3>2. CASE BirthStep(m.t)
      BY <1>1, <3>2 DEF BirthStep, NewDispatch, NoDispatch, RecordOK
    <3>3. CASE SettleStep(m.d)
      BY <3>3 DEF SettleStep, Settles
    <3> QED BY <1>3, <3>1, <3>2, <3>3
  <2>2. everLive' = everLive
    BY <1>1, <2>1 DEF EverOK
  <2> QED BY <1>1, <2>1, <2>2 DEF EverOK
<1>4. CASE pc[p] \in {"st_commit", "st_commit_now"} /\ CommitStep(m.d)
  <2>1. /\ m.d \in Dispatches /\ disp[m.d].state = "starting" /\ disp'[m.d].state = "dispatched"
        /\ disp'[m.d].task = disp[m.d].task
        /\ \A e \in Dispatches \ {m.d} : disp'[e] = disp[e]
    BY <1>4 DEF CommitStep, Commits
  <2>2. m.d \notin everLive /\ everLive' = everLive \cup {m.d}
    BY <1>1, <2>1 DEF EverOK
  <2>3. EverOK'
    BY <1>1, <2>1, <2>2 DEF EverOK
  <2> QED BY <1>1, <1>4, <2>1, <2>2, <2>3 DEF EverOK
<1> QED BY <1>2, <1>3, <1>4

LEMMA OnlyCommit ==
    ASSUME NEW p \in Procs, ProcNext(p), \A l, n : Goto(p, l, n) => pc'[p] = l, pc'[p] = "st_task"
    PROVE  StartCommit(p)
<1>1. ~\E l \in PCs \ {"st_task"} : \E n : Goto(p, l, n)
  OBVIOUS
<1> USE <1>1 DEF PCs
<1>2. ~Finish(p) /\ ~Start(p) /\ ~StartGuards(p) /\ ~StartSupersede(p) /\ ~StartCreate(p)
  BY DEF Finish, Start, StartGuards, StartSupersede, StartCreate
<1>3. /\ ~StartPlacement(p) /\ ~StartPane(p) /\ ~StartPaneReady(p) /\ ~StartUndelivered(p)
      /\ ~StartDelivered(p)
  BY DEF StartPlacement, StartPane, StartPaneReady, StartUndelivered, StartDelivered
<1>4. /\ ~DoneVerdict(p) /\ ~DoneDispatch(p) /\ ~SelfDispatch(p)
      /\ ~(DonePersist(p) /\ ~Finish(p))
  BY DEF DoneVerdict, DonePersist, DoneDispatch, SelfDispatch
<1>5. /\ ~DispatchCancel(p) /\ ~(DispatchCancelSave(p) /\ ~Finish(p)) /\ ~TaskCancel(p)
      /\ ~TaskCancelDispatch(p) /\ ~TaskUpdate(p) /\ ~Readiness(p)
  BY DEF DispatchCancel, DispatchCancelSave, TaskCancel, TaskCancelDispatch, TaskUpdate, Readiness
<1>6. /\ ~Release(p) /\ ~DoctorOrphan(p) /\ ~(DoctorAbandon(p) /\ ~Finish(p)) /\ ~DoctorZombie(p)
      /\ ~PaneClosedHook(p)
  BY DEF Release, DoctorOrphan, DoctorAbandon, DoctorZombie, PaneClosedHook
<1>7. ~Wait(p) /\ ~WaitPaneEvent(p) /\ ~WaitSpurious(p) /\ ~WaitConfirmed(p) /\ ~Nudge(p)
  BY DEF Wait, WaitPaneEvent, WaitSpurious, WaitConfirmed, Nudge
<1> QED BY <1>2, <1>3, <1>4, <1>5, <1>6, <1>7, GoesOn

LEMMA CountKeeps ==
    ASSUME Grain = "command", "crash" \notin Faults, TaskInv, WorkInv, TaskInv',
           NEW p \in Procs, ProcNext(p)
    PROVE  CountOK'
<1> DEFINE m == mem[p]
<1> SUFFICES ASSUME NEW t \in Tasks
             PROVE  /\ IsFiniteSet(Workers(t)')
                    /\ Cardinality(Workers(t)') = task'[t].attempts + Due(t)'
  BY DEF CountOK
<1>1. /\ task \in [Tasks -> TaskRecord] /\ task' \in [Tasks -> TaskRecord]
      /\ Aware(pc[p], m) /\ Placed(pc[p], m) /\ Local(pc[p], m)
      /\ \A q \in Procs \ {p} : pc[q] = "idle" /\ pc'[q] = "idle"
      /\ \A l, n : Goto(p, l, n) => pc'[p] = l /\ mem'[p] = n
  BY OthersWait DEF TaskInv, SerialInv, Typed, StoreOK, ProcsOK, LocalOK, WorkInv, PlacedOK
<1>2. /\ IsFiniteSet(Workers(t)) /\ Cardinality(Workers(t)) = task[t].attempts + Due(t)
      /\ Due(t) \in {0, 1} /\ Due(t)' \in {0, 1}
      /\ task[t].attempts \in Nat /\ task'[t].attempts \in Nat
  BY <1>1, BoundsAreNat DEF WorkInv, CountOK, Due, TaskRecord
<1>3. CASE pc[p] = "st_task"
  <2>1. StartTask(p) /\ m.t \in Tasks
    BY <1>1, <1>3, AtLabel DEF Local, NoTaskPCs
  <2>2. Workers(t)' = Workers(t)
    BY <2>1 DEF StartTask, Workers
  <2>3. Due(t)' = 0
    BY <1>1, <2>1 DEF StartTask, Finish, Due
  <2>4. task'[t].attempts = task[t].attempts + Due(t)
    <3>1. CASE t = m.t
      <4>1. Due(t) = 1
        BY <1>3, <3>1 DEF Due
      <4>2. m.ts = task[t] /\ m.ts.attempts = task[t].attempts
        BY <1>1, <1>3, <3>1 DEF Aware, TaskPCs, StartPCs
      <4>3. task'[t].attempts = task[t].attempts + 1
        BY <1>1, <2>1, <3>1, <4>2 DEF StartTask, SaveTask, TaskRecord
      <4> QED BY <4>1, <4>3
    <3>2. CASE t # m.t
      BY <1>1, <1>2, <2>1, <3>2 DEF StartTask, SaveTask, Due
    <3> QED BY <3>1, <3>2
  <2> QED BY <1>2, <2>2, <2>3, <2>4
<1>4. CASE pc[p] # "st_task"
  <2>1. Due(t) = 0
    BY <1>1, <1>4 DEF Due
  <2>2. task'[t].attempts = task[t].attempts
    BY <1>1, <1>4, TaskSteps DEF TaskStep, TaskMoves
  <2>3. \A d \in everLive : disp'[d].task = disp[d].task
    BY EverMoves
  <2>4. CASE pc[p] \in {"st_commit", "st_commit_now"} /\ CommitStep(m.d)
    <3>1. disp[m.d].task = m.t /\ disp'[m.d].task = m.t
      BY <1>1, <2>4 DEF CommitStep, Commits, Aware, LaunchPCs
    <3>2. everLive' = everLive \cup {m.d} /\ m.d \notin everLive
      <4>1. m.d \in everLive' /\ m.d \notin everLive
        <5>1. EverOK /\ EverOK'
          BY EverMoves DEF WorkInv
        <5> QED BY <2>4, <5>1 DEF CommitStep, Commits, EverOK
      <4> QED BY <4>1, EverMoves
    <3>3. pc'[p] = "st_task" /\ mem'[p] = m
      <4>1. ~StartUndelivered(p)
        BY <2>4 DEF CommitStep, Commits, StartUndelivered, store
      <4> QED BY <1>1, <2>4, <4>1, AtLabel DEF StartCommit
    <3>4. CASE t = m.t
      <4>1. Workers(t)' = Workers(t) \cup {m.d} /\ m.d \notin Workers(t)
        BY <2>3, <3>1, <3>2, <3>4 DEF Workers
      <4>2. Due(t)' = 1
        BY <3>3, <3>4 DEF Due
      <4>3. /\ IsFiniteSet(Workers(t) \cup {m.d})
            /\ Cardinality(Workers(t) \cup {m.d}) = Cardinality(Workers(t)) + 1
        BY <1>2, <4>1, FS_AddElement
      <4>4. IsFiniteSet(Workers(t)') /\ Cardinality(Workers(t)') = Cardinality(Workers(t)) + 1
        BY <4>1, <4>3
      <4> HIDE DEF Workers, Due
      <4> QED BY <1>2, <2>1, <2>2, <4>2, <4>4
    <3>5. CASE t # m.t
      <4>1. Workers(t)' = Workers(t)
        BY <2>3, <3>1, <3>2, <3>5 DEF Workers
      <4>2. Due(t)' = 0
        BY <1>1, <3>3, <3>5 DEF Due
      <4> QED BY <1>2, <2>1, <2>2, <4>1, <4>2
    <3> QED BY <3>4, <3>5
  <2>5. CASE ~(pc[p] \in {"st_commit", "st_commit_now"} /\ CommitStep(m.d))
    <3>1. Workers(t)' = Workers(t)
      BY <2>3, <2>5, EverMoves DEF Workers
    <3>2. Due(t)' = 0
      <4>1. pc'[p] # "st_task"
        <5>1. SUFFICES ASSUME StartCommit(p) PROVE FALSE
          BY <1>1, OnlyCommit
        <5>2. /\ m.d \in Dispatches /\ m.ds[m.d] = disp[m.d] /\ disp[m.d].state = "starting"
              /\ disp \in [Dispatches -> DispatchRecord]
              /\ pc[p] \in {"st_commit", "st_commit_now"}
          BY <1>1, <5>1 DEF StartCommit, At, TaskInv, SerialInv, Typed, StoreOK, Fresh, HoldPCs,
                           LaunchPCs, Local, NoDispatchPCs
        <5>3. disp'[m.d].state = "dispatched"
          BY <5>1, <5>2 DEF StartCommit, SaveDispatch, DispatchRecord
        <5>4. EndStep
          BY <2>5, <5>2, DispatchMoves DEF TaskInv, DispatchStep
        <5> QED BY <5>2, <5>3, <5>4 DEF EndStep, Stays, Ends
      <4> QED BY <1>1, <4>1 DEF Due
    <3> QED BY <1>2, <2>1, <2>2, <3>1, <3>2
  <2> QED BY <2>4, <2>5
<1> QED BY <1>3, <1>4

LEMMA PlacedKeeps ==
    ASSUME Grain = "command", "crash" \notin Faults, TaskInv, WorkInv, NEW p \in Procs, ProcNext(p)
    PROVE  PlacedOK'
<1> DEFINE m == mem[p]
<1> USE DEF At, Begins, Reporting
<1>1. /\ task \in [Tasks -> TaskRecord] /\ disp \in [Dispatches -> DispatchRecord]
      /\ m \in Memory /\ Local(pc[p], m) /\ Fresh(pc[p], m) /\ Aware(pc[p], m) /\ Placed(pc[p], m)
      /\ \A d \in Dispatches : RecordOK(d)
      /\ \A q \in Procs \ {p} : pc'[q] = "idle"
      /\ \A l, n : Goto(p, l, n) => pc'[p] = l /\ mem'[p] = n
  BY OthersWait DEF TaskInv, SerialInv, Typed, StoreOK, ProcsOK, LocalOK, WorkInv, PlacedOK
<1>2. SUFFICES Placed(pc[p], mem[p])'
  BY <1>1 DEF PlacedOK, Placed
<1>3. CASE pc'[p] \notin {"st_task", "dn_persist", "dn_dispatch", "dn_task", "dr_task"}
  BY <1>3 DEF Placed
<1>4. CASE StartCommit(p)
  <2>1. m.d \in Dispatches /\ m.ds[m.d] = disp[m.d]
    BY <1>1, <1>4 DEF StartCommit, Local, NoDispatchPCs, Fresh, HoldPCs, LaunchPCs
  <2>2. pc'[p] = "st_task" /\ mem'[p] = m /\ disp'[m.d].state = "dispatched"
    BY <1>1, <1>4, <2>1 DEF StartCommit, SaveDispatch, DispatchRecord
  <2> QED BY <2>2 DEF Placed
<1>5. CASE DoneVerdict(p)
  <2>1. PICK t \in Tasks, d \in Dispatches, o \in Outcomes :
            /\ pane[d] = "working"
            /\ Goto(p, "dn_persist", [Blank EXCEPT !.t = t, !.d = d, !.arg = o, !.why = Verdict(t, d),
                                                   !.ts = task[t], !.ds[d] = disp[d]])
    BY <1>5 DEF DoneVerdict
  <2> DEFINE n == [Blank EXCEPT !.t = t, !.d = d, !.arg = o, !.why = Verdict(t, d),
                                !.ts = task[t], !.ds[d] = disp[d]]
  <2>2. n.t = t /\ n.d = d /\ n.why = Verdict(t, d) /\ n.ts = task[t]
    BY DEF Blank
  <2>3. Goto(p, "dn_persist", n) /\ UNCHANGED <<task, disp>> /\ pc[p] = "idle"
    BY <1>5, <2>1 DEF DoneVerdict, store
  <2> HIDE DEF n
  <2>4. pc'[p] = "dn_persist" /\ mem'[p] = n
    BY <1>1, <2>3
  <2>5. ASSUME Verdict(t, d) = None
        PROVE  disp[d].state = "dispatched" /\ ("task_update" \notin Commands => task[t].state = "dispatched")
    <3>1. disp[d].auth /\ disp[d].task = t
      BY <2>5, NoneIsNoReason DEF Verdict, Reasons
    <3>2. disp[d].state \notin {"none", "starting"}
      BY <2>1, <2>3, RunnerOnly DEF WorkInv, PaneOK, Prompted
    <3>3. disp[d].state = "dispatched"
      BY <1>1, <3>1, <3>2 DEF RecordOK
    <3>4. Named(d)
      BY <2>3, <3>3, RunnerOnly DEF WorkInv, NamedOK
    <3> QED BY <3>1, <3>3, <3>4 DEF Named
  <2> QED BY <2>2, <2>3, <2>4, <2>5 DEF Placed
<1>6. CASE DonePersist(p)
  <2> DEFINE n == [m EXCEPT !.n = seq + 1]
  <2>1. Finish(p) \/ (m.why = None /\ Goto(p, "dn_dispatch", n))
    BY <1>6 DEF DonePersist
  <2>2. n.d = m.d /\ n.ts = m.ts /\ UNCHANGED disp /\ pc[p] = "dn_persist"
    BY <1>1, <1>6 DEF Memory, DonePersist
  <2> HIDE DEF n
  <2>3. CASE Finish(p)
    BY <1>1, <1>3, <2>3 DEF Finish
  <2>4. CASE m.why = None /\ Goto(p, "dn_dispatch", n)
    <3>1. pc'[p] = "dn_dispatch" /\ mem'[p] = n
      BY <1>1, <2>4
    <3> QED BY <1>1, <2>2, <2>4, <3>1 DEF Placed
  <2> QED BY <2>1, <2>3, <2>4
<1>7. CASE DoneDispatch(p)
  <2>1. m.d \in Dispatches /\ m.ds[m.d] = disp[m.d] /\ pc[p] = "dn_dispatch"
    BY <1>1, <1>7 DEF DoneDispatch, Local, NoDispatchPCs, Fresh, HoldPCs
  <2>2. pc'[p] = "dn_task" /\ mem'[p] = m /\ disp'[m.d].state = "settled"
    BY <1>1, <1>7, <2>1 DEF DoneDispatch, SaveDispatch, DispatchRecord
  <2> QED BY <1>1, <2>1, <2>2 DEF Placed
<1>8. CASE DoctorAbandon(p)
  <2> DEFINE n == [m EXCEPT !.ts = task[m.t]]
  <2>1. /\ pc[p] = "dr_scan"
        /\ Finish(p) \/ (task[m.t].live = m.d /\ Goto(p, "dr_task", n))
    BY <1>8 DEF DoctorAbandon
  <2>2. n.ts = task[m.t] /\ n.d = m.d
    BY <1>1 DEF Memory
  <2> HIDE DEF n
  <2>3. m.d \in Dispatches /\ disp[m.d].state = "dispatched" /\ disp[m.d].task = m.t
    BY <1>1, <2>1 DEF Local, NoDispatchPCs, Fresh, WatchPCs, Aware
  <2>4. "task_update" \notin Commands => task[m.t].state = "dispatched"
    BY <2>1, <2>3, RunnerOnly DEF WorkInv, NamedOK, Named
  <2>5. CASE Finish(p)
    BY <1>1, <1>3, <2>5 DEF Finish
  <2>6. CASE Goto(p, "dr_task", n)
    <3>1. pc'[p] = "dr_task" /\ mem'[p] = n
      BY <1>1, <2>6
    <3> QED BY <2>2, <2>4, <3>1 DEF Placed
  <2> QED BY <2>1, <2>5, <2>6
<1> DEFINE Others == {"idle", "st_guards", "st_supersede", "st_create", "st_new", "st_pane",
                       "st_pane_ready", "st_launch", "st_undelivered", "st_commit",
                       "st_commit_now", "ms_write", "dc_save", "dc_task", "tc_dispatch",
                       "tc_task", "up_save", "rc_save", "rl_save", "dr_scan", "zb_close",
                       "hk_save", "wt_block", "wt_confirm", "wt_abandon", "nd_save"}
           Elsewhere == \E l \in Others : \E n : Goto(p, l, n)
<1>9. Elsewhere => Placed(pc[p], mem[p])'
  BY <1>1, <1>3
<1>10. Finish(p) \/ Start(p) \/ StartGuards(p) \/ StartSupersede(p) \/ StartCreate(p)
       \/ StartPlacement(p) \/ StartPane(p) \/ StartUndelivered(p) \/ StartDelivered(p) => Elsewhere
  BY DEF Finish, Start, StartGuards, StartSupersede, StartCreate, StartPlacement, StartPane,
         StartUndelivered, StartDelivered
<1>11. StartPaneReady(p) => Elsewhere
  BY DEF StartPaneReady
<1>12. SelfDispatch(p) \/ DispatchCancel(p) \/ DispatchCancelSave(p) \/ TaskCancel(p)
       \/ TaskCancelDispatch(p) \/ TaskUpdate(p) \/ Readiness(p) => Elsewhere
  BY DEF Finish, SelfDispatch, DispatchCancel, DispatchCancelSave, TaskCancel, TaskCancelDispatch,
         TaskUpdate, Readiness
<1>13. Release(p) \/ DoctorOrphan(p) \/ DoctorZombie(p) \/ PaneClosedHook(p) \/ Wait(p)
       \/ WaitPaneEvent(p) \/ WaitSpurious(p) \/ WaitConfirmed(p) \/ Nudge(p) => Elsewhere
  BY DEF Release, DoctorOrphan, DoctorZombie, PaneClosedHook, Wait, WaitPaneEvent, WaitSpurious,
         WaitConfirmed, Nudge
<1> HIDE DEF Elsewhere
<1> QED BY <1>4, <1>5, <1>6, <1>7, <1>8, <1>9, <1>10, <1>11, <1>12, <1>13, GoesOn

LEMMA NextWork ==
    Grain = "command" /\ "crash" \notin Faults /\ TaskInv /\ WorkInv /\ [Next]_vars => WorkInv'
<1> SUFFICES ASSUME Grain = "command", "crash" \notin Faults, TaskInv, WorkInv, [Next]_vars
             PROVE  WorkInv'
  OBVIOUS
<1>1. ASSUME NEW p \in Procs, ProcNext(p) PROVE WorkInv'
  <2>1. TaskInv'
    BY <1>1, NextTask DEF Next
  <2> QED BY <1>1, <2>1, NamedKeeps, PaneKeeps, EverMoves, CountKeeps, PlacedKeeps DEF WorkInv
<1>2. ASSUME UNCHANGED <<task, disp, everLive, pc, mem>>,
             \A d \in Dispatches : pane'[d] = "working" => pane[d] = "working"
      PROVE  WorkInv'
  <2>1. NamedOK' /\ PlacedOK'
    BY <1>2 DEF WorkInv, NamedOK, PlacedOK, Named, Committed, Placed, Reporting
  <2>2. PaneOK'
    BY <1>2 DEF WorkInv, PaneOK, Prompted
  <2>3. EverOK' /\ CountOK'
    BY <1>2 DEF WorkInv, EverOK, CountOK, Workers, Due
  <2> QED BY <2>1, <2>2, <2>3 DEF WorkInv
<1>3. ASSUME NEW d \in Dispatches, PaneDies(d) PROVE WorkInv'
  <2>1. pane \in [Dispatches -> {"none", "open", "working", "gone"}]
    BY DEF TaskInv, SerialInv, Typed, StoreOK
  <2> QED BY <1>2, <1>3, <2>1 DEF PaneDies, store
<1> QED BY <1>1, <1>2, <1>3 DEF Next, vars

\* While commands run one after another and none is cut short: every worker is named by its
\* task and counted by it, and a report or an abandonment finds the task dispatched.
THEOREM WorkersFollow ==
    ASSUME Grain = "command", "crash" \notin Faults
    PROVE  Spec => [](TaskInv /\ WorkInv)
<1>1. TaskInv /\ WorkInv /\ [Next]_vars => WorkInv'
  BY NextWork
<1>2. TaskInv /\ [Next]_vars => TaskInv'
  BY NextTask
<1> QED BY <1>1, <1>2, InitTask, InitWork, PTL DEF Spec

\* When no command runs, a live dispatch with authority is the one its task names: its report
\* will be accepted.
THEOREM LiveIsNamed ==
    ASSUME Grain = "command", "crash" \notin Faults
    PROVE  Spec => []AuthorityMatchesLive
<1>1. WorkInv => AuthorityMatchesLive
  BY DEF WorkInv, NamedOK, Named, Committed, AuthorityMatchesLive, Quiescent
<1> QED BY <1>1, WorkersFollow, PTL

\* When no command runs, a task's attempts are exactly the dispatches of it that were ever live,
\* superseded and abandoned ones among them: max_attempts counts each worker once.
THEOREM WorkersCounted ==
    ASSUME Grain = "command", "crash" \notin Faults
    PROVE  Spec => []AttemptsCountWorkers
<1>1. TaskInv /\ WorkInv => AttemptsCountWorkers
  <2> SUFFICES ASSUME TaskInv, WorkInv, Quiescent, NEW t \in Tasks
               PROVE  task[t].attempts = Cardinality(Workers(t))
    BY DEF AttemptsCountWorkers, Workers
  <2>1. Due(t) = 0
    BY DEF Due, Quiescent
  <2>2. task[t].attempts \in Nat
    BY BoundsAreNat DEF TaskInv, SerialInv, Typed, StoreOK, TaskRecord
  <2> QED BY <2>1, <2>2 DEF WorkInv, CountOK
<1> QED BY <1>1, WorkersFollow, PTL

\* A task only makes the transitions of the lifecycle table.  An operator's edit is left out: it
\* may move a running task, which its worker's report then moves over an edge that is not
\* listed, and the model saves the edit and the refresh that follows it as one write.
THEOREM TransitionsLegal ==
    ASSUME Grain = "command", "crash" \notin Faults, "task_update" \notin Commands
    PROVE  Spec => LegalTransitions
<1>1. TaskInv /\ WorkInv /\ [Next]_vars =>
          [\A t \in Tasks : CanTransitionTask(task[t].state, task'[t].state)]_task
  <2> SUFFICES ASSUME TaskInv, WorkInv, NEW p \in Procs, ProcNext(p), NEW t \in Tasks
               PROVE  CanTransitionTask(task[t].state, task'[t].state)
    BY DEF Next, PaneDies, vars, store
  <2> DEFINE m == mem[p]
  <2>1. /\ task \in [Tasks -> TaskRecord] /\ task[t].state \in TaskStates
        /\ Local(pc[p], m) /\ Aware(pc[p], m) /\ Placed(pc[p], m)
    BY DEF TaskInv, SerialInv, Typed, StoreOK, ProcsOK, LocalOK, WorkInv, PlacedOK, TaskRecord
  <2>2. CASE task'[t] = task[t]
    BY <2>2 DEF CanTransitionTask
  <2>3. CASE TaskStep(p) /\ t = m.t
    <3>1. TaskMoves(pc[p], m, task[t], task'[t])
      BY <2>1, <2>3 DEF TaskStep
    <3>2. pc[p] \in TaskPCs => m.ts = task[t]
      BY <2>1, <2>3 DEF Aware
    <3>3. pc[p] # "up_save"
      BY <2>1 DEF Aware
    <3>4. pc[p] \in {"dn_task", "dr_task"} => task[t].state = "dispatched"
      BY <2>1, <3>2 DEF Placed, Reporting, TaskPCs
    <3>5. pc[p] = "st_task" => task[t].state \in {"ready", "dispatched", "failed", "blocked"}
      BY <2>1, <3>2 DEF Aware, TaskPCs, StartPCs
    <3>6. pc[p] = "tc_task" => CanTransitionTask(task[t].state, "cancelled")
      BY <2>1, <3>2 DEF Aware, TaskPCs
    <3>7. pc[p] = "dn_task" => task'[t].state \in {"completed", "failed", "blocked"}
      BY <2>1, <3>1 DEF TaskMoves, Local, Outcomes, OutcomeToTaskState
    <3> QED BY <3>1, <3>3, <3>4, <3>5, <3>6, <3>7
            DEF TaskMoves, CanTransitionTask, TaskTransitions
  <2> QED BY <2>1, <2>2, <2>3, TaskSteps DEF TaskStep
<1> QED BY <1>1, WorkersFollow, PTL DEF Spec, LegalTransitions

==============================================================================
