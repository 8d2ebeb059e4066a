---------------------------- MODULE Panes_proofs ----------------------------
(***************************************************************************)
(* What cbds may close, for any number of dispatches, tasks and panes,     *)
(* whatever crashes.  Two of the theorems hold only as long as Herdr       *)
(* answers the one call they name; with that call failing TLC refutes them.*)
(***************************************************************************)
EXTENDS Panes, TLAPS

\* A supervised record names the pane that was made for its dispatch.
Makes(d, r) == r.supervised /\ r.pane # NoOne => maker[r.pane] = d

\* A pane has a maker since it was opened; those of the operator have none.
Origins ==
    /\ \A q \in PaneIds : pane[q] = "unborn" => maker[q] = NoOne
    /\ \A q \in Foreign : pane[q] # "unborn" /\ maker[q] = NoOne

\* The records and the copies of them that a launch and a release hold.
Owned ==
    /\ \A d \in Dispatches : Makes(d, disp[d]) /\ Makes(d, launch[d].copy)
    /\ Makes(clean.d, clean.copy)

\* A launch in progress has not made its dispatch live. A cleanup is of a dispatch that is not
\* live, unless it is a forced release or looked while the launch still ran; doctor has a copy
\* of a dead attempt.
Calm ==
    /\ \A d \in Dispatches :
          launch[d].at # "idle" => /\ launch[d].copy.state = "starting"
                                  /\ disp[d].state # "dispatched"
    /\ clean.at = "idle" => clean = NoCleanup
    /\ clean.at # "idle" => /\ clean.d \in Dispatches /\ Created(clean.d)
                            /\ clean.early \/ launch[clean.d].at = "idle"
                            /\ \/ clean.early \/ clean.force
                               \/ disp[clean.d].state # "dispatched"
    /\ clean.at \in {"listed", "shut"} =>
          /\ ~clean.force /\ clean.copy.supervised
          /\ clean.copy.state \in {"abandoned", "superseded"}

PanesInv == TypeOK /\ Origins /\ Owned /\ Calm /\ ForeignPanesStay

\* The release that is about to close a pane has its transcript.
ReadFirst ==
    clean.at = "read" /\ clean.copy.supervised /\ Open(clean.copy.pane) => clean.d \in saved

-----------------------------------------------------------------------------
LEMMA InitPanes == Init => PanesInv
<1> SUFFICES ASSUME Init PROVE PanesInv
  OBVIOUS
<1> USE NoOneIsNoId, ForeignArePanes DEF Init
<1>1. NoDispatch \in DispatchRecord
  BY DEF NoDispatch, DispatchRecord, States
<1>2. TypeOK
  BY <1>1 DEF TypeOK, Idle, NoCleanup, LaunchSteps, CleanSteps, Closers
<1>3. Origins
  BY DEF Origins
<1>4. Owned
  BY DEF Owned, Makes, NoDispatch, Idle, NoCleanup
<1>5. Calm
  BY DEF Calm, NoCleanup, Idle
<1>6. ForeignPanesStay
  BY DEF ForeignPanesStay
<1> QED BY <1>2, <1>3, <1>4, <1>5, <1>6 DEF PanesInv

\* The updates of a record, and of the variables that hold records.
LEMMA Updates ==
    ASSUME NEW r \in DispatchRecord
    PROVE  /\ r.state \in States /\ r.pane \in PaneIds \cup {NoOne}
           /\ r.supervised \in BOOLEAN /\ r.released \in BOOLEAN
           /\ \A s \in States : /\ [r EXCEPT !.state = s] \in DispatchRecord
                                /\ [r EXCEPT !.released = TRUE, !.state = s] \in DispatchRecord
           /\ [r EXCEPT !.released = TRUE] \in DispatchRecord
           /\ [r EXCEPT !.retained = TRUE] \in DispatchRecord
           /\ \A q \in PaneIds : [r EXCEPT !.pane = q] \in DispatchRecord
  BY DEF DispatchRecord

LEMMA NoRecord ==
    /\ NoDispatch \in DispatchRecord
    /\ \A t \in Tasks, b \in BOOLEAN :
          [NoDispatch EXCEPT !.state = "starting", !.task = t, !.supervised = b]
             \in DispatchRecord
  BY DEF NoDispatch, DispatchRecord, States

Cleanups == [at: CleanSteps, d: Dispatches \cup {NoOne}, force: BOOLEAN, early: BOOLEAN,
             copy: DispatchRecord]

LEMMA NoCleanupType == NoCleanup \in Cleanups
  BY NoRecord DEF NoCleanup, Cleanups, CleanSteps

RecordsOK == /\ disp \in [Dispatches -> DispatchRecord]
             /\ launch \in [Dispatches -> [at: LaunchSteps, copy: DispatchRecord]]
             /\ clean.copy \in DispatchRecord

LEMMA RecordTypes == TypeOK => RecordsOK
  BY DEF TypeOK, RecordsOK

LEMMA SaveType ==
    ASSUME RecordsOK, NEW d \in Dispatches, NEW r \in DispatchRecord, Save(d, r)
    PROVE  disp' \in [Dispatches -> DispatchRecord]
  BY DEF RecordsOK, Save

LEMMA LaunchType ==
    ASSUME RecordsOK, NEW d \in Dispatches
    PROVE  /\ launch[d].copy \in DispatchRecord
           /\ \A step \in LaunchSteps, r \in DispatchRecord :
                 LaunchTo(d, step, r)
                    => launch' \in [Dispatches -> [at: LaunchSteps, copy: DispatchRecord]]
           /\ LaunchEnds(d)
                 => launch' \in [Dispatches -> [at: LaunchSteps, copy: DispatchRecord]]
<1>1. Idle \in [at: LaunchSteps, copy: DispatchRecord]
  BY NoRecord DEF Idle, LaunchSteps
<1>2. \A step \in LaunchSteps, r \in DispatchRecord :
         [at |-> step, copy |-> r] \in [at: LaunchSteps, copy: DispatchRecord]
  OBVIOUS
<1> QED BY <1>1, <1>2 DEF RecordsOK, LaunchTo, LaunchEnds

LEMMA CloseType ==
    ASSUME TypeOK, NEW q, NEW by \in Closers, Close(q, by)
    PROVE  pane' \in [PaneIds -> {"unborn", "open"} \cup Closers]
  BY DEF TypeOK, Close

\* Whatever a step does, it keeps the types.
LEMMA TypeStep == ASSUME TypeOK, Next PROVE TypeOK'
<1>r. RecordsOK
  BY RecordTypes
<1>1. ASSUME NEW d \in Dispatches, NEW t \in Tasks, NEW attach \in BOOLEAN, Start(d, t, attach)
      PROVE  TypeOK'
  <2> DEFINE r == [NoDispatch EXCEPT !.state = "starting", !.task = t, !.supervised = ~attach]
  <2>1. r \in DispatchRecord
    BY NoRecord
  <2>2. LaunchTo(d, "record", r)
    BY <1>1 DEF Start
  <2>3. launch' \in [Dispatches -> [at: LaunchSteps, copy: DispatchRecord]]
    BY <1>r, <2>1, <2>2, LaunchType DEF LaunchSteps
  <2>4. \A e \in Dispatches : [disp[e] EXCEPT !.state = "superseded"] \in DispatchRecord
    BY <1>r, Updates DEF RecordsOK, States
  <2>5. disp' = [e \in Dispatches |->
                    IF e = d THEN r
                    ELSE IF disp[e].task = t /\ Live(disp[e])
                         THEN [disp[e] EXCEPT !.state = "superseded"] ELSE disp[e]]
    BY <1>1 DEF Start
  <2> HIDE DEF r
  <2>6. disp' \in [Dispatches -> DispatchRecord]
    BY <1>r, <2>1, <2>4, <2>5 DEF RecordsOK
  <2> QED BY <1>1, <2>3, <2>6 DEF TypeOK, Start
<1>2. ASSUME NEW d \in Dispatches, NEW q \in PaneIds, StartPlaces(d, q) PROVE TypeOK'
  <2> DEFINE r == [launch[d].copy EXCEPT !.pane = q]
  <2>1. r \in DispatchRecord
    BY <1>r, LaunchType, Updates
  <2>2. Save(d, r) /\ LaunchTo(d, "pane", r)
    BY <1>2 DEF StartPlaces
  <2> HIDE DEF r
  <2>3. launch' \in [Dispatches -> [at: LaunchSteps, copy: DispatchRecord]]
    BY <1>r, <2>1, <2>2, LaunchType DEF LaunchSteps
  <2>4. disp' \in [Dispatches -> DispatchRecord]
    BY <1>r, <2>1, <2>2, SaveType
  <2>5. /\ pane' \in [PaneIds -> {"unborn", "open"} \cup Closers]
        /\ maker' \in [PaneIds -> Dispatches \cup {NoOne}]
    BY <1>2 DEF StartPlaces, TypeOK
  <2> QED BY <1>2, <2>3, <2>4, <2>5 DEF TypeOK, StartPlaces
<1>3. ASSUME NEW d \in Dispatches,
             StartAgentFails(d) \/ StartDies(d)
      PROVE  TypeOK'
  BY <1>3, <1>r, LaunchType DEF StartAgentFails, StartDies, TypeOK
<1>4. ASSUME NEW d \in Dispatches, StartPrompts(d) PROVE TypeOK'
  BY <1>4, <1>r, LaunchType DEF StartPrompts, TypeOK, LaunchSteps, Open
<1>5. ASSUME NEW d \in Dispatches, NEW closes \in BOOLEAN,
             StartUndelivered(d, closes) \/ StartPlaceFails(d) \/ StartCommits(d)
      PROVE  TypeOK'
  <2>1. \A s \in States : [launch[d].copy EXCEPT !.state = s] \in DispatchRecord
    BY <1>r, LaunchType, Updates
  <2>2. disp' \in [Dispatches -> DispatchRecord]
    BY <1>5, <1>r, <2>1, SaveType
       DEF StartUndelivered, StartPlaceFails, StartCommits, States
  <2>3. launch' \in [Dispatches -> [at: LaunchSteps, copy: DispatchRecord]]
    BY <1>5, <1>r, LaunchType DEF StartUndelivered, StartPlaceFails, StartCommits
  <2>4. pane' \in [PaneIds -> {"unborn", "open"} \cup Closers]
    BY <1>5, CloseType
       DEF StartUndelivered, StartPlaceFails, StartCommits, TypeOK, Closers
  <2> QED BY <1>5, <2>2, <2>3, <2>4
          DEF StartUndelivered, StartPlaceFails, StartCommits, TypeOK
<1>6. ASSUME NEW q \in PaneIds, Heartbeat(q) PROVE TypeOK'
  BY <1>6 DEF Heartbeat, TypeOK
<1>7. ASSUME NEW q \in PaneIds, Done(q) PROVE TypeOK'
  <2>1. maker[q] \in Dispatches
    BY <1>7 DEF Done, TypeOK
  <2>2. [disp[maker[q]] EXCEPT !.state = "settled"] \in DispatchRecord
    BY <1>r, <2>1, Updates DEF RecordsOK, States
  <2>3. disp' \in [Dispatches -> DispatchRecord]
    BY <1>7, <1>r, <2>1, <2>2, SaveType DEF Done
  <2> QED BY <1>7, <2>3 DEF Done, TypeOK
<1>8. ASSUME NEW q \in PaneIds, UserCloses(q) PROVE TypeOK'
  BY <1>8, CloseType DEF UserCloses, TypeOK, Closers
<1>9. ASSUME NEW q \in PaneIds, PaneClosedHook(q) PROVE TypeOK'
  <2>1. \A d \in Dispatches : [disp[d] EXCEPT !.state = "abandoned"] \in DispatchRecord
    BY <1>r, Updates DEF RecordsOK, States
  <2>2. disp' \in [Dispatches -> DispatchRecord]
    BY <1>9, <1>r, <2>1 DEF PaneClosedHook, RecordsOK
  <2> QED BY <1>9, <2>2 DEF PaneClosedHook, TypeOK
<1>10. ASSUME NEW d \in Dispatches,
              WaitVanished(d) \/ Cancel(d) \/ Retain(d) \/ DoctorOrphan(d)
       PROVE  TypeOK'
  <2>1. /\ \A s \in States : [disp[d] EXCEPT !.state = s] \in DispatchRecord
        /\ [disp[d] EXCEPT !.retained = TRUE] \in DispatchRecord
    BY <1>r, Updates DEF RecordsOK
  <2>2. disp' \in [Dispatches -> DispatchRecord]
    BY <1>10, <1>r, <2>1, SaveType DEF WaitVanished, Cancel, Retain, DoctorOrphan, States
  <2> QED BY <1>10, <2>2 DEF WaitVanished, Cancel, Retain, DoctorOrphan, TypeOK
<1>11. ASSUME NEW d \in Dispatches, NEW step \in CleanSteps, NEW force \in BOOLEAN,
              CleanBegins(d, step, force)
       PROVE  clean' \in Cleanups
  BY <1>11, <1>r DEF CleanBegins, LaunchAt, RecordsOK, Cleanups
<1>12. ASSUME NEW d \in Dispatches, NEW force \in BOOLEAN,
              ReleaseReads(d, force) \/ DoctorLists(d)
       PROVE  TypeOK'
  <2>1. clean' \in Cleanups
    BY <1>11, <1>12 DEF ReleaseReads, DoctorLists, CleanSteps
  <2> QED BY <1>12, <2>1 DEF ReleaseReads, DoctorLists, TypeOK, Cleanups
<1>13. ASSUME NEW q \in PaneIds, ReleaseHere(q) PROVE TypeOK'
  BY <1>12, <1>13 DEF ReleaseHere
<1>14. ASSUME NEW closes \in BOOLEAN, ReleaseCloses(closes) \/ DoctorShuts PROVE TypeOK'
  <2>1. pane' \in [PaneIds -> {"unborn", "open"} \cup Closers]
    BY <1>14, CloseType DEF ReleaseCloses, DoctorShuts, TypeOK, Closers
  <2>2. clean' \in Cleanups
    BY <1>14 DEF ReleaseCloses, DoctorShuts, CleanTo, CleanSteps, TypeOK, Cleanups
  <2> QED BY <1>14, <2>1, <2>2 DEF ReleaseCloses, DoctorShuts, TypeOK, Cleanups
<1>15. CASE CleanCrashes \/ DoctorSkips
  BY <1>15, NoCleanupType DEF CleanCrashes, DoctorSkips, TypeOK, Cleanups
<1>16. CASE ReleaseSaves \/ DoctorSaves
  <2> DEFINE s == IF clean.copy.state = "settled" THEN "settled" ELSE "abandoned"
  <2>1. /\ [clean.copy EXCEPT !.released = TRUE, !.state = s] \in DispatchRecord
        /\ [clean.copy EXCEPT !.released = TRUE] \in DispatchRecord
    BY <1>r, Updates DEF RecordsOK, States
  <2>2. \/ Save(clean.d, [clean.copy EXCEPT !.released = TRUE, !.state = s])
        \/ Save(clean.d, [clean.copy EXCEPT !.released = TRUE])
    BY <1>r, <1>16 DEF ReleaseSaves, DoctorSaves, RecordsOK, DispatchRecord
  <2>3. disp' \in [Dispatches -> DispatchRecord]
    BY <1>r, <2>1, <2>2 DEF RecordsOK, Save
  <2> QED BY <1>16, <2>3, NoCleanupType DEF ReleaseSaves, DoctorSaves, TypeOK, Cleanups
<1> QED BY <1>1, <1>2, <1>3, <1>4, <1>5, <1>6, <1>7, <1>8, <1>9, <1>10, <1>12, <1>13, <1>14,
           <1>15, <1>16
        DEF Next, Launch, Release, Doctor

-----------------------------------------------------------------------------
(* How a step moves the panes and their makers                             *)

Opens ==
    \A q \in PaneIds :
       /\ maker'[q] # maker[q] => pane[q] = "unborn" /\ pane'[q] = "open"
       /\ pane'[q] = "unborn" => pane[q] = "unborn"
       /\ pane'[q] = "open" => pane[q] \in {"unborn", "open"}

\* Steps that may close a pane, and steps that leave all as they are.
LEMMA ClosingOpens ==
    ASSUME TypeOK, NEW q, NEW by \in Closers, Close(q, by) \/ UNCHANGED pane, UNCHANGED maker
    PROVE  Opens
  BY DEF Opens, TypeOK, Close, Open, Closers

LEMMA OpensStep == ASSUME TypeOK, Next PROVE Opens
<1>1. ASSUME NEW d \in Dispatches, NEW q \in PaneIds, StartPlaces(d, q) PROVE Opens
  BY <1>1 DEF StartPlaces, Opens, TypeOK
<1>2. ASSUME UNCHANGED <<pane, maker>> PROVE Opens
  BY <1>2 DEF Opens
<1>3. ASSUME NEW d \in Dispatches, NEW closes \in BOOLEAN, StartUndelivered(d, closes)
      PROVE  Opens
  BY <1>3, ClosingOpens DEF StartUndelivered, Closers
<1>4. ASSUME NEW q \in PaneIds, UserCloses(q) PROVE Opens
  BY <1>4, ClosingOpens DEF UserCloses, Closers
<1>5. ASSUME NEW closes \in BOOLEAN, ReleaseCloses(closes) \/ DoctorShuts PROVE Opens
  BY <1>5, ClosingOpens DEF ReleaseCloses, DoctorShuts, Closers
<1>6. ASSUME NEW d \in Dispatches,
             \/ \E t \in Tasks, attach \in BOOLEAN : Start(d, t, attach)
             \/ StartPlaceFails(d) \/ StartAgentFails(d) \/ StartPrompts(d) \/ StartCommits(d)
             \/ StartDies(d) \/ WaitVanished(d) \/ Cancel(d) \/ Retain(d) \/ DoctorOrphan(d)
      PROVE  Opens
  BY <1>2, <1>6 DEF Start, StartPlaceFails, StartAgentFails, StartPrompts, StartCommits,
                    StartDies, WaitVanished, Cancel, Retain, DoctorOrphan
<1>7. ASSUME NEW q \in PaneIds, Heartbeat(q) \/ Done(q) \/ PaneClosedHook(q) PROVE Opens
  BY <1>2, <1>7 DEF Heartbeat, Done, PaneClosedHook
<1>8. ASSUME NEW d \in Dispatches, NEW force \in BOOLEAN,
             ReleaseReads(d, force) \/ DoctorLists(d)
      PROVE  Opens
  BY <1>2, <1>8 DEF ReleaseReads, DoctorLists
<1>9. ASSUME NEW q \in PaneIds, ReleaseHere(q) PROVE Opens
  BY <1>8, <1>9 DEF ReleaseHere
<1>10. CASE ReleaseSaves \/ CleanCrashes \/ DoctorSkips \/ DoctorSaves
  BY <1>2, <1>10 DEF ReleaseSaves, CleanCrashes, DoctorSkips, DoctorSaves
<1> QED BY <1>1, <1>3, <1>4, <1>5, <1>6, <1>7, <1>8, <1>9, <1>10
        DEF Next, Launch, Release, Doctor

\* A pane keeps the maker it has, and the panes of the operator get none.
LEMMA OriginsStep ==
    ASSUME TypeOK, Origins, Opens
    PROVE  /\ Origins'
           /\ \A q \in PaneIds : maker[q] # NoOne => maker'[q] = maker[q]
  BY ForeignArePanes DEF TypeOK, Origins, Opens

-----------------------------------------------------------------------------
(* How a step moves the records                                            *)

\* r names the pane that was made for d, also after the step.
Stays(d, r) == r.supervised /\ r.pane # NoOne => maker'[r.pane] = d

LEMMA OwnedStays ==
    ASSUME TypeOK, Origins, Owned, Calm, Opens
    PROVE  /\ \A e \in Dispatches : Stays(e, disp[e]) /\ Stays(e, launch[e].copy)
           /\ Stays(clean.d, clean.copy)
<1>1. \A q \in PaneIds : maker[q] # NoOne => maker'[q] = maker[q]
  BY OriginsStep
<1>2. \A e \in Dispatches, r \in DispatchRecord : Makes(e, r) => Stays(e, r)
  BY <1>1, NoOneIsNoId DEF Makes, Stays, DispatchRecord
<1>3. \A e \in Dispatches : disp[e] \in DispatchRecord /\ launch[e].copy \in DispatchRecord
  BY DEF TypeOK
<1>4. Stays(clean.d, clean.copy)
  <2>1. CASE clean.at = "idle"
    BY <2>1 DEF Calm, NoCleanup, NoDispatch, Stays
  <2>2. CASE clean.at # "idle"
    BY <1>2, <2>2 DEF Calm, Owned, TypeOK
  <2> QED BY <2>1, <2>2
<1> QED BY <1>2, <1>3, <1>4 DEF Owned

LEMMA OwnedStep == ASSUME TypeOK, Origins, Owned, Calm, Opens, Next PROVE Owned'
<1>r. RecordsOK
  BY RecordTypes
<1>s. /\ \A e \in Dispatches : Stays(e, disp[e]) /\ Stays(e, launch[e].copy)
      /\ Stays(clean.d, clean.copy)
  BY OwnedStays
<1>i. \A e \in Dispatches : Stays(e, NoDispatch)
  BY DEF Stays, NoDispatch
<1>d. ASSUME \A e \in Dispatches : Stays(e, disp'[e]) /\ Stays(e, launch'[e].copy),
             Stays(clean'.d, clean'.copy)
      PROVE  Owned'
  BY <1>d DEF Owned, Makes, Stays
<1>e. ASSUME NEW d \in Dispatches, LaunchEnds(d)
      PROVE  \A e \in Dispatches : Stays(e, launch'[e].copy)
  BY <1>e, <1>s, <1>i, <1>r DEF LaunchEnds, RecordsOK, Idle
<1>f. ASSUME NEW d \in Dispatches, NEW r \in DispatchRecord, Stays(d, r), Save(d, r)
      PROVE  \A e \in Dispatches : Stays(e, disp'[e])
  BY <1>f, <1>s, <1>r DEF Save, RecordsOK
<1>g. ASSUME NEW d \in Dispatches, NEW r \in DispatchRecord, Stays(d, r), NEW s \in States,
             NEW u \in {[r EXCEPT !.state = s], [r EXCEPT !.released = TRUE],
                        [r EXCEPT !.retained = TRUE],
                        [r EXCEPT !.released = TRUE, !.state = s]},
             Save(d, u)
      PROVE  \A e \in Dispatches : Stays(e, disp'[e])
  <2>1. u \in DispatchRecord
    BY Updates
  <2>2. u.pane = r.pane /\ u.supervised = r.supervised
    BY DEF DispatchRecord
  <2>3. Stays(d, u)
    BY <1>g, <2>2 DEF Stays
  <2> QED BY <1>f, <1>g, <2>1, <2>3
<1>1. ASSUME NEW d \in Dispatches, NEW t \in Tasks, NEW attach \in BOOLEAN, Start(d, t, attach)
      PROVE  Owned'
  <2> DEFINE r == [NoDispatch EXCEPT !.state = "starting", !.task = t, !.supervised = ~attach]
  <2>1. Stays(d, r)
    BY DEF Stays, NoDispatch
  <2>2. \A e \in Dispatches : Stays(e, [disp[e] EXCEPT !.state = "superseded"])
    BY <1>r, <1>s DEF RecordsOK, DispatchRecord, Stays
  <2> HIDE DEF r
  <2>3. disp' = [e \in Dispatches |->
                    IF e = d THEN r
                    ELSE IF disp[e].task = t /\ Live(disp[e])
                         THEN [disp[e] EXCEPT !.state = "superseded"] ELSE disp[e]]
    BY <1>1 DEF Start, r
  <2>4. \A e \in Dispatches : Stays(e, disp'[e])
    BY <1>s, <2>1, <2>2, <2>3
  <2>5. LaunchTo(d, "record", r) /\ clean' = clean
    BY <1>1 DEF Start, r
  <2>6. \A e \in Dispatches : Stays(e, launch'[e].copy)
    BY <1>r, <1>s, <2>1, <2>5 DEF LaunchTo, RecordsOK
  <2> QED BY <1>d, <1>s, <2>4, <2>5, <2>6
<1>2. ASSUME NEW d \in Dispatches, NEW q \in PaneIds, StartPlaces(d, q) PROVE Owned'
  <2> DEFINE r == [launch[d].copy EXCEPT !.pane = q]
  <2>1. r \in DispatchRecord
    BY <1>r, LaunchType, Updates
  <2>2. Stays(d, r)
    BY <1>2, <1>r DEF StartPlaces, Stays, RecordsOK, DispatchRecord, TypeOK
  <2>3. Save(d, r) /\ LaunchTo(d, "pane", r) /\ clean' = clean
    BY <1>2 DEF StartPlaces
  <2> HIDE DEF r
  <2>4. \A e \in Dispatches : Stays(e, disp'[e])
    BY <1>f, <2>1, <2>2, <2>3
  <2>5. \A e \in Dispatches : Stays(e, launch'[e].copy)
    BY <1>r, <1>s, <2>2, <2>3 DEF LaunchTo, RecordsOK
  <2> QED BY <1>d, <1>s, <2>3, <2>4, <2>5
<1>3. ASSUME NEW d \in Dispatches, StartAgentFails(d) \/ StartDies(d) PROVE Owned'
  BY <1>3, <1>d, <1>e, <1>s DEF StartAgentFails, StartDies
<1>4. ASSUME NEW d \in Dispatches, StartPrompts(d) PROVE Owned'
  BY <1>4, <1>d, <1>r, <1>s DEF StartPrompts, LaunchTo, RecordsOK
<1>5. ASSUME NEW d \in Dispatches, NEW closes \in BOOLEAN,
             StartUndelivered(d, closes) \/ StartPlaceFails(d) \/ StartCommits(d)
      PROVE  Owned'
  <2>1. LaunchEnds(d) /\ clean' = clean
    BY <1>5 DEF StartUndelivered, StartPlaceFails, StartCommits
  <2>2. launch[d].copy \in DispatchRecord
    BY <1>r DEF RecordsOK
  <2>3. PICK s \in States : Save(d, [launch[d].copy EXCEPT !.state = s])
    BY <1>5 DEF StartUndelivered, StartPlaceFails, StartCommits, States
  <2> QED BY <1>d, <1>e, <1>g, <1>s, <2>1, <2>2, <2>3
<1>6. ASSUME NEW q \in PaneIds, Heartbeat(q) \/ UserCloses(q) PROVE Owned'
  BY <1>6, <1>d, <1>s DEF Heartbeat, UserCloses
<1>7. ASSUME NEW q \in PaneIds, Done(q) PROVE Owned'
  <2>1. maker[q] \in Dispatches
    BY <1>7 DEF Done, TypeOK
  <2>2. disp[maker[q]] \in DispatchRecord
    BY <1>r, <2>1 DEF RecordsOK
  <2>3. Save(maker[q], [disp[maker[q]] EXCEPT !.state = "settled"]) /\ UNCHANGED <<launch, clean>>
    BY <1>7 DEF Done
  <2>4. \A e \in Dispatches : Stays(e, disp'[e])
    BY <1>g, <1>s, <2>1, <2>2, <2>3 DEF States
  <2> QED BY <1>d, <1>s, <2>3, <2>4
<1>8. ASSUME NEW q \in PaneIds, PaneClosedHook(q) PROVE Owned'
  <2>1. \A e \in Dispatches : Stays(e, [disp[e] EXCEPT !.state = "abandoned"])
    BY <1>r, <1>s DEF RecordsOK, DispatchRecord, Stays
  <2>2. \A e \in Dispatches : Stays(e, disp'[e])
    BY <1>8, <1>s, <2>1 DEF PaneClosedHook
  <2> QED BY <1>8, <1>d, <1>s, <2>2 DEF PaneClosedHook
<1>9. ASSUME NEW d \in Dispatches,
             WaitVanished(d) \/ Cancel(d) \/ Retain(d) \/ DoctorOrphan(d)
      PROVE  Owned'
  <2>1. disp[d] \in DispatchRecord
    BY <1>r DEF RecordsOK
  <2>2. PICK s \in States : \/ Save(d, [disp[d] EXCEPT !.state = s])
                            \/ Save(d, [disp[d] EXCEPT !.retained = TRUE])
    BY <1>9 DEF WaitVanished, Cancel, Retain, DoctorOrphan, States
  <2>3. \A e \in Dispatches : Stays(e, disp'[e])
    BY <1>g, <1>s, <2>1, <2>2
  <2> QED BY <1>9, <1>d, <1>s, <2>3 DEF WaitVanished, Cancel, Retain, DoctorOrphan
<1>10. ASSUME NEW d \in Dispatches, NEW force \in BOOLEAN,
              ReleaseReads(d, force) \/ DoctorLists(d)
       PROVE  Owned'
  <2>1. clean'.d = d /\ clean'.copy = disp[d] /\ UNCHANGED <<disp, launch>>
    BY <1>10 DEF ReleaseReads, DoctorLists, CleanBegins
  <2> QED BY <1>d, <1>s, <2>1
<1>11. ASSUME NEW q \in PaneIds, ReleaseHere(q) PROVE Owned'
  BY <1>10, <1>11 DEF ReleaseHere
<1>12. ASSUME NEW closes \in BOOLEAN, ReleaseCloses(closes) \/ DoctorShuts PROVE Owned'
  BY <1>12, <1>d, <1>s DEF ReleaseCloses, DoctorShuts, CleanTo, TypeOK
<1>13. CASE CleanCrashes \/ DoctorSkips
  BY <1>13, <1>d, <1>s DEF CleanCrashes, DoctorSkips, NoCleanup, NoDispatch, Stays
<1>14. CASE ReleaseSaves \/ DoctorSaves
  <2> DEFINE s == IF clean.copy.state = "settled" THEN "settled" ELSE "abandoned"
  <2>1. \/ Save(clean.d, [clean.copy EXCEPT !.released = TRUE, !.state = s])
        \/ Save(clean.d, [clean.copy EXCEPT !.released = TRUE])
    BY <1>r, <1>14 DEF ReleaseSaves, DoctorSaves, RecordsOK, DispatchRecord
  <2>2. s \in States /\ clean.d \in Dispatches /\ clean.copy \in DispatchRecord
    BY <1>r, <1>14 DEF ReleaseSaves, DoctorSaves, Calm, RecordsOK, States
  <2> HIDE DEF s
  <2>3. \A e \in Dispatches : Stays(e, disp'[e])
    BY <1>g, <1>s, <2>1, <2>2
  <2>4. clean'.copy.pane = NoOne /\ UNCHANGED launch
    BY <1>14 DEF ReleaseSaves, DoctorSaves, NoCleanup, NoDispatch
  <2> QED BY <1>d, <1>s, <2>3, <2>4 DEF Stays
<1> QED BY <1>1, <1>2, <1>3, <1>4, <1>5, <1>6, <1>7, <1>8, <1>9, <1>10, <1>11, <1>12, <1>13,
           <1>14
        DEF Next, Launch, Release, Doctor

LEMMA CalmStep == ASSUME TypeOK, Calm, Next PROVE Calm'
<1>r. RecordsOK
  BY RecordTypes
\* Steps that save records without making a dispatch live, and leave the cleanup alone.
<1>s. ASSUME clean' = clean,
             \A e \in Dispatches :
                /\ disp[e].state # "none" => disp'[e].state # "none"
                /\ disp'[e].state = "dispatched" => disp[e].state = "dispatched",
             \A e \in Dispatches : launch'[e] = launch[e] \/ launch'[e].at = "idle"
      PROVE  Calm'
  BY <1>s DEF Calm, Created
<1>f. ASSUME NEW d \in Dispatches, NEW r, Save(d, r), r.state # "none",
             r.state # "dispatched" \/ r.state = disp[d].state
      PROVE  \A e \in Dispatches :
                /\ disp[e].state # "none" => disp'[e].state # "none"
                /\ disp'[e].state = "dispatched" => disp[e].state = "dispatched"
  BY <1>f, <1>r DEF Save, RecordsOK
<1>e. ASSUME NEW d \in Dispatches, LaunchEnds(d)
      PROVE  \A e \in Dispatches : launch'[e] = launch[e] \/ launch'[e].at = "idle"
  BY <1>e, <1>r DEF LaunchEnds, RecordsOK, Idle
<1>1. ASSUME NEW d \in Dispatches, NEW t \in Tasks, NEW attach \in BOOLEAN, Start(d, t, attach)
      PROVE  Calm'
  <2>1. /\ \A e \in Dispatches \ {d} : launch'[e] = launch[e]
        /\ launch'[d].copy.state = "starting"
    BY <1>1, <1>r DEF Start, LaunchTo, RecordsOK, NoDispatch
  <2>2. /\ disp'[d].state = "starting" /\ clean' = clean
        /\ ~Created(d)
    BY <1>1 DEF Start, NoDispatch
  <2>3. \A e \in Dispatches \ {d} :
           /\ disp[e].state # "none" => disp'[e].state # "none"
           /\ disp'[e].state = "dispatched" => disp[e].state = "dispatched"
    BY <1>1, <1>r DEF Start, RecordsOK, DispatchRecord
  <2> QED BY <2>1, <2>2, <2>3 DEF Calm, Created
<1>2. ASSUME NEW d \in Dispatches, NEW q \in PaneIds, StartPlaces(d, q) PROVE Calm'
  <2> DEFINE r == [launch[d].copy EXCEPT !.pane = q]
  <2>1. r.state = "starting" /\ launch[d].at # "idle"
    BY <1>2, <1>r DEF StartPlaces, LaunchAt, RecordsOK, DispatchRecord, Calm
  <2>2. Save(d, r) /\ LaunchTo(d, "pane", r) /\ clean' = clean
    BY <1>2 DEF StartPlaces
  <2> HIDE DEF r
  <2>3. /\ \A e \in Dispatches \ {d} : launch'[e] = launch[e] /\ disp'[e] = disp[e]
        /\ launch'[d].copy.state = "starting" /\ disp'[d].state = "starting"
    BY <1>r, <2>1, <2>2 DEF Save, LaunchTo, RecordsOK
  <2> QED BY <2>1, <2>2, <2>3 DEF Calm, Created
<1>3. ASSUME NEW d \in Dispatches, StartAgentFails(d) \/ StartDies(d) PROVE Calm'
  BY <1>3, <1>e, <1>s DEF StartAgentFails, StartDies
<1>4. ASSUME NEW d \in Dispatches, StartPrompts(d) PROVE Calm'
  <2>1. /\ \A e \in Dispatches : /\ launch'[e].copy = launch[e].copy
                                 /\ launch[e].at = "idle" => launch'[e].at = "idle"
        /\ disp' = disp /\ clean' = clean
    BY <1>4, <1>r DEF StartPrompts, LaunchAt, LaunchTo, RecordsOK
  <2> QED BY <2>1 DEF Calm, Created
<1>5. ASSUME NEW d \in Dispatches, NEW closes \in BOOLEAN,
             StartUndelivered(d, closes) \/ StartPlaceFails(d)
      PROVE  Calm'
  <2>1. PICK s \in {"abandoned", "superseded"} : Save(d, [launch[d].copy EXCEPT !.state = s])
    BY <1>5 DEF StartUndelivered, StartPlaceFails
  <2>2. [launch[d].copy EXCEPT !.state = s].state = s
    BY <1>r DEF RecordsOK, DispatchRecord
  <2>3. LaunchEnds(d) /\ clean' = clean
    BY <1>5 DEF StartUndelivered, StartPlaceFails
  <2> QED BY <1>e, <1>f, <1>s, <2>1, <2>2, <2>3
<1>6. ASSUME NEW d \in Dispatches, StartCommits(d) PROVE Calm'
  <2>1. launch[d].at # "idle" /\ clean' = clean
    BY <1>6 DEF StartCommits, LaunchAt
  <2>2. disp'[d].state = "dispatched" /\ \A e \in Dispatches \ {d} : disp'[e] = disp[e]
    BY <1>6, <1>r DEF StartCommits, Save, RecordsOK, DispatchRecord
  <2>3. launch'[d].at = "idle" /\ \A e \in Dispatches \ {d} : launch'[e] = launch[e]
    BY <1>6, <1>r DEF StartCommits, LaunchEnds, Idle, RecordsOK
  <2> QED BY <2>1, <2>2, <2>3 DEF Calm, Created
<1>7. ASSUME NEW q \in PaneIds, Heartbeat(q) \/ UserCloses(q) PROVE Calm'
  BY <1>7 DEF Heartbeat, UserCloses, Calm, Created
<1>8. ASSUME NEW q \in PaneIds, Done(q) PROVE Calm'
  <2>1. maker[q] \in Dispatches
    BY <1>8 DEF Done, TypeOK
  <2>2. [disp[maker[q]] EXCEPT !.state = "settled"].state = "settled"
    BY <1>r, <2>1 DEF RecordsOK, DispatchRecord
  <2>3. \A e \in Dispatches : /\ disp[e].state # "none" => disp'[e].state # "none"
                              /\ disp'[e].state = "dispatched" => disp[e].state = "dispatched"
    BY <1>8, <1>f, <2>1, <2>2 DEF Done
  <2>4. clean' = clean /\ \A e \in Dispatches : launch'[e] = launch[e]
    BY <1>8 DEF Done
  <2> QED BY <1>s, <2>3, <2>4
<1>9. ASSUME NEW q \in PaneIds, PaneClosedHook(q) PROVE Calm'
  <2>1. \A e \in Dispatches : /\ disp[e].state # "none" => disp'[e].state # "none"
                              /\ disp'[e].state = "dispatched" => disp[e].state = "dispatched"
    BY <1>9, <1>r DEF PaneClosedHook, RecordsOK, DispatchRecord
  <2> QED BY <1>9, <1>s, <2>1 DEF PaneClosedHook
<1>10. ASSUME NEW d \in Dispatches,
              WaitVanished(d) \/ Cancel(d) \/ Retain(d) \/ DoctorOrphan(d)
       PROVE  Calm'
  <2>1. PICK r \in {[disp[d] EXCEPT !.state = "abandoned"],
                    [disp[d] EXCEPT !.state = "superseded"],
                    [disp[d] EXCEPT !.retained = TRUE]} :
           Save(d, r) /\ disp[d].state # "none"
    BY <1>10 DEF WaitVanished, Cancel, Retain, DoctorOrphan, Created
  <2>2. r.state # "none" /\ (r.state # "dispatched" \/ r.state = disp[d].state)
    BY <1>r, <2>1 DEF RecordsOK, DispatchRecord
  <2>3. UNCHANGED <<launch, clean>>
    BY <1>10 DEF WaitVanished, Cancel, Retain, DoctorOrphan
  <2> QED BY <1>f, <1>s, <2>1, <2>2, <2>3
<1>11. ASSUME NEW d \in Dispatches, NEW force \in BOOLEAN, ReleaseReads(d, force) PROVE Calm'
  <2>1. /\ clean'.at = "read" /\ clean'.d = d /\ clean'.force = force
        /\ clean'.early \/ launch[d].at = "idle"
        /\ UNCHANGED <<disp, launch>>
    BY <1>11 DEF ReleaseReads, CleanBegins, LaunchAt
  <2> QED BY <1>11, <2>1 DEF ReleaseReads, Calm, Created
<1>12. ASSUME NEW d \in Dispatches, DoctorLists(d) PROVE Calm'
  <2>1. /\ clean'.at = "listed" /\ clean'.d = d /\ clean'.force = FALSE
        /\ clean'.early \/ launch[d].at = "idle"
        /\ clean'.copy = disp[d] /\ disp[d].state \in {"abandoned", "superseded"}
        /\ disp[d].supervised /\ disp' = disp /\ launch' = launch
    BY <1>12 DEF DoctorLists, CleanBegins, LaunchAt
  <2> QED BY <2>1 DEF Calm, Created
<1>13. ASSUME NEW q \in PaneIds, ReleaseHere(q) PROVE Calm'
  BY <1>11, <1>13 DEF ReleaseHere
<1>14. ASSUME NEW closes \in BOOLEAN, ReleaseCloses(closes) \/ DoctorShuts PROVE Calm'
  <2>1. /\ \/ clean.at = "read" /\ clean'.at = "closed"
           \/ clean.at = "listed" /\ clean'.at = "shut"
        /\ clean'.d = clean.d /\ clean'.force = clean.force /\ clean'.early = clean.early
        /\ clean'.copy = clean.copy
        /\ disp' = disp /\ launch' = launch
    BY <1>14 DEF ReleaseCloses, DoctorShuts, CleanTo, TypeOK
  <2> QED BY <2>1 DEF Calm, Created
<1>15. CASE CleanCrashes \/ DoctorSkips
  BY <1>15 DEF CleanCrashes, DoctorSkips, NoCleanup, Calm
<1>16. CASE ReleaseSaves \/ DoctorSaves
  <2>1. PICK r : /\ r \in {[clean.copy EXCEPT !.released = TRUE, !.state = "settled"],
                            [clean.copy EXCEPT !.released = TRUE, !.state = "abandoned"],
                            [clean.copy EXCEPT !.released = TRUE]}
                 /\ Save(clean.d, r) /\ r.state # "dispatched"
    BY <1>16, <1>r DEF ReleaseSaves, DoctorSaves, RecordsOK, DispatchRecord, Calm
  <2>2. \A e \in Dispatches : disp'[e].state = "dispatched" => disp[e].state = "dispatched"
    BY <1>r, <2>1 DEF Save, RecordsOK
  <2>3. clean' = NoCleanup /\ launch' = launch
    BY <1>16 DEF ReleaseSaves, DoctorSaves
  <2> QED BY <2>2, <2>3 DEF NoCleanup, Calm
<1> QED BY <1>1, <1>2, <1>3, <1>4, <1>5, <1>6, <1>7, <1>8, <1>9, <1>10, <1>11, <1>12, <1>13,
           <1>14, <1>15, <1>16
        DEF Next, Launch, Release, Doctor

-----------------------------------------------------------------------------
(* What a step may close, and give up                                      *)

\* The pane of a record that may be closed is the one made for its dispatch.
LEMMA RecordsMaker ==
    ASSUME PanesInv
    PROVE  /\ \A d \in Dispatches :
                 launch[d].copy.supervised /\ Open(launch[d].copy.pane)
                    => maker[launch[d].copy.pane] = d
           /\ clean.copy.supervised /\ Open(clean.copy.pane) => maker[clean.copy.pane] = clean.d
  BY NoOneIsNoId DEF PanesInv, Owned, Makes, Open

\* The pane's own dispatch is not live, or the cleanup is one that is excepted.
Spared(q) == \/ disp[maker[q]].state # "dispatched"
             \/ clean.d = maker[q] /\ (clean.force \/ clean.early)
ByCleanup(q) == /\ pane'[q] = "cleanup"
                /\ maker[q] \in Dispatches
                /\ Spared(q)
ByRelease(q) == /\ pane'[q] = "release"
                /\ clean.at = "read" /\ clean.copy.pane = q /\ clean.copy.supervised
                /\ clean.d \in Dispatches /\ maker[q] = clean.d
                /\ Spared(q)

LEMMA ClosingStep ==
    ASSUME PanesInv, Next, NEW q \in PaneIds, pane'[q] # pane[q]
    PROVE  \/ pane[q] = "unborn" /\ pane'[q] = "open"
           \/ pane[q] = "open" /\ (pane'[q] = "user" \/ ByCleanup(q) \/ ByRelease(q))
<1> DEFINE Goal == \/ pane[q] = "unborn" /\ pane'[q] = "open"
                   \/ pane[q] = "open" /\ (pane'[q] = "user" \/ ByCleanup(q) \/ ByRelease(q))
<1>r. RecordsOK /\ TypeOK
  BY RecordTypes DEF PanesInv
<1>c. ASSUME NEW p, NEW by, Close(p, by)
      PROVE  p = q /\ Open(q) /\ pane[q] = "open" /\ pane'[q] = by
  BY <1>c, <1>r DEF Close, Open, TypeOK
<1>1. ASSUME NEW d \in Dispatches, NEW p \in PaneIds, StartPlaces(d, p) PROVE Goal
  BY <1>1, <1>r DEF StartPlaces, TypeOK
<1>2. ASSUME NEW d \in Dispatches, NEW closes \in BOOLEAN, StartUndelivered(d, closes) PROVE Goal
  <2>1. Close(launch[d].copy.pane, "cleanup") /\ launch[d].copy.supervised
    BY <1>2 DEF StartUndelivered
  <2>2. launch[d].copy.pane = q /\ Open(q) /\ pane[q] = "open" /\ pane'[q] = "cleanup"
    BY <1>c, <2>1
  <2>3. maker[q] = d
    BY <2>1, <2>2, RecordsMaker
  <2>4. disp[d].state # "dispatched"
    BY <1>2 DEF StartUndelivered, PanesInv, Calm
  <2> QED BY <2>2, <2>3, <2>4 DEF ByCleanup, Spared
<1>3. CASE DoctorShuts
  <2>1. clean.at = "listed" /\ clean.copy.supervised /\ Close(clean.copy.pane, "cleanup")
    BY <1>3 DEF DoctorShuts, PanesInv, Calm
  <2>2. clean.copy.pane = q /\ Open(q) /\ pane[q] = "open" /\ pane'[q] = "cleanup"
    BY <1>c, <2>1
  <2>3. maker[q] = clean.d
    BY <2>1, <2>2, RecordsMaker
  <2>4. clean.d \in Dispatches /\ Spared(q)
    BY <2>1, <2>3 DEF PanesInv, Calm, Spared
  <2> QED BY <2>2, <2>3, <2>4 DEF ByCleanup
<1>4. ASSUME NEW p \in PaneIds, UserCloses(p) PROVE Goal
  BY <1>4, <1>c DEF UserCloses
<1>5. ASSUME NEW closes \in BOOLEAN, ReleaseCloses(closes) PROVE Goal
  <2>1. Close(clean.copy.pane, "release") /\ clean.copy.supervised /\ clean.at = "read"
    BY <1>5 DEF ReleaseCloses
  <2>2. clean.copy.pane = q /\ Open(q) /\ pane[q] = "open" /\ pane'[q] = "release"
    BY <1>c, <2>1
  <2>3. maker[q] = clean.d
    BY <2>1, <2>2, RecordsMaker
  <2>4. clean.d \in Dispatches /\ Spared(q)
    BY <2>1, <2>3 DEF PanesInv, Calm, Spared
  <2> QED BY <2>1, <2>2, <2>3, <2>4 DEF ByRelease
<1>6. ASSUME NEW d \in Dispatches,
             \/ \E t \in Tasks, attach \in BOOLEAN : Start(d, t, attach)
             \/ StartPlaceFails(d) \/ StartAgentFails(d) \/ StartPrompts(d) \/ StartCommits(d)
             \/ StartDies(d) \/ WaitVanished(d) \/ Cancel(d) \/ Retain(d) \/ DoctorOrphan(d)
      PROVE  Goal
  BY <1>6 DEF Start, StartPlaceFails, StartAgentFails, StartPrompts, StartCommits,
              StartDies, WaitVanished, Cancel, Retain, DoctorOrphan
<1>7. ASSUME NEW p \in PaneIds, Heartbeat(p) \/ Done(p) \/ PaneClosedHook(p) PROVE Goal
  BY <1>7 DEF Heartbeat, Done, PaneClosedHook
<1>8. ASSUME NEW d \in Dispatches, NEW force \in BOOLEAN,
             ReleaseReads(d, force) \/ DoctorLists(d)
      PROVE  Goal
  BY <1>8 DEF ReleaseReads, DoctorLists
<1>9. ASSUME NEW p \in PaneIds, ReleaseHere(p) PROVE Goal
  BY <1>8, <1>9 DEF ReleaseHere
<1>10. CASE ReleaseSaves \/ CleanCrashes \/ DoctorSkips \/ DoctorSaves
  BY <1>10 DEF ReleaseSaves, CleanCrashes, DoctorSkips, DoctorSaves
<1> QED BY <1>1, <1>2, <1>3, <1>4, <1>5, <1>6, <1>7, <1>8, <1>9, <1>10
        DEF Next, Launch, Release, Doctor

LEMMA PanesStep == ASSUME PanesInv, [Next]_vars PROVE PanesInv'
<1>1. CASE UNCHANGED vars
  BY <1>1 DEF vars, PanesInv, TypeOK, Origins, Owned, Makes, Calm, Created, ForeignPanesStay
<1>2. CASE Next
  <2> USE <1>2
  <2>1. TypeOK' /\ Opens
    BY TypeStep, OpensStep DEF PanesInv
  <2>2. Origins' /\ Owned' /\ Calm'
    BY <2>1, OriginsStep, OwnedStep, CalmStep DEF PanesInv
  <2>3. \A q \in Foreign : pane'[q] # pane[q] => pane'[q] = "user"
    BY ClosingStep, ForeignArePanes, NoOneIsNoId DEF PanesInv, Origins, ByCleanup, ByRelease
  <2>4. ForeignPanesStay'
    BY <2>3 DEF PanesInv, ForeignPanesStay
  <2> QED BY <2>1, <2>2, <2>4 DEF PanesInv
<1> QED BY <1>1, <1>2

THEOREM PanesInvariant == Spec => []PanesInv
  BY InitPanes, PanesStep, PTL DEF Spec

\* Every record, copy and pane of a behaviour has its type.
THEOREM PanesTyped == Spec => []TypeOK
<1>1. PanesInv => TypeOK
  BY DEF PanesInv
<1> QED BY <1>1, PanesInvariant, PTL

\* No launch, retry, failure, release or repair, whatever crashes, closes a pane of the operator.
THEOREM ForeignStay == Spec => []ForeignPanesStay
<1>1. PanesInv => ForeignPanesStay
  BY DEF PanesInv
<1> QED BY <1>1, PanesInvariant, PTL

-----------------------------------------------------------------------------
(* The transcript, as long as Herdr lets release read the pane             *)

LEMMA ReadFirstStep ==
    ASSUME PanesInv, ReadFirst, Next, "read" \notin Faults
    PROVE  saved \subseteq saved' /\ ReadFirst'
<1> USE DEF ReadFirst
<1>o. \A q \in PaneIds : pane'[q] = "open" => pane[q] \in {"unborn", "open"}
  BY OpensStep DEF PanesInv, Opens
<1>1. ASSUME NEW d \in Dispatches, NEW force \in BOOLEAN, ReleaseReads(d, force)
      PROVE  saved \subseteq saved' /\ ReadFirst'
  BY <1>1 DEF ReleaseReads, CleanBegins, Open
<1>2. ASSUME NEW q \in PaneIds, ReleaseHere(q) PROVE saved \subseteq saved' /\ ReadFirst'
  BY <1>1, <1>2 DEF ReleaseHere
<1>3. ASSUME saved' = saved, clean'.at # "read" \/ (clean' = clean /\ pane' = pane)
      PROVE  saved \subseteq saved' /\ ReadFirst'
  BY <1>3 DEF Open
<1>4. ASSUME saved' = saved, clean' = clean, NEW q, NEW by \in Closers,
             Close(q, by) \/ UNCHANGED pane
      PROVE  saved \subseteq saved' /\ ReadFirst'
  BY <1>4 DEF Open, Close, PanesInv, TypeOK, Closers
<1>5. ASSUME NEW d \in Dispatches, NEW q \in PaneIds, StartPlaces(d, q)
      PROVE  saved \subseteq saved' /\ ReadFirst'
  \* The pane that is opened is not the one of the copy, which was made for another launch.
  <2>1. ASSUME clean.at = "read", clean.copy.supervised, clean.copy.pane \in PaneIds
        PROVE  pane[clean.copy.pane] # "unborn"
    BY <2>1, NoOneIsNoId DEF PanesInv, TypeOK, Origins, Owned, Makes, Calm
  <2>2. saved' = saved /\ clean' = clean
        /\ \A p \in PaneIds : pane'[p] = "open" /\ pane[p] # "unborn" => pane[p] = "open"
    BY <1>5, <1>o DEF StartPlaces
  <2> QED BY <2>1, <2>2 DEF Open
<1>6. ASSUME NEW d \in Dispatches, NEW closes \in BOOLEAN, StartUndelivered(d, closes)
      PROVE  saved \subseteq saved' /\ ReadFirst'
  BY <1>4, <1>6 DEF StartUndelivered, Closers
<1>7. CASE DoctorShuts \/ DoctorSkips \/ DoctorSaves
  <2>1. clean'.at # "read" /\ saved' = saved
    BY <1>7 DEF DoctorShuts, DoctorSkips, DoctorSaves, CleanTo, NoCleanup, PanesInv, TypeOK
  <2> QED BY <1>3, <2>1
<1>8. ASSUME NEW q \in PaneIds, UserCloses(q) PROVE saved \subseteq saved' /\ ReadFirst'
  BY <1>4, <1>8 DEF UserCloses, Closers
<1>9. ASSUME NEW closes \in BOOLEAN, ReleaseCloses(closes)
      PROVE  saved \subseteq saved' /\ ReadFirst'
  <2>1. clean'.at = "closed"
    BY <1>9 DEF ReleaseCloses, CleanTo, PanesInv, TypeOK
  <2> QED BY <1>3, <1>9, <2>1 DEF ReleaseCloses
<1>10. CASE ReleaseSaves \/ CleanCrashes
  BY <1>3, <1>10 DEF ReleaseSaves, CleanCrashes, NoCleanup
<1>11. ASSUME NEW d \in Dispatches,
              \/ \E t \in Tasks, attach \in BOOLEAN : Start(d, t, attach)
              \/ StartPlaceFails(d) \/ StartAgentFails(d) \/ StartPrompts(d) \/ StartCommits(d)
              \/ StartDies(d) \/ WaitVanished(d) \/ Cancel(d) \/ Retain(d) \/ DoctorOrphan(d)
       PROVE  saved \subseteq saved' /\ ReadFirst'
  BY <1>3, <1>11 DEF Start, StartPlaceFails, StartAgentFails, StartPrompts, StartCommits,
                     StartDies, WaitVanished, Cancel, Retain, DoctorOrphan
<1>12. ASSUME NEW q \in PaneIds, Heartbeat(q) \/ Done(q) \/ PaneClosedHook(q)
       PROVE  saved \subseteq saved' /\ ReadFirst'
  BY <1>3, <1>12 DEF Heartbeat, Done, PaneClosedHook
<1>13. ASSUME NEW d \in Dispatches, DoctorLists(d) PROVE saved \subseteq saved' /\ ReadFirst'
  <2>1. clean'.at = "listed" /\ saved' = saved
    BY <1>13 DEF DoctorLists, CleanBegins
  <2> QED BY <1>3, <2>1
<1> QED BY <1>1, <1>2, <1>5, <1>6, <1>7, <1>8, <1>9, <1>10, <1>11, <1>12, <1>13
        DEF Next, Launch, Release, Doctor

SavedInv == PanesInv /\ ReadFirst /\ TranscriptFirst

LEMMA SavedStep == ASSUME "read" \notin Faults, SavedInv, [Next]_vars PROVE SavedInv'
<1>1. PanesInv'
  BY PanesStep DEF SavedInv
<1>2. CASE UNCHANGED vars
  BY <1>1, <1>2 DEF vars, SavedInv, ReadFirst, TranscriptFirst, Open
<1>3. CASE Next
  <2>1. saved \subseteq saved' /\ ReadFirst'
    BY <1>3, ReadFirstStep DEF SavedInv
  <2>2. ASSUME NEW q \in PaneIds, pane'[q] = "release" PROVE maker'[q] \in saved'
    <3>1. pane'[q] = pane[q] \/ (ByRelease(q) /\ pane[q] = "open")
      BY <1>3, <2>2, ClosingStep DEF SavedInv, ByCleanup
    <3>2. maker'[q] = maker[q]
      BY <1>3, <2>2, OpensStep DEF Opens, SavedInv, PanesInv
    <3>3. maker[q] \in saved
      BY <2>2, <3>1 DEF SavedInv, TranscriptFirst, ReadFirst, ByRelease, Open
    <3> QED BY <2>1, <3>2, <3>3
  <2> QED BY <1>1, <2>1, <2>2 DEF SavedInv, TranscriptFirst
<1> QED BY <1>2, <1>3

\* While Herdr answers its reads, release has the transcript of a worker before it closes the
\* pane, also if it crashes between the two.
THEOREM TranscriptSaved == ASSUME "read" \notin Faults PROVE Spec => []TranscriptFirst
<1>1. Init => SavedInv
  BY InitPanes DEF SavedInv, ReadFirst, TranscriptFirst, Init, NoCleanup
<1>2. SavedInv => TranscriptFirst
  BY DEF SavedInv
<1>3. SavedInv /\ [Next]_vars => SavedInv'
  BY SavedStep
<1> QED BY <1>1, <1>2, <1>3, PTL DEF Spec

-----------------------------------------------------------------------------
(* Who is given up, as long as Herdr answers the probe of wait             *)

Killed(d) == disp[d].state = "dispatched" /\ disp'[d].state = "abandoned"

LEMMA KilledStep ==
    ASSUME PanesInv, Next, "probe" \notin Faults, NEW d \in Dispatches, Killed(d)
    PROVE  Gone(disp[d].pane) \/ (clean.d = d /\ (clean.force \/ clean.early))
<1> DEFINE Goal == Gone(disp[d].pane) \/ (clean.d = d /\ (clean.force \/ clean.early))
<1>r. RecordsOK
  BY RecordTypes DEF PanesInv
<1>1. ASSUME NEW e \in Dispatches, NEW r, Save(e, r), r.state # "abandoned" PROVE Goal
  BY <1>1, <1>r DEF Killed, Save, RecordsOK
<1>2. ASSUME UNCHANGED disp PROVE Goal
  BY <1>2 DEF Killed
<1>3. ASSUME NEW e \in Dispatches, NEW t \in Tasks, NEW attach \in BOOLEAN, Start(e, t, attach)
      PROVE  Goal
  <2>1. disp'[d].state # "abandoned"
    BY <1>3, <1>r DEF Start, Killed, NoDispatch, RecordsOK, DispatchRecord
  <2> QED BY <2>1 DEF Killed
<1>4. ASSUME NEW e \in Dispatches, NEW q \in PaneIds, StartPlaces(e, q) PROVE Goal
  BY <1>4, <1>r DEF StartPlaces, LaunchAt, Killed, Save, RecordsOK, PanesInv, Calm
<1>5. ASSUME NEW e \in Dispatches, NEW closes \in BOOLEAN, StartUndelivered(e, closes)
      PROVE  Goal
  BY <1>5, <1>r DEF StartUndelivered, Killed, Save, RecordsOK, PanesInv, Calm
<1>6. ASSUME NEW e \in Dispatches,
             StartPlaceFails(e) \/ StartCommits(e) \/ Cancel(e)
      PROVE  Goal
  <2>1. PICK r : Save(e, r) /\ r.state \in {"superseded", "dispatched"}
    BY <1>6, <1>r DEF StartPlaceFails, StartCommits, Cancel, RecordsOK, DispatchRecord
  <2> QED BY <1>1, <2>1
<1>7. ASSUME NEW e \in Dispatches, Retain(e) PROVE Goal
  <2>1. PICK r : Save(e, r) /\ r.state = disp[e].state
    BY <1>7, <1>r DEF Retain, RecordsOK, DispatchRecord
  <2>2. disp'[d].state = disp[d].state
    BY <1>r, <2>1 DEF Save, RecordsOK
  <2> QED BY <2>2 DEF Killed
<1>8. ASSUME NEW e \in Dispatches, WaitVanished(e) \/ DoctorOrphan(e) PROVE Goal
  BY <1>8, <1>r DEF WaitVanished, DoctorOrphan, Killed, Save, RecordsOK
<1>9. ASSUME NEW q \in PaneIds, PaneClosedHook(q) PROVE Goal
  BY <1>9 DEF PaneClosedHook, Killed
<1>10. ASSUME NEW q \in PaneIds, Done(q) PROVE Goal
  <2>1. maker[q] \in Dispatches
    BY <1>10 DEF Done, PanesInv, TypeOK
  <2>2. [disp[maker[q]] EXCEPT !.state = "settled"].state # "abandoned"
    BY <1>r, <2>1 DEF RecordsOK, DispatchRecord
  <2> QED BY <1>1, <1>10, <2>1, <2>2 DEF Done
<1>11. CASE ReleaseSaves \/ DoctorSaves
  <2>1. clean.at # "idle" /\ (disp'[d] # disp[d] => clean.d = d)
    BY <1>11, <1>r DEF ReleaseSaves, DoctorSaves, Save, RecordsOK
  <2> QED BY <2>1 DEF Killed, PanesInv, Calm
<1>12. ASSUME NEW e \in Dispatches,
              StartAgentFails(e) \/ StartPrompts(e) \/ StartDies(e)
                 \/ DoctorLists(e) \/ \E force \in BOOLEAN : ReleaseReads(e, force)
       PROVE  Goal
  BY <1>2, <1>12 DEF StartAgentFails, StartPrompts, StartDies, DoctorLists, ReleaseReads
<1>13. ASSUME NEW q \in PaneIds, Heartbeat(q) \/ UserCloses(q) \/ ReleaseHere(q) PROVE Goal
  BY <1>2, <1>13 DEF Heartbeat, UserCloses, ReleaseHere, ReleaseReads
<1>14. CASE \/ CleanCrashes \/ DoctorShuts \/ DoctorSkips
            \/ \E closes \in BOOLEAN : ReleaseCloses(closes)
  BY <1>2, <1>14 DEF CleanCrashes, DoctorShuts, DoctorSkips, ReleaseCloses
<1> QED BY <1>3, <1>4, <1>5, <1>6, <1>7, <1>8, <1>9, <1>10, <1>11, <1>12, <1>13, <1>14
        DEF Next, Launch, Release, Doctor

\* While Herdr answers the probe of wait, a live attempt is given up only when its pane is gone,
\* and the pane made for it is not closed by cbds: excepted are a forced release, and a release
\* or doctor that looked while the launch still ran.
THEOREM LiveStays == ASSUME "probe" \notin Faults PROVE Spec => LiveAttemptsStay
<1> DEFINE Safe ==
       /\ \A d \in Dispatches :
             disp[d].state = "dispatched" /\ disp'[d].state = "abandoned"
                => Gone(disp[d].pane) \/ (clean.d = d /\ (clean.force \/ clean.early))
       /\ \A q \in PaneIds :
             /\ pane[q] = "open" /\ pane'[q] \in {"cleanup", "release"}
             /\ disp[maker[q]].state = "dispatched"
             => clean.d = maker[q] /\ (clean.force \/ clean.early)
<1>1. ASSUME PanesInv, Next PROVE Safe
  <2>1. ASSUME NEW q \in PaneIds, pane[q] = "open", pane'[q] \in {"cleanup", "release"}
        PROVE  Spared(q)
    BY <1>1, <2>1, ClosingStep DEF ByCleanup, ByRelease
  <2> QED BY <1>1, <2>1, KilledStep DEF Killed, Spared
<1>2. PanesInv /\ [Next]_vars => [Safe]_vars
  BY <1>1
<1> QED BY <1>2, PanesInvariant, PTL DEF Spec, LiveAttemptsStay
=============================================================================
