-------------------------------- MODULE Panes --------------------------------
(***************************************************************************)
(* What cbds opens and closes in Herdr.  A launch opens a pane for its     *)
(* worker, or attaches to one that is there; a failed launch, release and  *)
(* doctor close panes; the user may close any; the pane-closed hook, wait  *)
(* and doctor give up the dispatch of a pane that is gone.  The records    *)
(* are the ones of module Contract, with what is said of panes in them;    *)
(* reports and tasks are abstracted to what these commands look at.        *)
(*                                                                         *)
(* A launch, a release and doctor's closing of a pane await Herdr between   *)
(* their reads and writes: they are chains of actions that work on a copy  *)
(* of the record while other commands run. There is one launch at a time,  *)
(* and one release or doctor; every other command is one action.           *)
(***************************************************************************)
EXTENDS Naturals

CONSTANTS
    Dispatches,     \* numbered as they are started (bound)
    Tasks,          \* the tasks they are attempts of
    PaneIds,        \* the panes of Herdr, numbered as they are opened (bound)
    Foreign,        \* the panes the operator opened, there from the start
    Kept,           \* the dispatches that may be retained (bound)
    NoOne,          \* null
    Faults          \* "crash" of one of the chains; Herdr fails the "probe" of wait, or
                    \* gives nothing to the "read" of release

ASSUME IdsAreNumbers == Dispatches \subseteq Nat /\ PaneIds \subseteq Nat
ASSUME ForeignArePanes == Foreign \subseteq PaneIds
ASSUME NoOneIsNoId == NoOne \notin Dispatches \cup Tasks \cup PaneIds

VARIABLES
    disp,       \* dispatches/<id>.json
    said,       \* the dispatches of which inbox/ has a message of any kind
    saved,      \* the dispatches with a file transcripts/<id>.txt
    pane,       \* Herdr: unborn, open, or who closed it
    maker,      \* maker[q]: the dispatch whose identity is in the environment of pane q
    staffed,    \* the panes in which a worker was given a contract
    launch,     \* launch[d]: where dispatch start is, and its copy of the record
    clean       \* the release, or closing of a pane by doctor, in progress: its copy of the
                \* record, and (early, a history) whether it looked while its launch still ran

vars == <<disp, said, saved, pane, maker, staffed, launch, clean>>

-----------------------------------------------------------------------------
(* Records                                                                 *)

States == {"none", "starting", "dispatched", "settled", "superseded", "abandoned"}

\* What is left out of launch_cleanup: it says that a pane was closed, which stays closed.
DispatchRecord == [state: States, task: Tasks \cup {NoOne}, pane: PaneIds \cup {NoOne},
                   supervised: BOOLEAN, released: BOOLEAN, retained: BOOLEAN]
NoDispatch == [state |-> "none", task |-> NoOne, pane |-> NoOne, supervised |-> FALSE,
               released |-> FALSE, retained |-> FALSE]

\* The operator, release, or the cleanup of doctor and of a failed launch.
Closers == {"user", "release", "cleanup"}
LaunchSteps == {"idle", "record", "pane", "prompted"}
Idle == [at |-> "idle", copy |-> NoDispatch]
CleanSteps == {"idle", "read", "closed", "listed", "shut"}
NoCleanup == [at |-> "idle", d |-> NoOne, force |-> FALSE, early |-> FALSE, copy |-> NoDispatch]

Open(q) == q \in PaneIds /\ pane[q] = "open"
\* paneAlive answers false: Herdr knows no such pane.
Gone(q) == q \in PaneIds /\ pane[q] \in Closers
Created(d) == disp[d].state # "none"
\* At the grain of commands a dispatch has authority in just these states (Contract).
Live(r) == r.state \in {"starting", "dispatched"}

Save(d, r) == disp' = [disp EXCEPT ![d] = r]
Close(q, by) == pane' = [pane EXCEPT ![q] = IF Open(q) THEN by ELSE @]

Init ==
    /\ disp = [d \in Dispatches |-> NoDispatch]
    /\ said = {}
    /\ saved = {}
    /\ pane = [q \in PaneIds |-> IF q \in Foreign THEN "open" ELSE "unborn"]
    /\ maker = [q \in PaneIds |-> NoOne]
    /\ staffed = {}
    /\ launch = [d \in Dispatches |-> Idle]
    /\ clean = NoCleanup

-----------------------------------------------------------------------------
(* cbds dispatch start                                                     *)

LaunchAt(d, step) == launch[d].at = step
\* The launch goes on to a step with its copy r; it saves r.
LaunchTo(d, step, r) == launch' = [launch EXCEPT ![d] = [at |-> step, copy |-> r]]
LaunchEnds(d) == launch' = [launch EXCEPT ![d] = Idle]

\* The other attempts of the task lose their authority and the record is created; attach is
\* the flag --pane.
Start(d, t, attach) ==
    LET r == [NoDispatch EXCEPT !.state = "starting", !.task = t, !.supervised = ~attach]
    IN  /\ ~Created(d)
        /\ \A e \in Dispatches : launch[e].at = "idle"
        /\ \A e \in Dispatches : e < d => Created(e)
        /\ disp' = [e \in Dispatches |->
                       IF e = d THEN r
                       ELSE IF disp[e].task = t /\ Live(disp[e])
                            THEN [disp[e] EXCEPT !.state = "superseded"] ELSE disp[e]]
        /\ LaunchTo(d, "record", r)
        /\ UNCHANGED <<said, saved, pane, maker, staffed, clean>>

\* A new pane, with the identity of the dispatch in its environment, or the pane of --pane,
\* with the environment it has; the record is saved with the pane.
StartPlaces(d, q) ==
    LET r == [launch[d].copy EXCEPT !.pane = q]
    IN  /\ LaunchAt(d, "record")
        /\ \/ /\ r.supervised
              /\ pane[q] = "unborn" /\ \A p \in PaneIds : p < q => pane[p] # "unborn"
              /\ pane' = [pane EXCEPT ![q] = "open"]
              /\ maker' = [maker EXCEPT ![q] = d]
           \/ ~r.supervised /\ Open(q) /\ UNCHANGED <<pane, maker>>
        /\ Save(d, r)
        /\ LaunchTo(d, "pane", r)
        /\ UNCHANGED <<said, saved, staffed, clean>>

\* A dry run, no Herdr, a worktree or pane that cannot be had: the record is withdrawn.
StartPlaceFails(d) ==
    /\ LaunchAt(d, "record")
    /\ Save(d, [launch[d].copy EXCEPT !.state = "superseded"])
    /\ LaunchEnds(d)
    /\ UNCHANGED <<said, saved, pane, maker, staffed, clean>>

\* The agent does not start: the handler dies of cleanupPane, which is declared further down.
StartAgentFails(d) ==
    /\ LaunchAt(d, "pane")
    /\ LaunchEnds(d)
    /\ UNCHANGED <<disp, said, saved, pane, maker, staffed, clean>>

\* The agent has started and has its prompt (with --no-agent, whoever works in the pane).
StartPrompts(d) ==
    LET q == launch[d].copy.pane
    IN  /\ LaunchAt(d, "pane") /\ Open(q)
        /\ staffed' = staffed \cup {q}
        /\ LaunchTo(d, "prompted", launch[d].copy)
        /\ UNCHANGED <<disp, said, saved, pane, maker, clean>>

\* The prompt is refused, or the call fails with or without having delivered it. The pane is
\* closed if cbds made it, unless --keep-pane-on-failure or a failing Herdr keep it (~closes).
StartUndelivered(d, closes) ==
    LET r == launch[d].copy
    IN  /\ launch[d].at \in {"pane", "prompted"}
        /\ closes => r.supervised
        /\ IF closes THEN Close(r.pane, "cleanup") ELSE UNCHANGED pane
        /\ Save(d, [r EXCEPT !.state = "abandoned"])
        /\ LaunchEnds(d)
        /\ UNCHANGED <<said, saved, maker, staffed, clean>>

StartCommits(d) ==
    /\ LaunchAt(d, "prompted")
    /\ Save(d, [launch[d].copy EXCEPT !.state = "dispatched"])
    /\ LaunchEnds(d)
    /\ UNCHANGED <<said, saved, pane, maker, staffed, clean>>

\* A usage error found with the record created (--worktree, --trust), or a crash anywhere.
StartDies(d) ==
    /\ launch[d].at = "record" \/ ("crash" \in Faults /\ launch[d].at # "idle")
    /\ LaunchEnds(d)
    /\ UNCHANGED <<disp, said, saved, pane, maker, staffed, clean>>

-----------------------------------------------------------------------------
(* The worker in a pane. Its commands take the identity from the           *)
(* environment of the pane, so they are about maker[q]; in a pane of the   *)
(* operator they have none and end in a usage error.                       *)

Heartbeat(q) ==
    /\ Open(q) /\ q \in staffed /\ maker[q] # NoOne
    /\ Live(disp[maker[q]])
    /\ said' = said \cup {maker[q]}
    /\ UNCHANGED <<disp, saved, pane, maker, staffed, launch, clean>>

Done(q) ==
    /\ Open(q) /\ q \in staffed /\ maker[q] # NoOne
    /\ Live(disp[maker[q]])
    /\ said' = said \cup {maker[q]}
    /\ Save(maker[q], [disp[maker[q]] EXCEPT !.state = "settled"])
    /\ UNCHANGED <<saved, pane, maker, staffed, launch, clean>>

-----------------------------------------------------------------------------
(* The pane goes, and who notices                                          *)

\* The user closes a pane, its process ends, or Herdr restarts without it.
UserCloses(q) ==
    /\ Open(q)
    /\ Close(q, "user")
    /\ UNCHANGED <<disp, said, saved, maker, staffed, launch, clean>>

\* The hook for pane.closed and pane.exited, some time after the pane went, or never.
PaneClosedHook(q) ==
    /\ Gone(q)
    /\ disp' = [d \in Dispatches |->
                   IF disp[d].pane = q /\ disp[d].state = "dispatched" /\ d \notin said
                   THEN [disp[d] EXCEPT !.state = "abandoned"] ELSE disp[d]]
    /\ UNCHANGED <<said, saved, pane, maker, staffed, launch, clean>>

\* Mutant: the event is believed, the pane is not looked for.
WaitVanished_NoCheck(d) ==
    /\ disp[d].state \in {"dispatched", "superseded", "abandoned"}
    /\ Save(d, [disp[d] EXCEPT !.state = "abandoned"])
    /\ UNCHANGED <<said, saved, pane, maker, staffed, launch, clean>>

\* wait has an event about the pane of a dispatch that was live when it began, finds no unread
\* report and asks Herdr; a call that fails is taken for a pane that is gone.
WaitVanished(d) ==
    /\ disp[d].state \in {"dispatched", "superseded", "abandoned"}
    /\ Gone(disp[d].pane) \/ "probe" \in Faults
    /\ Save(d, [disp[d] EXCEPT !.state = "abandoned"])
    /\ UNCHANGED <<said, saved, pane, maker, staffed, launch, clean>>

-----------------------------------------------------------------------------
(* cbds dispatch cancel, retain                                            *)

Cancel(d) ==
    /\ Created(d) /\ disp[d].state # "settled"
    /\ Save(d, [disp[d] EXCEPT !.state = "superseded"])
    /\ UNCHANGED <<said, saved, pane, maker, staffed, launch, clean>>

Retain(d) ==
    /\ d \in Kept /\ Created(d)
    /\ Save(d, [disp[d] EXCEPT !.retained = TRUE])
    /\ UNCHANGED <<said, saved, pane, maker, staffed, launch, clean>>

-----------------------------------------------------------------------------
(* cbds release                                                            *)

CleanBegins(d, step, force) ==
    /\ clean.at = "idle"
    /\ clean' = [at |-> step, d |-> d, force |-> force, early |-> ~LaunchAt(d, "idle"),
                 copy |-> disp[d]]
CleanTo(step) == clean' = [clean EXCEPT !.at = step]

\* Mutant: only the agent is read, and a bare shell has none.
ReleaseReads_AgentOnly(d, force) ==
    /\ Created(d) /\ ~disp[d].released
    /\ disp[d].state = "dispatched" \/ disp[d].retained => force
    /\ \/ Open(disp[d].pane) /\ saved' = saved \cup {d}
       \/ UNCHANGED saved
    /\ CleanBegins(d, "read", force)
    /\ UNCHANGED <<disp, said, pane, maker, staffed, launch>>

\* The guards, which let a dispatch that is still starting pass, then the transcript, from the
\* agent or else the pane.
ReleaseReads(d, force) ==
    /\ Created(d) /\ ~disp[d].released
    /\ disp[d].state = "dispatched" \/ disp[d].retained => force
    /\ \/ Open(disp[d].pane) /\ saved' = saved \cup {d}
       \/ (~Open(disp[d].pane) \/ "read" \in Faults) /\ UNCHANGED saved
    /\ CleanBegins(d, "read", force)
    /\ UNCHANGED <<disp, said, pane, maker, staffed, launch>>

\* Mutant: an attached pane is closed too.
ReleaseCloses_AnyPane(closes) ==
    /\ clean.at = "read"
    /\ closes => clean.copy.pane # NoOne
    /\ IF closes THEN Close(clean.copy.pane, "release") ELSE UNCHANGED pane
    /\ CleanTo("closed")
    /\ UNCHANGED <<disp, said, saved, maker, staffed, launch>>

\* --keep-pane or a Herdr that fails leave the pane open (~closes).
ReleaseCloses(closes) ==
    /\ clean.at = "read"
    /\ closes => clean.copy.supervised /\ clean.copy.pane # NoOne
    /\ IF closes THEN Close(clean.copy.pane, "release") ELSE UNCHANGED pane
    /\ CleanTo("closed")
    /\ UNCHANGED <<disp, said, saved, maker, staffed, launch>>

\* Mutant: a state of its own for the record.
ReleaseSaves_NewState ==
    /\ clean.at = "closed"
    /\ Save(clean.d, [clean.copy EXCEPT !.released = TRUE,
                                        !.state = IF @ = "settled" THEN @ ELSE "released"])
    /\ clean' = NoCleanup
    /\ UNCHANGED <<said, saved, pane, maker, staffed, launch>>

\* The copy is saved as released, whether or not a pane was closed, and over whatever another
\* command has made of the record.
ReleaseSaves ==
    /\ clean.at = "closed"
    /\ Save(clean.d, [clean.copy EXCEPT !.released = TRUE,
                                        !.state = IF @ = "settled" THEN @ ELSE "abandoned"])
    /\ clean' = NoCleanup
    /\ UNCHANGED <<said, saved, pane, maker, staffed, launch>>

\* The plugin's action: release of the latest unreleased dispatch in the pane it is invoked in.
ReleaseHere(q) ==
    LET here == {d \in Dispatches : disp[d].pane = q /\ ~disp[d].released}
    IN  /\ Open(q)
        /\ \E d \in here : (\A e \in here : e <= d) /\ ReleaseReads(d, FALSE)

\* A release, or doctor, ends between two of its steps.
CleanCrashes ==
    /\ "crash" \in Faults /\ clean.at # "idle"
    /\ clean' = NoCleanup
    /\ UNCHANGED <<disp, said, saved, pane, maker, staffed, launch>>

-----------------------------------------------------------------------------
(* cbds doctor --fix, also run when Herdr starts                           *)

\* A dead attempt that may still have its pane is listed.
DoctorLists(d) ==
    /\ disp[d].state \in {"abandoned", "superseded"}
    /\ disp[d].supervised /\ ~disp[d].released /\ disp[d].pane # NoOne
    /\ CleanBegins(d, "listed", FALSE)
    /\ UNCHANGED <<disp, said, saved, pane, maker, staffed, launch>>

\* The pane is there and is closed; what has become of the attempt is not looked at again.
DoctorShuts ==
    /\ clean.at = "listed" /\ Open(clean.copy.pane)
    /\ Close(clean.copy.pane, "cleanup")
    /\ CleanTo("shut")
    /\ UNCHANGED <<disp, said, saved, maker, staffed, launch>>

\* The pane is gone, or Herdr fails to say or to close it.
DoctorSkips ==
    /\ clean.at = "listed"
    /\ clean' = NoCleanup
    /\ UNCHANGED <<disp, said, saved, pane, maker, staffed, launch>>

DoctorSaves ==
    /\ clean.at = "shut"
    /\ Save(clean.d, [clean.copy EXCEPT !.released = TRUE])
    /\ clean' = NoCleanup
    /\ UNCHANGED <<said, saved, pane, maker, staffed, launch>>

\* A live attempt in a pane that is gone, of which the inbox has no message of any kind.
DoctorOrphan(d) ==
    /\ disp[d].state = "dispatched" /\ Gone(disp[d].pane)
    /\ d \notin said
    /\ Save(d, [disp[d] EXCEPT !.state = "abandoned"])
    /\ UNCHANGED <<said, saved, pane, maker, staffed, launch, clean>>

-----------------------------------------------------------------------------

Launch(d) ==
    \/ \E t \in Tasks, attach \in BOOLEAN : Start(d, t, attach)
    \/ \E q \in PaneIds : StartPlaces(d, q)
    \/ StartPlaceFails(d)
    \/ StartAgentFails(d)
    \/ StartPrompts(d)
    \/ \E closes \in BOOLEAN : StartUndelivered(d, closes)
    \/ StartCommits(d)
    \/ StartDies(d)

Release ==
    \/ \E d \in Dispatches, force \in BOOLEAN : ReleaseReads(d, force)
    \/ \E q \in PaneIds : ReleaseHere(q)
    \/ \E closes \in BOOLEAN : ReleaseCloses(closes)
    \/ ReleaseSaves

Doctor ==
    \/ \E d \in Dispatches : DoctorLists(d) \/ DoctorOrphan(d)
    \/ DoctorShuts
    \/ DoctorSkips
    \/ DoctorSaves

Next ==
    \/ \E d \in Dispatches : Launch(d)
    \/ \E q \in PaneIds : Heartbeat(q) \/ Done(q) \/ UserCloses(q) \/ PaneClosedHook(q)
    \/ \E d \in Dispatches : WaitVanished(d) \/ Cancel(d) \/ Retain(d)
    \/ Release
    \/ Doctor
    \/ CleanCrashes

Spec == Init /\ [][Next]_vars

-----------------------------------------------------------------------------
(* Properties                                                              *)

TypeOK ==
    /\ disp \in [Dispatches -> DispatchRecord]
    /\ said \subseteq Dispatches
    /\ saved \subseteq Dispatches
    /\ pane \in [PaneIds -> {"unborn", "open"} \cup Closers]
    /\ maker \in [PaneIds -> Dispatches \cup {NoOne}]
    /\ staffed \subseteq PaneIds
    /\ launch \in [Dispatches -> [at: LaunchSteps, copy: DispatchRecord]]
    /\ clean \in [at: CleanSteps, d: Dispatches \cup {NoOne}, force: BOOLEAN, early: BOOLEAN,
                  copy: DispatchRecord]

\* cbds never closes a pane it did not make, whatever was launched into it, whatever failed
\* or was retried there, and whoever cleans up.
ForeignPanesStay == \A q \in Foreign : pane[q] \in {"open", "user"}

\* release has the transcript on disk before it closes the pane, also if it crashes in between
\* or is called again.
TranscriptFirst ==
    \A q \in PaneIds : pane[q] = "release" => maker[q] \in saved

\* Without --force a live attempt (one that is "dispatched") is given up only when its pane is
\* gone, and the pane that was made for it is not closed, whoever waits, releases or repairs
\* meanwhile with an old copy of a record. Excepted is a release or doctor that looked while
\* the launch still ran: it goes by the record it read, also if the launch commits before it
\* closes the pane or saves. Nothing is said of a worker that was prompted by a launch that
\* has not committed, or that was attached to a pane made for another attempt.
LiveAttemptsStay ==
    [][/\ \A d \in Dispatches :
             disp[d].state = "dispatched" /\ disp'[d].state = "abandoned"
                => Gone(disp[d].pane) \/ (clean.d = d /\ (clean.force \/ clean.early))
       /\ \A q \in PaneIds :
             /\ pane[q] = "open" /\ pane'[q] \in {"cleanup", "release"}
             /\ disp[maker[q]].state = "dispatched"
             => clean.d = maker[q] /\ (clean.force \/ clean.early)]_vars
=============================================================================
