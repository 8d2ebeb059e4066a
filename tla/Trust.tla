-------------------------------- MODULE Trust --------------------------------
(***************************************************************************)
(* cbds trust edits the configuration file of an agent CLI in place.  The  *)
(* file belongs to the agent and its operator: cbds adds one directory to  *)
(* it, after a copy to *.cbds-bak, and reads back what it wrote.  Nothing  *)
(* locks the file.  Claude's is JSON and must parse; Codex's is edited as  *)
(* text, whatever the text is.                                             *)
(*                                                                         *)
(* A command is a chain of reads and writes of the file; the agents of one *)
(* command are independent, and one is modelled.                           *)
(***************************************************************************)
EXTENDS Naturals

CONSTANTS
    Procs,      \* processes that run cbds trust, again and again
    Dirs,       \* the directories they are asked to trust
    MaxOwn,     \* how often the agent rewrites its own settings (bound)
    Lost,       \* in place of settings that are gone
    Missing,    \* no file
    Faults      \* "crash" of a command; the "backup" fails

ASSUME MaxOwnIsNumber == MaxOwn \in Nat
ASSUME LostIsNoVersion == Lost \notin 0..MaxOwn

VARIABLES
    kind,       \* which agent's file it is: "claude" or "codex"
    file,       \* the configuration
    backup,     \* its copy *.cbds-bak
    pc,         \* where each command is
    dir,        \* dir[p]: the directory it is asked for
    text,       \* text[p]: what it read of the file
    own,        \* the version of the agent's own settings
    reported,   \* the directories cbds has reported as trusted
    asked,      \* the directories cbds was asked to trust, not only to check
    crashed,    \* has a command crashed?
    overlapped  \* has the file been used by two at a time?

vars == <<kind, file, backup, pc, dir, text, own, reported, asked, crashed, overlapped>>

-----------------------------------------------------------------------------

\* The contents of a file: the agent's own settings, and the directories it trusts.
Contents == [own: (0..MaxOwn) \cup {Lost}, trusted: SUBSET Dirs]
ASSUME MissingIsNoContents == Missing \notin Contents
\* Truncated, or made of two writes: no JSON, and of the text nothing is left.
Torn == [own |-> Lost, trusted |-> {}]
Steps == {"idle", "read", "backup", "truncate", "write", "verify"}

Alone(p) == \A q \in Procs \ {p} : pc[q] = "idle"
To(p, step) == pc' = [pc EXCEPT ![p] = step]
Parses == file # Missing /\ (kind = "claude" => file # Torn)
IsTrusted(d) == Parses /\ d \in file.trusted

Init ==
    /\ kind \in {"claude", "codex"}
    /\ file \in {Missing, [own |-> 0, trusted |-> {}]}
    /\ backup = Missing
    /\ pc = [p \in Procs |-> "idle"]
    /\ dir \in [Procs -> Dirs]
    /\ text = [p \in Procs |-> Torn]
    /\ own = 0
    /\ reported = {} /\ asked = {}
    /\ crashed = FALSE /\ overlapped = FALSE

-----------------------------------------------------------------------------
(* cbds trust <d>                                                          *)

\* Mutant: --check goes on to write.
Look_CheckWrites(p, d, check) ==
    /\ pc[p] = "idle"
    /\ dir' = [dir EXCEPT ![p] = d]
    /\ asked' = IF check THEN asked ELSE asked \cup {d}
    /\ reported' = IF IsTrusted(d) THEN reported \cup {d} ELSE reported
    /\ To(p, IF file = Missing \/ IsTrusted(d) THEN "idle" ELSE "read")
    /\ overlapped' = (overlapped \/ ~Alone(p))
    /\ UNCHANGED <<kind, file, backup, text, own, crashed>>

\* not_installed, already_trusted or would_trust end the command; so a file that does not
\* parse is one in which d is not trusted yet.
Look(p, d, check) ==
    /\ pc[p] = "idle"
    /\ dir' = [dir EXCEPT ![p] = d]
    /\ asked' = IF check THEN asked ELSE asked \cup {d}
    /\ reported' = IF IsTrusted(d) THEN reported \cup {d} ELSE reported
    /\ To(p, IF file = Missing \/ IsTrusted(d) \/ check THEN "idle" ELSE "read")
    /\ overlapped' = (overlapped \/ ~Alone(p))
    /\ UNCHANGED <<kind, file, backup, text, own, crashed>>

\* Mutant: a file that does not parse is taken for an empty one.
Read_Corrupt(p) ==
    /\ pc[p] = "read"
    /\ IF kind = "codex" /\ IsTrusted(dir[p])
       THEN To(p, "idle") /\ reported' = reported \cup {dir[p]} /\ UNCHANGED text
       ELSE To(p, "backup") /\ text' = [text EXCEPT ![p] = file] /\ UNCHANGED reported
    /\ UNCHANGED <<kind, file, backup, dir, own, asked, crashed, overlapped>>

\* The file is read again. One that does not parse is refused; Codex's is looked at again.
Read(p) ==
    /\ pc[p] = "read"
    /\ IF ~Parses
       THEN To(p, "idle") /\ UNCHANGED <<text, reported>>
       ELSE IF kind = "codex" /\ IsTrusted(dir[p])
       THEN To(p, "idle") /\ reported' = reported \cup {dir[p]} /\ UNCHANGED text
       ELSE To(p, "backup") /\ text' = [text EXCEPT ![p] = file] /\ UNCHANGED reported
    /\ UNCHANGED <<kind, file, backup, dir, own, asked, crashed, overlapped>>

\* The file as it is now is copied, over the copy of an earlier command. That the copy fails
\* is swallowed.
Backup(p) ==
    /\ pc[p] = "backup"
    /\ backup' = file \/ ("backup" \in Faults /\ UNCHANGED backup)
    /\ To(p, "truncate")
    /\ UNCHANGED <<kind, file, dir, text, own, reported, asked, crashed, overlapped>>

\* writeFileSync opens the file, which empties it, and writes.
Truncate(p) ==
    /\ pc[p] = "truncate"
    /\ file' = Torn
    /\ To(p, "write")
    /\ UNCHANGED <<kind, backup, dir, text, own, reported, asked, crashed, overlapped>>

\* Mutant: trust is recorded for no directory.
Edited_NoDir(p) == [text[p] EXCEPT !.trusted = @ \cup {Missing}]

\* The text that was read, with the record of the directory.
Edited(p) == [text[p] EXCEPT !.trusted = @ \cup {dir[p]}]

\* What another wrote since the file was emptied is overwritten, and its end may stick out.
Write(p) ==
    /\ pc[p] = "write"
    /\ file' = Edited(p) \/ (file # Torn /\ file' = Torn)
    /\ To(p, "verify")
    /\ UNCHANGED <<kind, backup, dir, text, own, reported, asked, crashed, overlapped>>

\* Trusted only if the file, read back, says so; else the command fails.
Verify(p) ==
    /\ pc[p] = "verify"
    /\ reported' = IF IsTrusted(dir[p]) THEN reported \cup {dir[p]} ELSE reported
    /\ To(p, "idle")
    /\ UNCHANGED <<kind, file, backup, dir, text, own, asked, crashed, overlapped>>

\* A copy under way is left torn.
Crash(p) ==
    /\ "crash" \in Faults /\ pc[p] # "idle"
    /\ UNCHANGED backup \/ (pc[p] = "backup" /\ backup' = Torn)
    /\ To(p, "idle")
    /\ crashed' = TRUE
    /\ UNCHANGED <<kind, file, dir, text, own, reported, asked, overlapped>>

-----------------------------------------------------------------------------
\* The agent CLI rewrites its file, in one step.
AgentWrites ==
    /\ file \notin {Missing, Torn} /\ own < MaxOwn
    /\ own' = own + 1
    /\ file' = [file EXCEPT !.own = own + 1]
    /\ overlapped' = (overlapped \/ \E p \in Procs : pc[p] # "idle")
    /\ UNCHANGED <<kind, backup, pc, dir, text, reported, asked, crashed>>

Next ==
    \/ \E p \in Procs, d \in Dirs, check \in BOOLEAN : Look(p, d, check)
    \/ \E p \in Procs :
          Read(p) \/ Backup(p) \/ Truncate(p) \/ Write(p) \/ Verify(p) \/ Crash(p)
    \/ AgentWrites

Spec == Init /\ [][Next]_vars

-----------------------------------------------------------------------------
(* Properties                                                              *)

TypeOK ==
    /\ kind \in {"claude", "codex"}
    /\ file \in Contents \cup {Missing} /\ backup \in Contents \cup {Missing}
    /\ pc \in [Procs -> Steps]
    /\ dir \in [Procs -> Dirs]
    /\ text \in [Procs -> Contents]
    /\ own \in 0..MaxOwn
    /\ reported \subseteq Dirs /\ asked \subseteq Dirs
    /\ crashed \in BOOLEAN /\ overlapped \in BOOLEAN

\* cbds never makes an agent trust a directory nobody asked it to trust; --check makes none.
\* Not even a crash, a torn file or another writer brings one in.
OnlyAskedFor == file # Missing => file.trusted \subseteq asked

\* While the file has one user at a time, the agent's settings and every directory reported as
\* trusted are in the file or in its backup, wherever a command crashes, and however often it
\* is called again after that: for Claude. Codex's need that no command has crashed.
Recoverable ==
    file # Missing /\ ~overlapped /\ (kind = "codex" => ~crashed) =>
       \E copy \in {file, backup} \ {Missing} : copy.own = own /\ reported \subseteq copy.trusted
=============================================================================
