---------------------------- MODULE Trust_proofs ----------------------------
(***************************************************************************)
(* What cbds trust may do to the file of an agent, for any number of       *)
(* processes, directories and rewrites by the agent.                       *)
(***************************************************************************)
EXTENDS Trust, TLAPS

Active(p) == pc[p] # "idle"

\* Every trace of trust in a directory goes back to a command that asked for it.
Asked ==
    /\ file # Missing => file.trusted \subseteq asked
    /\ \A p \in Procs : /\ text[p].trusted \subseteq asked
                        /\ Active(p) => dir[p] \in asked /\ file # Missing

AskedInv == TypeOK /\ Asked

-----------------------------------------------------------------------------
LEMMA InitAsked == Init => AskedInv
<1> SUFFICES ASSUME Init PROVE AskedInv
  OBVIOUS
<1>1. 0 \in 0..MaxOwn
  BY MaxOwnIsNumber
<1>2. [own |-> 0, trusted |-> {}] \in Contents /\ Torn \in Contents
  BY <1>1 DEF Contents, Torn
<1>3. TypeOK
  BY <1>1, <1>2 DEF Init, TypeOK, Steps
<1>4. Asked
  BY DEF Init, Asked, Active, Torn
<1> QED BY <1>3, <1>4 DEF AskedInv

LEMMA ContentsOf ==
    /\ Torn \in Contents
    /\ \A c \in Contents : c.trusted \subseteq Dirs /\ c.own \in (0..MaxOwn) \cup {Lost}
    /\ \A c \in Contents, d \in Dirs : [c EXCEPT !.trusted = @ \cup {d}] \in Contents
    /\ \A c \in Contents, n \in 0..MaxOwn : [c EXCEPT !.own = n] \in Contents
  BY DEF Torn, Contents

LEMMA EditedType ==
    ASSUME TypeOK, NEW p \in Procs
    PROVE  /\ Edited(p) \in Contents
           /\ Edited(p).own = text[p].own
           /\ Edited(p).trusted = text[p].trusted \cup {dir[p]}
  BY DEF TypeOK, Edited, Contents

LEMMA TypeStep == ASSUME TypeOK, Asked, [Next]_vars PROVE TypeOK'
<1>1. CASE UNCHANGED vars
  BY <1>1 DEF vars, TypeOK
<1>2. ASSUME NEW p \in Procs, NEW d \in Dirs, NEW check \in BOOLEAN, Look(p, d, check)
      PROVE  TypeOK'
  BY <1>2 DEF Look, To, TypeOK, Steps
<1>3. ASSUME NEW p \in Procs, Read(p) PROVE TypeOK'
  <2>1. file \in Contents
    BY <1>3 DEF Read, TypeOK, Asked, Active
  <2>2. text' \in [Procs -> Contents] /\ pc' \in [Procs -> Steps] /\ reported' \subseteq Dirs
    BY <1>3, <2>1 DEF Read, To, TypeOK, Steps
  <2> QED BY <1>3, <2>2 DEF Read, TypeOK
<1>4. ASSUME NEW p \in Procs, Backup(p) \/ Verify(p) PROVE TypeOK'
  BY <1>4 DEF Backup, Verify, To, TypeOK, Steps
<1>5. ASSUME NEW p \in Procs, Truncate(p) \/ Write(p) PROVE TypeOK'
  BY <1>5, EditedType, ContentsOf DEF Truncate, Write, To, TypeOK, Steps
<1>6. ASSUME NEW p \in Procs, Crash(p) PROVE TypeOK'
  BY <1>6, ContentsOf DEF Crash, To, TypeOK, Steps
<1>7. CASE AgentWrites
  <2>1. own + 1 \in 0..MaxOwn /\ file \in Contents
    BY <1>7, MaxOwnIsNumber DEF AgentWrites, TypeOK
  <2>2. [file EXCEPT !.own = own + 1] \in Contents
    BY <2>1, ContentsOf
  <2> QED BY <1>7, <2>1, <2>2 DEF AgentWrites, TypeOK
<1> QED BY <1>1, <1>2, <1>3, <1>4, <1>5, <1>6, <1>7 DEF Next

LEMMA AskedStep == ASSUME TypeOK, Asked, [Next]_vars PROVE Asked'
<1>1. CASE UNCHANGED vars
  BY <1>1 DEF vars, Asked, Active
<1>2. ASSUME NEW p \in Procs, NEW d \in Dirs, NEW check \in BOOLEAN, Look(p, d, check)
      PROVE  Asked'
  <2>1. asked \subseteq asked' /\ UNCHANGED <<file, text>>
    BY <1>2 DEF Look
  <2>2. ASSUME NEW q \in Procs, Active(q)' PROVE dir'[q] \in asked' /\ file # Missing
    <3>1. CASE q = p
      <4>1. file # Missing /\ ~check
        BY <1>2, <2>2, <3>1 DEF Look, To, Active, TypeOK
      <4> QED BY <1>2, <3>1, <4>1 DEF Look, TypeOK
    <3>2. CASE q # p
      BY <1>2, <2>2, <3>2 DEF Look, To, Active, TypeOK, Asked
    <3> QED BY <3>1, <3>2
  <2> QED BY <2>1, <2>2 DEF Asked
<1>3. ASSUME NEW p \in Procs, Read(p) PROVE Asked'
  <2>1. \A q \in Procs : Active(q)' => Active(q)
    BY <1>3 DEF Read, To, Active, TypeOK
  <2>2. \A q \in Procs : text'[q].trusted \subseteq asked
    BY <1>3 DEF Read, Asked, TypeOK, Active
  <2> QED BY <1>3, <2>1, <2>2 DEF Read, Asked
<1>4. ASSUME NEW p \in Procs, Backup(p) \/ Verify(p) \/ Crash(p) PROVE Asked'
  <2>1. \A q \in Procs : Active(q)' => Active(q)
    BY <1>4 DEF Backup, Verify, Crash, To, Active, TypeOK
  <2> QED BY <1>4, <2>1 DEF Backup, Verify, Crash, Asked
<1>5. ASSUME NEW p \in Procs, Truncate(p) \/ Write(p) PROVE Asked'
  <2>1. \A q \in Procs : Active(q)' => Active(q)
    BY <1>5 DEF Truncate, Write, To, Active, TypeOK
  <2>2. dir[p] \in asked /\ text[p].trusted \subseteq asked
    BY <1>5 DEF Truncate, Write, Active, Asked
  <2>3. Edited(p).trusted \subseteq asked /\ Torn.trusted \subseteq asked
    BY <2>2, EditedType DEF Torn
  <2>4. file' \in {Edited(p), Torn}
    BY <1>5 DEF Truncate, Write
  <2>5. file'.trusted \subseteq asked /\ UNCHANGED <<text, dir, asked>>
    BY <1>5, <2>3, <2>4 DEF Truncate, Write
  <2>6. file' # Missing
    BY <2>4, EditedType, ContentsOf, MissingIsNoContents
  <2> QED BY <2>1, <2>5, <2>6 DEF Asked
<1>6. CASE AgentWrites
  <2>1. file \in Contents /\ file' = [file EXCEPT !.own = own + 1]
    BY <1>6 DEF AgentWrites, TypeOK
  <2>2. file'.trusted = file.trusted
    BY <2>1 DEF Contents
  <2>3. file # Missing /\ UNCHANGED <<pc, dir, text, asked>>
    BY <1>6 DEF AgentWrites
  <2>4. own + 1 \in 0..MaxOwn
    BY <1>6, MaxOwnIsNumber DEF AgentWrites, TypeOK
  <2>5. file' # Missing
    BY <2>1, <2>4, ContentsOf, MissingIsNoContents
  <2> QED BY <2>2, <2>3, <2>5 DEF Asked, Active
<1> QED BY <1>1, <1>2, <1>3, <1>4, <1>5, <1>6 DEF Next

-----------------------------------------------------------------------------
(* What is recoverable, while the file has one user at a time              *)

Solo == \A p, q \in Procs : Active(p) /\ Active(q) => p = q

\* The contents have all that must not be lost.
Good(c) == c # Missing /\ c.own = own /\ reported \subseteq c.trusted

\* A command that has emptied the file has a good backup and a good text to write; before that,
\* a file that is not good is Claude's, and torn, and the backup is good.
Sound == Good(file) \/ (kind = "claude" /\ file = Torn /\ Good(backup))
Stages ==
    /\ \A p \in Procs :
          /\ pc[p] = "backup" => Good(file) /\ text[p] = file
          /\ pc[p] = "truncate" => Good(file) /\ text[p] = file /\ backup = file
          /\ pc[p] = "write" => Good(text[p]) /\ backup = text[p] /\ file = Torn
    /\ (\A p \in Procs : pc[p] # "write") /\ file # Missing => Sound

\* The cases the property is about.
Counts == ~overlapped /\ (kind = "codex" => ~crashed)
RecoverableInv == TypeOK /\ Asked /\ (~overlapped => Solo) /\ (Counts => Stages)

LEMMA SoloStep ==
    ASSUME TypeOK, ~overlapped => Solo, [Next]_vars PROVE ~overlapped' => Solo'
<1> SUFFICES ASSUME ~overlapped' PROVE Solo'
  OBVIOUS
<1>1. CASE \A q \in Procs : Active(q)' => Active(q)
  <2>1. ~overlapped
    BY DEF Next, Look, Read, Backup, Truncate, Write, Verify, Crash, AgentWrites, vars, TypeOK
  <2> QED BY <1>1, <2>1 DEF Solo
<1>2. ASSUME NEW p \in Procs, NEW d \in Dirs, NEW check \in BOOLEAN, Look(p, d, check)
      PROVE  Solo'
  BY <1>2 DEF Look, Alone, To, Solo, Active, TypeOK
<1>3. ASSUME NEW p \in Procs,
             Read(p) \/ Backup(p) \/ Truncate(p) \/ Write(p) \/ Verify(p) \/ Crash(p)
      PROVE  Solo'
  <2>1. \A q \in Procs : Active(q)' => Active(q)
    BY <1>3 DEF Read, Backup, Truncate, Write, Verify, Crash, To, Active, TypeOK
  <2> QED BY <1>1, <2>1
<1>4. CASE AgentWrites \/ UNCHANGED vars
  BY <1>1, <1>4 DEF AgentWrites, vars, Active
<1> QED BY <1>2, <1>3, <1>4 DEF Next

\* The directory that is found trusted is in a good file.
LEMMA ReportGood ==
    ASSUME Sound, NEW d \in Dirs, UNCHANGED <<kind, file, backup, own>>,
           reported' = IF IsTrusted(d) THEN reported \cup {d} ELSE reported
    PROVE  Sound' /\ (IsTrusted(d) => Good(file)')
  BY DEF Sound, Good, IsTrusted, Parses, Torn

LEMMA StagesStep ==
    ASSUME RecoverableInv, "backup" \notin Faults, [Next]_vars, Counts'
    PROVE  Stages'
<1>1. Counts
  BY DEF Counts, Next, Look, Read, Backup, Truncate, Write, Verify, Crash, AgentWrites, vars,
         RecoverableInv, TypeOK
<1>2. TypeOK /\ Asked /\ Solo /\ Stages
  BY <1>1 DEF RecoverableInv, Counts
<1> HIDE DEF RecoverableInv
\* A step of the one command that is active.
<1>3. ASSUME NEW p \in Procs, Active(p)
      PROVE  /\ \A q \in Procs : q # p => pc[q] = "idle"
             /\ file # Missing
             /\ pc[p] # "write" => Sound
  BY <1>2, <1>3 DEF Solo, Active, Stages, Asked
<1>4. ASSUME NEW p \in Procs, NEW step \in Steps, Active(p), To(p, step)
      PROVE  /\ \A q \in Procs : q # p => pc'[q] = "idle"
             /\ pc'[p] = step
  BY <1>2, <1>3, <1>4 DEF To, TypeOK
<1>5. ASSUME NEW p \in Procs, NEW d \in Dirs, NEW check \in BOOLEAN, Look(p, d, check)
      PROVE  Stages'
  <2>1. \A q \in Procs : pc[q] = "idle"
    BY <1>5 DEF Look, Alone, Counts
  <2>2. \A q \in Procs : pc'[q] \in {"idle", "read"}
    BY <1>2, <1>5, <2>1 DEF Look, To, TypeOK
  <2>3. file # Missing => Sound
    BY <1>2, <2>1 DEF Stages
  <2>4. file # Missing => Sound'
    BY <1>5, <2>3, ReportGood DEF Look
  <2> QED BY <1>5, <2>2, <2>4 DEF Look, Stages
<1>6. ASSUME NEW p \in Procs, Read(p) PROVE Stages'
  <2>1. Active(p) /\ Sound /\ file # Missing
    BY <1>3, <1>6 DEF Read, Active
  <2>2. UNCHANGED <<kind, file, backup, own>>
    BY <1>6 DEF Read
  <2>3. CASE To(p, "backup") /\ text' = [text EXCEPT ![p] = file] /\ UNCHANGED reported
    <3>1. Good(file)
      BY <1>6, <2>1, <2>3, <1>2 DEF Read, Sound, Parses, To, TypeOK
    <3>2. text'[p] = file
      BY <1>2, <2>3 DEF TypeOK
    <3>3. pc'[p] = "backup" /\ \A q \in Procs : q # p => pc'[q] = "idle"
      BY <1>4, <2>1, <2>3 DEF Steps
    <3> QED BY <2>2, <2>3, <3>1, <3>2, <3>3 DEF Stages, Sound, Good
  <2>4. CASE To(p, "idle") /\ UNCHANGED text
                /\ reported' = IF IsTrusted(dir[p]) THEN reported \cup {dir[p]} ELSE reported
    <3>1. \A q \in Procs : pc'[q] = "idle"
      BY <1>4, <2>1, <2>4 DEF Steps
    <3>2. Sound'
      BY <1>2, <2>1, <2>2, <2>4, ReportGood DEF TypeOK
    <3> QED BY <3>1, <3>2 DEF Stages
  <2> QED BY <1>6, <2>3, <2>4 DEF Read, IsTrusted
<1>7. ASSUME NEW p \in Procs, Backup(p) PROVE Stages'
  <2>1. Active(p) /\ pc[p] = "backup"
    BY <1>7 DEF Backup, Active
  <2>2. Good(file) /\ text[p] = file
    BY <1>2, <2>1 DEF Stages
  <2>3. pc'[p] = "truncate" /\ \A q \in Procs : q # p => pc'[q] = "idle"
    BY <1>4, <1>7, <2>1 DEF Backup, Steps
  <2>4. backup' = file /\ UNCHANGED <<kind, file, text, own, reported>>
    BY <1>7 DEF Backup
  <2> QED BY <2>2, <2>3, <2>4 DEF Stages, Good, Sound
<1>8. ASSUME NEW p \in Procs, Truncate(p) PROVE Stages'
  <2>1. Active(p) /\ pc[p] = "truncate"
    BY <1>8 DEF Truncate, Active
  <2>2. Good(file) /\ text[p] = file /\ backup = file
    BY <1>2, <2>1 DEF Stages
  <2>3. pc'[p] = "write" /\ \A q \in Procs : q # p => pc'[q] = "idle"
    BY <1>4, <1>8, <2>1 DEF Truncate, Steps
  <2>4. file' = Torn /\ UNCHANGED <<kind, backup, text, own, reported>>
    BY <1>8 DEF Truncate
  <2> QED BY <2>2, <2>3, <2>4 DEF Stages, Good
<1>9. ASSUME NEW p \in Procs, Write(p) PROVE Stages'
  <2>1. Active(p) /\ pc[p] = "write"
    BY <1>9 DEF Write, Active
  <2>2. Good(text[p]) /\ file = Torn
    BY <1>2, <2>1 DEF Stages
  <2>3. pc'[p] = "verify" /\ \A q \in Procs : q # p => pc'[q] = "idle"
    BY <1>4, <1>9, <2>1 DEF Write, Steps
  <2>4. file' = Edited(p) /\ UNCHANGED <<kind, backup, text, own, reported>>
    BY <1>9, <2>2 DEF Write
  <2>5. Good(Edited(p))
    BY <1>2, <2>2, EditedType, MissingIsNoContents DEF Good
  <2>6. Good(file)'
    BY <2>4, <2>5 DEF Good
  <2> QED BY <2>3, <2>6 DEF Stages, Sound
<1>10. ASSUME NEW p \in Procs, Verify(p) PROVE Stages'
  <2>1. Active(p) /\ Sound
    BY <1>3, <1>10 DEF Verify, Active
  <2>2. \A q \in Procs : pc'[q] = "idle"
    BY <1>4, <1>10, <2>1 DEF Verify, Steps
  <2>3. Sound'
    BY <1>2, <1>10, <2>1, ReportGood DEF Verify, TypeOK
  <2> QED BY <2>2, <2>3 DEF Stages
<1>11. ASSUME NEW p \in Procs, Crash(p) PROVE Stages'
  <2>1. Active(p) /\ kind = "claude"
    BY <1>2, <1>11 DEF Crash, Active, Counts, TypeOK
  <2>2. \A q \in Procs : pc'[q] = "idle"
    BY <1>4, <1>11, <2>1 DEF Crash, Steps
  <2>3. Good(file) \/ (backup' = backup /\ file = Torn /\ Good(backup))
    BY <1>2, <1>3, <1>11, <2>1 DEF Crash, Stages, Sound
  <2>4. Sound'
    BY <1>11, <2>1, <2>3 DEF Crash, Sound, Good
  <2> QED BY <2>2, <2>4 DEF Stages
<1>12. CASE AgentWrites
  <2>1. \A q \in Procs : pc[q] = "idle"
    BY <1>12 DEF AgentWrites, Counts
  <2>2. Good(file) /\ file \in Contents
    BY <1>2, <1>12, <2>1 DEF AgentWrites, Stages, Sound, TypeOK
  <2>3. Good(file)'
    <3>1. file' = [file EXCEPT !.own = own + 1] /\ own' = own + 1 /\ reported' = reported
      BY <1>12 DEF AgentWrites
    <3>2. file'.own = own + 1 /\ file'.trusted = file.trusted
      BY <2>2, <3>1 DEF Contents
    <3>3. file' # Missing
      <4>1. own + 1 \in 0..MaxOwn
        BY <1>2, <1>12, MaxOwnIsNumber DEF AgentWrites, TypeOK
      <4> QED BY <2>2, <3>1, <4>1, ContentsOf, MissingIsNoContents
    <3> QED BY <2>2, <3>1, <3>2, <3>3 DEF Good
  <2> QED BY <1>12, <2>1, <2>3 DEF AgentWrites, Stages, Sound
<1>13. CASE UNCHANGED vars
  BY <1>2, <1>13 DEF vars, Stages, Sound, Good
<1> QED BY <1>5, <1>6, <1>7, <1>8, <1>9, <1>10, <1>11, <1>12, <1>13 DEF Next

\* Every content of the file, its backup and the texts has its type.
THEOREM TrustTyped == Spec => []TypeOK
<1>1. AskedInv /\ [Next]_vars => AskedInv'
  BY TypeStep, AskedStep DEF AskedInv
<1>2. AskedInv => TypeOK
  BY DEF AskedInv
<1> QED BY <1>1, <1>2, InitAsked, PTL DEF Spec

\* cbds trust brings no directory into the file that nobody asked it to trust, however its
\* commands overlap, crash and meet torn files.
THEOREM TrustAsked == Spec => []OnlyAskedFor
<1>1. AskedInv /\ [Next]_vars => AskedInv'
  BY TypeStep, AskedStep DEF AskedInv
<1>2. AskedInv => OnlyAskedFor
  BY DEF AskedInv, Asked, OnlyAskedFor
<1> QED BY <1>1, <1>2, InitAsked, PTL DEF Spec

\* While backups succeed and the file has one user at a time, the settings and the reported
\* directories are in the file or in its backup.
THEOREM TrustRecovers == ASSUME "backup" \notin Faults PROVE Spec => []Recoverable
<1>1. Init => RecoverableInv
  <2>1. Init => Solo /\ Stages
    BY DEF Init, Solo, Active, Stages, Sound, Good
  <2> QED BY <2>1, InitAsked DEF AskedInv, RecoverableInv
<1>2. RecoverableInv /\ [Next]_vars => RecoverableInv'
  <2> SUFFICES ASSUME RecoverableInv, [Next]_vars PROVE RecoverableInv'
    OBVIOUS
  <2>1. TypeOK' /\ Asked' /\ (~overlapped' => Solo')
    BY TypeStep, AskedStep, SoloStep DEF RecoverableInv
  <2>2. Counts' => Stages'
    BY StagesStep
  <2> QED BY <2>1, <2>2 DEF RecoverableInv
<1>3. RecoverableInv => Recoverable
  <2> SUFFICES ASSUME RecoverableInv, file # Missing, Counts
               PROVE \E copy \in {file, backup} \ {Missing} :
                        copy.own = own /\ reported \subseteq copy.trusted
    BY DEF Recoverable, Counts
  <2>1. Stages
    BY DEF RecoverableInv
  <2>2. Good(file) \/ Good(backup)
    BY <2>1 DEF Stages, Sound
  <2> QED BY <2>2 DEF Good
<1> QED BY <1>1, <1>2, <1>3, PTL DEF Spec
=============================================================================
