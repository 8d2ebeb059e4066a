-------------------------------- MODULE Mail --------------------------------
(***************************************************************************)
(* The mail of a worker: the questions it asks, the replies and follow-ups *)
(* the coordinator files for it in the outbox, and the cursor of what it   *)
(* has read.  A worker reads with `cbds check`, or with `cbds ask`, which  *)
(* waits for the reply to one question.                                    *)
(*                                                                         *)
(* The cursor is read, compared and written without a lock; a number is    *)
(* claimed in one step (module StoreLock) and its file written in another. *)
(***************************************************************************)
EXTENDS Naturals, FiniteSetsExt

CONSTANTS
    Dispatches,
    Readers,        \* the workers' processes (bound)
    Owner,          \* Owner[r]: the dispatch in whose pane r runs
    Clerks,         \* the coordinator's processes (bound)
    MaxSeq,         \* bound on the sequence number
    Commands,       \* "ask", "check", "check_all", "reply", "send"
    Faults          \* "crash"; "revoke": the attempt loses its authority

ASSUME OwnersAreDispatches == Owner \in [Readers -> Dispatches]
ASSUME MaxSeqIsNat == MaxSeq \in Nat

VARIABLES
    seq,        \* .seq
    questions,  \* the questions in the inbox
    outbox,     \* outbox/*.json
    acked,      \* the cursor of each dispatch
    live,       \* the dispatches that have authority
    desk,       \* what each coordinator process has claimed a number for; {} if nothing
    pc, mem,    \* where each worker process is, and what it has read
    shown,      \* history: the numbers of the mail printed to a worker
    answered    \* history: the questions whose ask has returned the answer

vars == <<seq, questions, outbox, acked, live, desk, pc, mem, shown, answered>>
post == <<seq, questions, outbox, acked>>

Question == [seq : Nat, disp : Dispatches]
\* re is the question a reply answers; 0 for a follow-up.
Letter == [seq : Nat, disp : Dispatches, re : Nat]
\* What a command has read: its question, if it asks; where a check starts; what it found.
Memory == [q : Nat, all : BOOLEAN, from : Nat, got : SUBSET Letter]
NoMemory == [q |-> 0, all |-> FALSE, from |-> 0, got |-> {}]

Init ==
    /\ seq = 0 /\ questions = {} /\ outbox = {}
    /\ acked = [d \in Dispatches |-> 0] /\ live = Dispatches
    /\ desk = [c \in Clerks |-> {}]
    /\ pc = [r \in Readers |-> "idle"] /\ mem = [r \in Readers |-> NoMemory]
    /\ shown = {} /\ answered = {}

Goto(r, label, m) == pc' = [pc EXCEPT ![r] = label] /\ mem' = [mem EXCEPT ![r] = m]
Finish(r) == Goto(r, "idle", NoMemory)
At(r, label) == pc[r] = label

-----------------------------------------------------------------------------
(* cbds ask                                                                *)

\* The number of a new question is claimed; the question needs authority, and its file.
Ask(r) ==
    /\ At(r, "idle") /\ "ask" \in Commands /\ Owner[r] \in live
    /\ seq < MaxSeq /\ seq' = seq + 1
    /\ Goto(r, "ask_file", [NoMemory EXCEPT !.q = seq + 1])
    /\ UNCHANGED <<questions, outbox, acked, live, desk, shown, answered>>

AskFile(r) ==
    /\ At(r, "ask_file")
    /\ questions' = questions \cup {[seq |-> mem[r].q, disp |-> Owner[r]]}
    /\ Goto(r, "ask_scan", mem[r])
    /\ UNCHANGED <<seq, outbox, acked, live, desk, shown, answered>>

\* ask --resume: the same wait, for a question that was asked before.
AskResume(r) ==
    /\ At(r, "idle") /\ "ask" \in Commands /\ Owner[r] \in live
    /\ \E x \in questions :
          x.disp = Owner[r] /\ Goto(r, "ask_scan", [NoMemory EXCEPT !.q = x.seq])
    /\ UNCHANGED <<post, live, desk, shown, answered>>

\* Mutant: only mail above the cursor is looked at.
Answers_Unread(r) ==
    {x \in outbox : x.re = mem[r].q /\ x.disp = Owner[r] /\ x.seq > acked[x.disp]}
\* The replies to the question; the cursor plays no part.
Answers(r) == {x \in outbox : x.re = mem[r].q /\ x.disp = Owner[r]}

\* The oldest answer is taken, at the first scan or at any later one.
AskFound(r) ==
    /\ At(r, "ask_scan") \/ At(r, "ask_block")
    /\ Answers(r) # {}
    /\ LET first == CHOOSE x \in Answers(r) : \A y \in Answers(r) : x.seq <= y.seq
       IN  Goto(r, "advance", [mem[r] EXCEPT !.got = {first}])
    /\ UNCHANGED <<post, live, desk, shown, answered>>

AskBlock(r) ==
    /\ At(r, "ask_scan") /\ Answers(r) = {}
    /\ Goto(r, "ask_block", mem[r])
    /\ UNCHANGED <<post, live, desk, shown, answered>>

\* ask_timeout: the question stays where it is.
AskTimeout(r) ==
    /\ At(r, "ask_block")
    /\ Finish(r)
    /\ UNCHANGED <<post, live, desk, shown, answered>>

-----------------------------------------------------------------------------
(* cbds check                                                              *)

\* Any worker may read its mail, with authority or without; --all starts from the beginning.
Check(r) ==
    /\ At(r, "idle")
    /\ \/ /\ "check" \in Commands
          /\ Goto(r, "check_scan", [NoMemory EXCEPT !.from = acked[Owner[r]]])
       \/ /\ "check_all" \in Commands
          /\ Goto(r, "check_scan", [NoMemory EXCEPT !.all = TRUE])
    /\ UNCHANGED <<post, live, desk, shown, answered>>

Mine(r) == {x \in outbox : x.disp = Owner[r] /\ x.seq > mem[r].from}

CheckFound(r) ==
    /\ At(r, "check_scan") \/ At(r, "check_block")
    /\ Mine(r) # {}
    /\ Goto(r, "advance", [mem[r] EXCEPT !.got = Mine(r)])
    /\ UNCHANGED <<post, live, desk, shown, answered>>

\* No mail: the end, or, with --wait, a wait that finds some or times out.
CheckEmpty(r) ==
    /\ \/ At(r, "check_scan") /\ Mine(r) = {} /\ (Finish(r) \/ Goto(r, "check_block", mem[r]))
       \/ At(r, "check_block") /\ Finish(r)
    /\ UNCHANGED <<post, live, desk, shown, answered>>

-----------------------------------------------------------------------------
(* The cursor, and what the worker sees                                    *)

Newest(r) == Max({x.seq : x \in mem[r].got})

\* Mutant: what is printed is not marked as read.
Advance_Never(r) ==
    /\ At(r, "advance")
    /\ Goto(r, "print", mem[r])
    /\ UNCHANGED <<post, live, desk, shown, answered>>

Advance(r) ==
    /\ At(r, "advance")
    /\ Goto(r, IF Newest(r) > acked[Owner[r]] THEN "advance_write" ELSE "print", mem[r])
    /\ UNCHANGED <<post, live, desk, shown, answered>>

\* Mutant: the cursor is set to the last number claimed.
AdvanceWrite_Seq(r) ==
    /\ At(r, "advance_write")
    /\ acked' = [acked EXCEPT ![Owner[r]] = seq]
    /\ Goto(r, "print", mem[r])
    /\ UNCHANGED <<seq, questions, outbox, live, desk, shown, answered>>

AdvanceWrite(r) ==
    /\ At(r, "advance_write")
    /\ acked' = [acked EXCEPT ![Owner[r]] = Newest(r)]
    /\ Goto(r, "print", mem[r])
    /\ UNCHANGED <<seq, questions, outbox, live, desk, shown, answered>>

PrintMail(r) ==
    /\ At(r, "print")
    /\ shown' = shown \cup {x.seq : x \in mem[r].got}
    /\ answered' = IF mem[r].q # 0 THEN answered \cup {mem[r].q} ELSE answered
    /\ Finish(r)
    /\ UNCHANGED <<post, live, desk>>

-----------------------------------------------------------------------------
(* The coordinator: cbds reply and cbds send                               *)

\* Mutant: the reply is addressed to the question, not to the worker that asked it.
Reply_ToQuestion(c) ==
    /\ desk[c] = {} /\ "reply" \in Commands
    /\ seq < MaxSeq /\ seq' = seq + 1
    /\ \E x \in questions :
          desk' = [desk EXCEPT ![c] = {[seq |-> seq + 1, disp |-> x.seq, re |-> x.seq]}]
    /\ UNCHANGED <<questions, outbox, acked, live, pc, mem, shown, answered>>

Reply(c) ==
    /\ desk[c] = {} /\ "reply" \in Commands
    /\ seq < MaxSeq /\ seq' = seq + 1
    /\ \E x \in questions :
          desk' = [desk EXCEPT ![c] = {[seq |-> seq + 1, disp |-> x.disp, re |-> x.seq]}]
    /\ UNCHANGED <<questions, outbox, acked, live, pc, mem, shown, answered>>

Send(c) ==
    /\ desk[c] = {} /\ "send" \in Commands
    /\ seq < MaxSeq /\ seq' = seq + 1
    /\ \E d \in Dispatches :
          desk' = [desk EXCEPT ![c] = {[seq |-> seq + 1, disp |-> d, re |-> 0]}]
    /\ UNCHANGED <<questions, outbox, acked, live, pc, mem, shown, answered>>

FileMail(c) ==
    /\ desk[c] # {}
    /\ outbox' = outbox \cup desk[c]
    /\ desk' = [desk EXCEPT ![c] = {}]
    /\ UNCHANGED <<seq, questions, acked, live, pc, mem, shown, answered>>

-----------------------------------------------------------------------------
(* The environment                                                         *)

Revoke(d) ==
    /\ "revoke" \in Faults /\ live' = live \ {d}
    /\ UNCHANGED <<post, desk, pc, mem, shown, answered>>

Crash(r) ==
    /\ "crash" \in Faults /\ ~At(r, "idle")
    /\ Finish(r)
    /\ UNCHANGED <<post, live, desk, shown, answered>>

-----------------------------------------------------------------------------
\* What a worker's command does once it runs; it ends by itself.
ReaderStep(r) ==
    \/ AskFile(r) \/ AskFound(r) \/ AskBlock(r) \/ AskTimeout(r)
    \/ CheckFound(r) \/ CheckEmpty(r) \/ Advance(r) \/ AdvanceWrite(r) \/ PrintMail(r)

Next ==
    \/ \E r \in Readers : Ask(r) \/ AskResume(r) \/ Check(r) \/ ReaderStep(r) \/ Crash(r)
    \/ \E c \in Clerks : Reply(c) \/ Send(c) \/ FileMail(c)
    \/ \E d \in Dispatches : Revoke(d)

Spec == Init /\ [][Next]_vars

\* Commands end, and a worker with an open question comes back to it: whenever its pane is at
\* a prompt over and over, it resumes (one strong fairness condition per question).
Resumes(r, n) == AskResume(r) /\ mem'[r].q = n
PatientSpec ==
    /\ Spec
    /\ \A r \in Readers : WF_vars(ReaderStep(r))
    /\ \A r \in Readers, n \in 1..MaxSeq : SF_vars(Resumes(r, n))

-----------------------------------------------------------------------------
(* Properties                                                              *)

TypeOK ==
    /\ seq \in Nat /\ questions \in SUBSET Question /\ outbox \in SUBSET Letter
    /\ acked \in [Dispatches -> Nat] /\ live \in SUBSET Dispatches
    /\ desk \in [Clerks -> SUBSET Letter]
    /\ pc \in [Readers -> {"idle", "ask_file", "ask_scan", "ask_block", "check_scan",
                           "check_block", "advance", "advance_write", "print"}]
    /\ mem \in [Readers -> Memory]
    /\ shown \in SUBSET Nat /\ answered \in SUBSET Nat

\* A check moves the cursor only over the mail it prints: what was filed between its look at
\* the outbox and its ack stays above the cursor.
CheckAcksWhatItPrints ==
    [][\A r \in Readers : AdvanceWrite(r) /\ mem[r].q = 0 =>
          \A x \in outbox : x.disp = Owner[r] /\ x.seq > acked[x.disp] /\ x.seq <= acked'[x.disp]
                               => x \in mem[r].got]_vars

\* A check without --all prints nothing that an earlier check, or ask, of the worker has printed.
CheckPrintsOnce ==
    [][\A r \in Readers : PrintMail(r) /\ mem[r].q = 0 /\ ~mem[r].all =>
          {x.seq : x \in mem[r].got} \cap shown = {}]_vars

\* A worker that resumes its question gets the answer, whatever it read in between, unless its
\* attempt loses its authority or its commands keep crashing.  (A crash that looks like the
\* command's own end, a timeout say, is no crash.)
AnswerReachesAsker ==
    (\A r \in Readers : <>[][Crash(r) => ReaderStep(r)]_vars) =>
        \A n \in 1..MaxSeq : \A d \in Dispatches :
            (\E x \in outbox : x.re = n /\ x.disp = d) ~> (n \in answered \/ d \notin live)

=============================================================================
