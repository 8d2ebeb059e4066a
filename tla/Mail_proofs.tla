---------------------------- MODULE Mail_proofs ----------------------------
(***************************************************************************)
(* A worker's mail for any number of workers, letters and coordinators:    *)
(* its cursor passes over nothing a check has not printed, and nothing is  *)
(* printed twice, as long as one command at a time reads it.               *)
(***************************************************************************)
EXTENDS Mail, WellFoundedInduction, TLAPS

Labels == {"idle", "ask_file", "ask_scan", "ask_block", "check_scan", "check_block",
           "advance", "advance_write", "print"}

\* The letters that have a number, filed or not; no two have the same.
Letters == outbox \cup UNION {desk[c] : c \in Clerks}

Numbered ==
    /\ \A x \in Letters : x.seq <= seq
    /\ \A x, y \in Letters : x.seq = y.seq => x = y

\* What a worker's command holds is mail of its own; it goes on to the cursor with some.
Holds(r, l, m) ==
    /\ m.got \subseteq outbox
    /\ \A x \in m.got : x.disp = Owner[r]
    /\ l \in {"advance", "advance_write", "print"} => m.got # {}
    /\ l \in {"check_scan", "check_block"} => m.q = 0
    /\ l \in {"ask_file", "ask_scan", "ask_block"} => m.q # 0

\* Number 0 is no question: it marks the mail that is no answer.
MailInv ==
    /\ TypeOK /\ Numbered /\ \A x \in questions : x.seq # 0
    /\ \A r \in Readers : Holds(r, pc[r], mem[r])

-----------------------------------------------------------------------------
LEMMA SomeMax ==
    ASSUME NEW S, S \subseteq Nat, S # {}, NEW n \in Nat, \A i \in S : i <= n
    PROVE  Max(S) \in S /\ \A i \in S : i <= Max(S)
<1> DEFINE T == {n - i : i \in S}
<1>1. T \subseteq Nat /\ T # {}
  OBVIOUS
<1>2. PICK k \in T : \A j \in T : ~ (<<j, k>> \in OpToRel(<, Nat))
  <2> HIDE DEF T
  <2> QED BY <1>1, NatLessThanWellFounded, WFMin
<1>3. \A j \in T : k <= j
  <2> HIDE DEF T
  <2> SUFFICES ASSUME NEW j \in T PROVE k <= j
    OBVIOUS
  <2>1. j \in Nat /\ k \in Nat
    BY <1>1
  <2>2. j < k => <<j, k>> \in OpToRel(<, Nat)
    BY <2>1 DEF OpToRel
  <2>3. ~ (j < k)
    BY <1>2, <2>2
  <2> QED BY <2>1, <2>3
<1>4. PICK i \in S : k = n - i
  OBVIOUS
<1>5. \A j \in S : j <= i
  <2> TAKE j \in S
  <2>1. k <= n - j
    BY <1>3
  <2> QED BY <1>4, <2>1
<1>6. \E x \in S : \A y \in S : x >= y
  BY <1>5
<1> QED BY <1>6 DEF Max

\* What a command holds has a newest letter.
LEMMA NewestHeld ==
    ASSUME MailInv, NEW r \in Readers, mem[r].got # {}
    PROVE  /\ Newest(r) \in Nat /\ \E x \in mem[r].got : Newest(r) = x.seq
           /\ \A x \in mem[r].got : x.seq <= Newest(r)
<1> DEFINE S == {x.seq : x \in mem[r].got}
<1>1. mem[r].got \subseteq outbox
  BY DEF MailInv, Holds
<1>2. S \subseteq Nat /\ S # {} /\ seq \in Nat
  BY <1>1 DEF MailInv, TypeOK, Letter
<1>3. \A i \in S : i <= seq
  BY <1>1 DEF MailInv, Numbered, Letters
<1>4. Max(S) \in S /\ \A i \in S : i <= Max(S)
  <2> HIDE DEF S
  <2> QED BY <1>2, <1>3, SomeMax
<1> QED BY <1>2, <1>4 DEF Newest

\* Of the answers to a question one is the oldest.
LEMMA OldestAnswer ==
    ASSUME MailInv, NEW r \in Readers, Answers(r) # {}
    PROVE  (CHOOSE x \in Answers(r) : \A y \in Answers(r) : x.seq <= y.seq) \in Answers(r)
<1> DEFINE T == {x.seq : x \in Answers(r)}
<1>1. T \subseteq Nat /\ T # {}
  BY DEF MailInv, TypeOK, Letter, Answers
<1>2. PICK k \in T : \A j \in T : ~ (<<j, k>> \in OpToRel(<, Nat))
  <2> HIDE DEF T
  <2> QED BY <1>1, NatLessThanWellFounded, WFMin
<1>3. \A j \in T : k <= j
  <2> HIDE DEF T
  <2> SUFFICES ASSUME NEW j \in T PROVE k <= j
    OBVIOUS
  <2>1. j \in Nat /\ k \in Nat
    BY <1>1
  <2>2. j < k => <<j, k>> \in OpToRel(<, Nat)
    BY <2>1 DEF OpToRel
  <2>3. ~ (j < k)
    BY <1>2, <2>2
  <2> QED BY <2>1, <2>3
<1>4. \E x \in Answers(r) : \A y \in Answers(r) : x.seq <= y.seq
  <2>1. PICK x \in Answers(r) : k = x.seq
    OBVIOUS
  <2> QED BY <1>3, <2>1
<1> QED BY <1>4

LEMMA NoMemoryIsMemory == NoMemory \in Memory /\ NoMemory.got = {} /\ NoMemory.q = 0
BY DEF NoMemory, Memory

LEMMA InitMail == Init => MailInv
<1> SUFFICES ASSUME Init PROVE MailInv
  OBVIOUS
<1>1. TypeOK
  BY NoMemoryIsMemory DEF Init, TypeOK
<1>2. Numbered
  BY DEF Init, Numbered, Letters
<1>3. (\A x \in questions : x.seq # 0) /\ \A r \in Readers : Holds(r, pc[r], mem[r])
  BY NoMemoryIsMemory DEF Init, Holds
<1> QED BY <1>1, <1>2, <1>3 DEF MailInv

\* Where each step of a worker's command leads.
LEMMA ReaderSteps ==
    ASSUME MailInv, NEW r \in Readers,
           Ask(r) \/ AskResume(r) \/ Check(r) \/ ReaderStep(r) \/ Crash(r)
    PROVE  \E l \in Labels, m \in Memory : Goto(r, l, m) /\ Holds(r, l, m)
<1> DEFINE n == mem[r]
<1> USE DEF At, Finish, post
<1>1. /\ n \in Memory /\ Holds(r, pc[r], n) /\ seq \in Nat
      /\ outbox \subseteq Letter /\ questions \subseteq Question
      /\ acked \in [Dispatches -> Nat] /\ Owner[r] \in Dispatches
  BY OwnersAreDispatches DEF MailInv, TypeOK
<1>2. NoMemory \in Memory /\ Holds(r, "idle", NoMemory) /\ "idle" \in Labels
  BY NoMemoryIsMemory DEF Holds, Labels
<1>3. CASE Ask(r)
  <2> DEFINE m == [NoMemory EXCEPT !.q = seq + 1]
  <2>1. m \in Memory /\ m.got = {} /\ m.q # 0
    <3>1. seq + 1 \in Nat /\ seq + 1 # 0
      BY <1>1
    <3> QED BY <3>1 DEF NoMemory, Memory
  <2>2. Goto(r, "ask_file", m)
    BY <1>3 DEF Ask
  <2> HIDE DEF m
  <2> QED BY <2>1, <2>2 DEF Holds, Labels
<1>4. CASE AskFile(r)
  BY <1>1, <1>4 DEF AskFile, Holds, Labels
<1>5. CASE AskFound(r)
  <2> DEFINE first == CHOOSE x \in Answers(r) : \A y \in Answers(r) : x.seq <= y.seq
             m == [n EXCEPT !.got = {first}]
  <2>1. first \in outbox /\ first.disp = Owner[r]
    <3>1. first \in Answers(r)
      BY <1>5, OldestAnswer DEF AskFound
    <3> HIDE DEF first
    <3> QED BY <3>1 DEF Answers
  <2>2. Goto(r, "advance", m)
    BY <1>5 DEF AskFound
  <2> HIDE DEF first
  <2>3. m \in Memory /\ m.got = {first}
    BY <1>1, <2>1 DEF Memory
  <2> HIDE DEF m
  <2> QED BY <2>1, <2>2, <2>3 DEF Holds, Labels
<1>6. CASE AskResume(r)
  <2>1. PICK x \in questions : Goto(r, "ask_scan", [NoMemory EXCEPT !.q = x.seq])
    BY <1>6 DEF AskResume
  <2> DEFINE m == [NoMemory EXCEPT !.q = x.seq]
  <2>2. x.seq \in Nat /\ x.seq # 0
    BY <1>1 DEF MailInv, Question
  <2>3. m \in Memory /\ m.got = {} /\ m.q # 0
    BY <2>2 DEF NoMemory, Memory
  <2> HIDE DEF m
  <2> QED BY <2>1, <2>3 DEF Holds, Labels, m
<1>7. CASE AskBlock(r)
  BY <1>1, <1>7 DEF AskBlock, Holds, Labels
<1>8. CASE Check(r)
  <2> DEFINE m1 == [NoMemory EXCEPT !.from = acked[Owner[r]]]
             m2 == [NoMemory EXCEPT !.all = TRUE]
  <2>1. m1 \in Memory /\ m1.got = {} /\ m1.q = 0 /\ m2 \in Memory /\ m2.got = {} /\ m2.q = 0
    BY <1>1 DEF NoMemory, Memory
  <2>2. Goto(r, "check_scan", m1) \/ Goto(r, "check_scan", m2)
    BY <1>8 DEF Check
  <2> HIDE DEF m1, m2
  <2> QED BY <2>1, <2>2 DEF Holds, Labels
<1>9. CASE CheckFound(r)
  <2> DEFINE m == [n EXCEPT !.got = Mine(r)]
  <2>1. m \in Memory /\ m.got = Mine(r)
    BY <1>1 DEF Memory, Mine
  <2>2. Goto(r, "advance", m)
    BY <1>9 DEF CheckFound
  <2> HIDE DEF m
  <2> QED BY <1>9, <2>1, <2>2 DEF Holds, Labels, CheckFound, Mine
<1>10. CASE CheckEmpty(r)
  <2>1. CASE Finish(r)
    BY <1>2, <2>1
  <2>2. CASE At(r, "check_scan") /\ Goto(r, "check_block", n)
    BY <1>1, <2>2 DEF Holds, Labels
  <2> QED BY <1>10, <2>1, <2>2 DEF CheckEmpty
<1>11. CASE Advance(r) \/ AdvanceWrite(r)
  BY <1>1, <1>11 DEF Advance, AdvanceWrite, Holds, Labels
<1>12. CASE AskTimeout(r) \/ PrintMail(r) \/ Crash(r)
  BY <1>2, <1>12 DEF AskTimeout, PrintMail, Crash
<1> QED BY <1>3, <1>4, <1>5, <1>6, <1>7, <1>8, <1>9, <1>10, <1>11, <1>12 DEF ReaderStep

\* A step of a worker's command keeps the mail and the numbers.
LEMMA ReaderKeeps ==
    ASSUME MailInv, NEW r \in Readers,
           Ask(r) \/ AskResume(r) \/ Check(r) \/ ReaderStep(r) \/ Crash(r)
    PROVE  MailInv'
<1> USE DEF At, Finish, post
<1>1. PICK l \in Labels, m \in Memory : Goto(r, l, m) /\ Holds(r, l, m)
  BY ReaderSteps
<1>2. UNCHANGED <<outbox, live, desk>>
  BY DEF Ask, AskFile, AskFound, AskResume, AskBlock, AskTimeout, Check, CheckFound, CheckEmpty,
         Advance, AdvanceWrite, PrintMail, Crash, ReaderStep
<1>3. seq \in Nat /\ seq' \in Nat /\ seq <= seq'
  BY DEF MailInv, TypeOK, Ask, AskFile, AskFound, AskResume, AskBlock, AskTimeout, Check,
         CheckFound, CheckEmpty, Advance, AdvanceWrite, PrintMail, Crash, ReaderStep
<1>4. /\ \A x \in questions' : x.seq # 0 /\ x \in Question
      /\ questions' = questions \/ AskFile(r)
  <2>1. questions' = questions \/ AskFile(r)
    BY DEF Ask, AskFound, AskResume, AskBlock, AskTimeout, Check, CheckFound, CheckEmpty,
           Advance, AdvanceWrite, PrintMail, Crash, ReaderStep
  <2>2. CASE AskFile(r)
    <3>1. mem[r].q \in Nat /\ mem[r].q # 0 /\ Owner[r] \in Dispatches
      BY <2>2, OwnersAreDispatches DEF MailInv, TypeOK, Holds, AskFile, Memory
    <3>2. [seq |-> mem[r].q, disp |-> Owner[r]] \in Question
      BY <3>1 DEF Question
    <3> QED BY <2>2, <3>1, <3>2 DEF AskFile, MailInv, TypeOK
  <2> QED BY <2>1, <2>2 DEF MailInv, TypeOK
<1>5. acked' \in [Dispatches -> Nat]
  <2>1. CASE AdvanceWrite(r)
    <3>1. Newest(r) \in Nat
      BY <2>1, NewestHeld DEF AdvanceWrite, MailInv, Holds
    <3> QED BY <2>1, <3>1 DEF AdvanceWrite, MailInv, TypeOK
  <2>2. CASE ~AdvanceWrite(r)
    <3>1. acked' = acked
      BY <2>2 DEF Ask, AskFile, AskFound, AskResume, AskBlock, AskTimeout, Check, CheckFound,
                  CheckEmpty, Advance, PrintMail, Crash, ReaderStep
    <3> QED BY <3>1 DEF MailInv, TypeOK
  <2> QED BY <2>1, <2>2
<1>6. shown' \in SUBSET Nat /\ answered' \in SUBSET Nat
  <2>1. CASE PrintMail(r)
    <3>1. /\ shown \in SUBSET Nat /\ answered \in SUBSET Nat
          /\ mem[r].q \in Nat /\ mem[r].got \subseteq Letter
      BY DEF MailInv, TypeOK, Memory
    <3>2. \A x \in mem[r].got : x.seq \in Nat
      BY <3>1 DEF Letter
    <3>3. shown' \in SUBSET Nat
      BY <2>1, <3>1, <3>2 DEF PrintMail
    <3>4. answered' = answered \cup {mem[r].q} \/ answered' = answered
      BY <2>1 DEF PrintMail
    <3> QED BY <3>1, <3>3, <3>4
  <2>2. CASE ~PrintMail(r)
    <3>1. shown' = shown /\ answered' = answered
      BY <2>2 DEF Ask, AskFile, AskFound, AskResume, AskBlock, AskTimeout, Check, CheckFound,
                  CheckEmpty, Advance, AdvanceWrite, Crash, ReaderStep
    <3> QED BY <3>1 DEF MailInv, TypeOK
  <2> QED BY <2>1, <2>2
<1>7. /\ pc' \in [Readers -> Labels] /\ mem' \in [Readers -> Memory]
      /\ pc'[r] = l /\ mem'[r] = m
      /\ \A s \in Readers \ {r} : pc'[s] = pc[s] /\ mem'[s] = mem[s]
  BY <1>1 DEF MailInv, TypeOK, Goto, Labels
<1>8. TypeOK'
  BY <1>2, <1>3, <1>4, <1>5, <1>6, <1>7 DEF MailInv, TypeOK, Labels
<1>9. Numbered'
  <2>1. Letters' = Letters
    BY <1>2 DEF Letters
  <2>2. \A x \in Letters : x.seq \in Nat
    BY DEF Letters, MailInv, TypeOK, Letter
  <2> QED BY <1>3, <2>1, <2>2 DEF MailInv, Numbered
<1>10. \A s \in Readers : Holds(s, pc[s], mem[s])'
  <2> TAKE s \in Readers
  <2>1. CASE s = r
    BY <1>1, <1>2, <1>7, <2>1 DEF Holds
  <2>2. CASE s # r
    BY <1>2, <1>7, <2>2 DEF MailInv, Holds
  <2> QED BY <2>1, <2>2
<1> QED BY <1>4, <1>8, <1>9, <1>10 DEF MailInv

LEMMA ClerkKeeps ==
    ASSUME MailInv, NEW c \in Clerks, Reply(c) \/ Send(c) \/ FileMail(c)
    PROVE  MailInv'
<1>1. /\ seq \in Nat /\ outbox \subseteq Letter /\ questions \subseteq Question
      /\ desk \in [Clerks -> SUBSET Letter]
      /\ \A x \in Letters : x.seq \in Nat /\ x.seq <= seq
  BY DEF MailInv, TypeOK, Numbered, Letters, Letter
<1>2. CASE Reply(c) \/ Send(c)
  <2>1. PICK x \in Letter : x.seq = seq + 1 /\ desk[c] = {} /\ desk' = [desk EXCEPT ![c] = {x}]
    <3>1. CASE Reply(c)
      <4>1. PICK q \in questions :
                desk' = [desk EXCEPT ![c] = {[seq |-> seq + 1, disp |-> q.disp, re |-> q.seq]}]
        BY <3>1 DEF Reply
      <4>2. [seq |-> seq + 1, disp |-> q.disp, re |-> q.seq] \in Letter
        BY <1>1 DEF Letter, Question
      <4> QED BY <3>1, <4>1, <4>2 DEF Reply
    <3>2. CASE Send(c)
      <4>1. PICK d \in Dispatches :
                desk' = [desk EXCEPT ![c] = {[seq |-> seq + 1, disp |-> d, re |-> 0]}]
        BY <3>2 DEF Send
      <4>2. [seq |-> seq + 1, disp |-> d, re |-> 0] \in Letter
        BY <1>1 DEF Letter
      <4> QED BY <3>2, <4>1, <4>2 DEF Send
    <3> QED BY <1>2, <3>1, <3>2
  <2>2. seq' = seq + 1 /\ UNCHANGED <<questions, outbox, acked, live, pc, mem, shown, answered>>
    BY <1>2 DEF Reply, Send
  <2>3. \A y \in Letters' : y \in Letters \/ y = x
    BY <1>1, <2>1, <2>2 DEF Letters
  <2>4. Numbered'
    BY <1>1, <2>1, <2>2, <2>3 DEF MailInv, Numbered
  <2>5. TypeOK'
    BY <1>1, <2>1, <2>2 DEF MailInv, TypeOK
  <2> QED BY <2>2, <2>4, <2>5 DEF MailInv, Holds
<1>3. CASE FileMail(c)
  <2>1. /\ outbox' = outbox \cup desk[c] /\ desk' = [desk EXCEPT ![c] = {}]
        /\ UNCHANGED <<seq, questions, acked, live, pc, mem, shown, answered>>
    BY <1>3 DEF FileMail
  <2>2. Letters' \subseteq Letters
    BY <1>1, <2>1 DEF Letters
  <2>3. Numbered'
    BY <2>1, <2>2 DEF MailInv, Numbered
  <2>4. TypeOK'
    BY <1>1, <2>1 DEF MailInv, TypeOK
  <2> QED BY <2>1, <2>3, <2>4 DEF MailInv, Holds
<1> QED BY <1>2, <1>3

LEMMA NextMail == MailInv /\ [Next]_vars => MailInv'
<1> SUFFICES ASSUME MailInv, [Next]_vars PROVE MailInv'
  OBVIOUS
<1>1. ASSUME NEW d \in Dispatches, Revoke(d) PROVE MailInv'
  BY <1>1 DEF Revoke, post, MailInv, TypeOK, Numbered, Letters, Holds
<1>2. CASE Next
  BY <1>1, <1>2, ReaderKeeps, ClerkKeeps DEF Next
<1>3. CASE UNCHANGED vars
  BY <1>3 DEF vars, MailInv, TypeOK, Numbered, Letters, Holds
<1> QED BY <1>2, <1>3

\* The inductive invariant: no two letters have the same number, and a worker's command holds
\* mail that is filed and its own.
THEOREM MailInvariant == Spec => []MailInv
BY InitMail, NextMail, PTL DEF Spec

\* Every letter, cursor and copy has its type, for any numbers of workers and coordinators.
THEOREM MailTyped == Spec => []TypeOK
<1>1. MailInv => TypeOK
  BY DEF MailInv
<1> QED BY <1>1, MailInvariant, PTL

-----------------------------------------------------------------------------
(* One command at a time reads the mail of a worker.                       *)

OneReader == \A r, s \in Readers : Owner[r] = Owner[s] => r = s

\* What is printed is read, where a check starts, and what it has found is new.
Reads(r, l, m) ==
    /\ l \in {"check_scan", "check_block", "advance", "advance_write"} /\ m.q = 0 =>
          /\ m.from <= acked[Owner[r]]
          /\ ~m.all => m.from = acked[Owner[r]]
    /\ l = "advance_write" => \E x \in m.got : acked[Owner[r]] < x.seq
    /\ l = "print" => \A x \in m.got : x.seq <= acked[Owner[r]]
    /\ l \in {"advance", "advance_write", "print"} /\ m.q = 0 /\ ~m.all =>
          \A x \in m.got : x.seq \notin shown

ReadInv ==
    /\ \A n \in shown : \E x \in outbox : x.seq = n /\ n <= acked[x.disp]
    /\ \A r \in Readers : Reads(r, pc[r], mem[r])

LEMMA InitRead == Init => ReadInv
BY DEF Init, ReadInv, Reads

LEMMA ReaderReads ==
    ASSUME MailInv, ReadInv, NEW r \in Readers,
           Ask(r) \/ AskResume(r) \/ Check(r) \/ ReaderStep(r) \/ Crash(r)
    PROVE  Reads(r, pc[r], mem[r])'
<1> DEFINE n == mem[r]
<1> USE DEF At, Finish, post
<1>1. /\ n \in Memory /\ Reads(r, pc[r], n) /\ Holds(r, pc[r], n)
      /\ outbox \subseteq Letter /\ pc[r] \in Labels
      /\ acked \in [Dispatches -> Nat] /\ Owner[r] \in Dispatches
  BY OwnersAreDispatches DEF MailInv, TypeOK, ReadInv, Labels
<1>2. \A l, m : Goto(r, l, m) => pc'[r] = l /\ mem'[r] = m
  BY DEF Goto, MailInv, TypeOK
<1>3. CASE Ask(r) \/ AskFile(r) \/ AskResume(r) \/ AskBlock(r) \/ AskTimeout(r) \/ PrintMail(r)
           \/ Crash(r)
  <2>1. pc'[r] \in {"ask_file", "ask_scan", "ask_block", "idle"}
    BY <1>2, <1>3 DEF Ask, AskFile, AskResume, AskBlock, AskTimeout, PrintMail, Crash
  <2> QED BY <2>1 DEF Reads
<1>4. CASE AskFound(r)
  <2>1. n.q # 0 /\ pc'[r] = "advance" /\ mem'[r].q = n.q
    <3>1. pc'[r] = "advance" /\ \E G : mem'[r] = [n EXCEPT !.got = G]
      BY <1>2, <1>4 DEF AskFound
    <3> QED BY <1>1, <1>4, <3>1 DEF Holds, AskFound, Memory
  <2> QED BY <2>1 DEF Reads
<1>5. CASE Check(r)
  <2>1. /\ pc'[r] = "check_scan" /\ acked' = acked
        /\ mem'[r] \in {[NoMemory EXCEPT !.from = acked[Owner[r]]], [NoMemory EXCEPT !.all = TRUE]}
    BY <1>2, <1>5 DEF Check
  <2>2. /\ mem'[r].from <= acked[Owner[r]]
        /\ ~mem'[r].all => mem'[r].from = acked[Owner[r]]
    BY <1>1, <2>1 DEF NoMemory
  <2> QED BY <2>1, <2>2 DEF Reads
<1>6. CASE CheckFound(r)
  <2>1. /\ pc'[r] = "advance" /\ mem'[r] = [n EXCEPT !.got = Mine(r)]
        /\ UNCHANGED <<acked, shown>>
    BY <1>2, <1>6 DEF CheckFound
  <2>2. /\ mem'[r].got = Mine(r) /\ mem'[r].from = n.from /\ mem'[r].all = n.all
        /\ mem'[r].q = n.q
    BY <1>1, <2>1 DEF Memory
  <2>3. ASSUME ~n.all, NEW x \in Mine(r) PROVE x.seq \notin shown
    <3>1. x \in outbox /\ x.disp = Owner[r] /\ x.seq > acked[Owner[r]] /\ x.seq \in Nat
      BY <1>1, <1>6, <2>3 DEF CheckFound, Reads, Holds, Mine, Letter
    <3>2. ASSUME NEW y \in outbox, y.seq = x.seq PROVE y = x
      BY <3>1, <3>2 DEF MailInv, Numbered, Letters
    <3> QED BY <1>1, <3>1, <3>2 DEF ReadInv
  <2>4. n.from <= acked[Owner[r]] /\ (~n.all => n.from = acked[Owner[r]])
    BY <1>1, <1>6 DEF CheckFound, Reads, Holds
  <2> QED BY <2>1, <2>2, <2>3, <2>4 DEF Reads
<1>7. CASE CheckEmpty(r)
  <2>1. UNCHANGED <<acked, shown>>
    BY <1>7 DEF CheckEmpty
  <2>2. CASE Finish(r)
    BY <1>2, <2>2 DEF Reads
  <2>3. CASE At(r, "check_scan") /\ Goto(r, "check_block", n)
    BY <1>1, <1>2, <2>1, <2>3 DEF Reads
  <2> QED BY <1>7, <2>2, <2>3 DEF CheckEmpty
<1>8. CASE Advance(r)
  <2>1. mem'[r] = n /\ UNCHANGED <<acked, shown>> /\ pc[r] = "advance"
    BY <1>2, <1>8 DEF Advance
  <2>2. /\ Newest(r) \in Nat /\ \E x \in n.got : Newest(r) = x.seq
        /\ \A x \in n.got : x.seq <= Newest(r) /\ x.seq \in Nat
    BY <1>1, <2>1, NewestHeld DEF Holds, Letter
  <2>3. CASE Newest(r) > acked[Owner[r]]
    <3>1. pc'[r] = "advance_write"
      BY <1>2, <1>8, <2>3 DEF Advance
    <3> QED BY <1>1, <2>1, <2>2, <2>3, <3>1 DEF Reads
  <2>4. CASE ~(Newest(r) > acked[Owner[r]])
    <3>1. pc'[r] = "print"
      BY <1>2, <1>8, <2>4 DEF Advance
    <3>2. \A x \in n.got : x.seq <= acked[Owner[r]]
      BY <1>1, <2>2, <2>4
    <3> QED BY <1>1, <2>1, <3>1, <3>2 DEF Reads
  <2> QED BY <2>3, <2>4
<1>9. CASE AdvanceWrite(r)
  <2>1. /\ mem'[r] = n /\ shown' = shown /\ pc[r] = "advance_write" /\ pc'[r] = "print"
        /\ acked'[Owner[r]] = Newest(r)
    BY <1>1, <1>2, <1>9 DEF AdvanceWrite
  <2>2. \A x \in n.got : x.seq <= Newest(r)
    BY <1>1, <2>1, NewestHeld DEF Holds
  <2> QED BY <1>1, <2>1, <2>2 DEF Reads
<1> QED BY <1>3, <1>4, <1>5, <1>6, <1>7, <1>8, <1>9 DEF ReaderStep

LEMMA ReaderReadInv ==
    ASSUME OneReader, MailInv, ReadInv, NEW r \in Readers,
           Ask(r) \/ AskResume(r) \/ Check(r) \/ ReaderStep(r) \/ Crash(r)
    PROVE  ReadInv'
<1> USE DEF At, Finish, post
<1>1. /\ outbox' = outbox
      /\ \A s \in Readers \ {r} : pc'[s] = pc[s] /\ mem'[s] = mem[s]
  <2>1. PICK l \in Labels, m \in Memory : Goto(r, l, m)
    BY ReaderSteps
  <2>2. outbox' = outbox
    BY DEF Ask, AskFile, AskFound, AskResume, AskBlock, AskTimeout, Check, CheckFound, CheckEmpty,
         Advance, AdvanceWrite, PrintMail, Crash, ReaderStep
  <2> QED BY <2>1, <2>2 DEF Goto, MailInv, TypeOK
<1>2. /\ acked \in [Dispatches -> Nat] /\ Owner \in [Readers -> Dispatches]
      /\ outbox \subseteq Letter /\ \A s \in Readers : mem[s] \in Memory
  BY OwnersAreDispatches DEF MailInv, TypeOK
<1>3. Reads(r, pc[r], mem[r])'
  BY ReaderReads
<1>4. ASSUME UNCHANGED <<acked, shown>> PROVE ReadInv'
  BY <1>1, <1>3, <1>4 DEF ReadInv, Reads
<1>5. CASE AdvanceWrite(r)
  <2>1. acked' = [acked EXCEPT ![Owner[r]] = Newest(r)] /\ shown' = shown
    BY <1>5 DEF AdvanceWrite
  <2>2. acked[Owner[r]] <= Newest(r) /\ Newest(r) \in Nat
    <3>1. PICK x \in mem[r].got : acked[Owner[r]] < x.seq
      BY <1>5 DEF AdvanceWrite, ReadInv, Reads
    <3>2. x.seq <= Newest(r) /\ Newest(r) \in Nat /\ x.seq \in Nat
      BY <1>2, <3>1, NewestHeld DEF Memory, Letter
    <3> QED BY <1>2, <3>1, <3>2
  <2>3. \A d \in Dispatches : acked[d] <= acked'[d] /\ acked'[d] \in Nat /\ acked[d] \in Nat
    BY <1>2, <2>1, <2>2
  <2>4. \A n \in shown' : \E x \in outbox' : x.seq = n /\ n <= acked'[x.disp]
    <3> SUFFICES ASSUME NEW n \in shown
                 PROVE  \E x \in outbox : x.seq = n /\ n <= acked'[x.disp]
      BY <1>1, <2>1
    <3>1. PICK x \in outbox : x.seq = n /\ n <= acked[x.disp]
      BY DEF ReadInv
    <3>2. x.disp \in Dispatches /\ x.seq \in Nat
      BY <1>2 DEF Letter
    <3> QED BY <2>3, <3>1, <3>2
  <2>5. \A s \in Readers \ {r} : acked'[Owner[s]] = acked[Owner[s]]
    BY <1>2, <2>1 DEF OneReader
  <2>6. \A s \in Readers \ {r} : Reads(s, pc[s], mem[s])'
    BY <1>1, <2>1, <2>5 DEF ReadInv, Reads
  <2> QED BY <1>3, <2>4, <2>6 DEF ReadInv
<1>6. CASE PrintMail(r)
  <2>1. acked' = acked /\ shown' = shown \cup {x.seq : x \in mem[r].got}
    BY <1>6 DEF PrintMail
  <2>2. /\ mem[r].got \subseteq outbox
        /\ \A x \in mem[r].got : x.disp = Owner[r] /\ x.seq <= acked[Owner[r]]
    BY <1>6 DEF PrintMail, MailInv, Holds, ReadInv, Reads
  <2>3. \A n \in shown' : \E x \in outbox' : x.seq = n /\ n <= acked'[x.disp]
    BY <1>1, <2>1, <2>2 DEF ReadInv
  <2>4. ASSUME NEW s \in Readers \ {r}, NEW y \in mem[s].got, y.seq \notin shown
        PROVE  y.seq \notin shown'
    <3>1. y \in outbox /\ y.disp = Owner[s]
      BY DEF MailInv, Holds
    <3>2. \A x \in mem[r].got : x.seq # y.seq
      BY <2>2, <3>1 DEF OneReader, MailInv, Numbered, Letters
    <3> QED BY <2>1, <2>4, <3>2
  <2>5. \A s \in Readers \ {r} : Reads(s, pc[s], mem[s])'
    BY <1>1, <2>1, <2>4 DEF ReadInv, Reads
  <2> QED BY <1>3, <2>3, <2>5 DEF ReadInv
<1>7. CASE ~AdvanceWrite(r) /\ ~PrintMail(r)
  <2>1. UNCHANGED <<acked, shown>>
    BY <1>7 DEF Ask, AskFile, AskFound, AskResume, AskBlock, AskTimeout, Check, CheckFound,
                CheckEmpty, Advance, Crash, ReaderStep
  <2> QED BY <1>4, <2>1
<1> QED BY <1>5, <1>6, <1>7

LEMMA NextRead ==
    ASSUME OneReader
    PROVE  MailInv /\ ReadInv /\ [Next]_vars => ReadInv'
<1> SUFFICES ASSUME MailInv, ReadInv, [Next]_vars PROVE ReadInv'
  OBVIOUS
<1>1. ASSUME UNCHANGED <<acked, shown, pc, mem>>, outbox \subseteq outbox' PROVE ReadInv'
  BY <1>1 DEF ReadInv, Reads
<1>2. ASSUME NEW c \in Clerks, Reply(c) \/ Send(c) \/ FileMail(c) PROVE ReadInv'
  BY <1>1, <1>2 DEF Reply, Send, FileMail
<1>3. ASSUME NEW d \in Dispatches, Revoke(d) PROVE ReadInv'
  BY <1>1, <1>3 DEF Revoke, post
<1>4. CASE Next
  BY <1>2, <1>3, <1>4, ReaderReadInv DEF Next
<1>5. CASE UNCHANGED vars
  BY <1>1, <1>5 DEF vars
<1> QED BY <1>4, <1>5

\* However many workers and coordinators write, and wherever commands crash or authority is
\* lost: a check without --all prints nothing that was printed before, as long as no two
\* commands of the same worker read at the same time.
THEOREM PrintsOnce ==
    ASSUME OneReader
    PROVE  Spec => CheckPrintsOnce
<1>1. Init => MailInv /\ ReadInv
  BY InitMail, InitRead
<1>2. (MailInv /\ ReadInv) /\ [Next]_vars => (MailInv /\ ReadInv)'
  BY NextMail, NextRead
<1>3. MailInv /\ ReadInv /\ [Next]_vars =>
          [\A r \in Readers : PrintMail(r) /\ mem[r].q = 0 /\ ~mem[r].all =>
              {x.seq : x \in mem[r].got} \cap shown = {}]_vars
  BY DEF PrintMail, At, ReadInv, Reads
<1> QED BY <1>1, <1>2, <1>3, PTL DEF Spec, CheckPrintsOnce

-----------------------------------------------------------------------------
(* One coordinator process writes the mail: numbers and files in one order.*)

OneClerk == \A c, e \in Clerks : c = e

\* A check has found all of its mail between its start and the newest it has found.
Gapless(r, l, m) ==
    l \in {"advance", "advance_write"} /\ m.q = 0 =>
        \A x \in outbox, y \in m.got :
            x.disp = Owner[r] /\ x.seq > m.from /\ x.seq <= y.seq => x \in m.got

OrderInv ==
    /\ \A c \in Clerks : \A x \in desk[c], y \in outbox : y.seq < x.seq
    /\ \A r \in Readers : Gapless(r, pc[r], mem[r])

LEMMA InitOrder == Init => OrderInv
BY DEF Init, OrderInv, Gapless

LEMMA ReaderOrder ==
    ASSUME MailInv, OrderInv, NEW r \in Readers,
           Ask(r) \/ AskResume(r) \/ Check(r) \/ ReaderStep(r) \/ Crash(r)
    PROVE  OrderInv'
<1> DEFINE n == mem[r]
<1> USE DEF At, Finish, post
<1>1. /\ UNCHANGED <<outbox, desk>>
      /\ \A s \in Readers \ {r} : pc'[s] = pc[s] /\ mem'[s] = mem[s]
  <2>1. PICK l \in Labels, m \in Memory : Goto(r, l, m)
    BY ReaderSteps
  <2>2. UNCHANGED <<outbox, desk>>
    BY DEF Ask, AskFile, AskFound, AskResume, AskBlock, AskTimeout, Check, CheckFound, CheckEmpty,
         Advance, AdvanceWrite, PrintMail, Crash, ReaderStep
  <2> QED BY <2>1, <2>2 DEF Goto, MailInv, TypeOK
<1>2. n \in Memory /\ Holds(r, pc[r], n) /\ Gapless(r, pc[r], n) /\ pc[r] \in Labels
  BY DEF MailInv, TypeOK, OrderInv, Labels
<1>3. \A l, m : Goto(r, l, m) => pc'[r] = l /\ mem'[r] = m
  BY DEF Goto, MailInv, TypeOK
<1>4. Gapless(r, pc[r], mem[r])'
  <2>1. CASE AskFound(r)
    <3>1. PICK G : mem'[r] = [n EXCEPT !.got = G]
      BY <1>3, <2>1 DEF AskFound
    <3>2. mem'[r].q # 0
      BY <1>2, <2>1, <3>1 DEF AskFound, Holds, Memory
    <3> QED BY <3>2 DEF Gapless
  <2>2. CASE CheckFound(r)
    <3>1. mem'[r] = [n EXCEPT !.got = Mine(r)]
      BY <1>3, <2>2 DEF CheckFound
    <3>2. mem'[r].got = Mine(r) /\ mem'[r].from = n.from
      BY <1>2, <3>1 DEF Memory
    <3> QED BY <1>1, <3>2 DEF Gapless, Mine
  <2>3. CASE Advance(r)
    <3>1. mem'[r] = n /\ pc[r] = "advance"
      BY <1>3, <2>3 DEF Advance
    <3> QED BY <1>1, <1>2, <3>1 DEF Gapless
  <2>4. CASE ~AskFound(r) /\ ~CheckFound(r) /\ ~Advance(r)
    <3>1. CASE Ask(r) \/ AskFile(r) \/ AskResume(r) \/ AskBlock(r) \/ AskTimeout(r)
               \/ PrintMail(r) \/ Crash(r)
      <4>1. pc'[r] \in {"ask_file", "ask_scan", "ask_block", "idle"}
        BY <1>3, <3>1 DEF Ask, AskFile, AskResume, AskBlock, AskTimeout, PrintMail, Crash
      <4> QED BY <4>1 DEF Gapless
    <3>2. CASE Check(r) \/ CheckEmpty(r) \/ AdvanceWrite(r)
      <4>1. pc'[r] \in {"check_scan", "check_block", "print", "idle"}
        BY <1>3, <3>2 DEF Check, CheckEmpty, AdvanceWrite
      <4> QED BY <4>1 DEF Gapless
    <3> QED BY <2>4, <3>1, <3>2 DEF ReaderStep
  <2> QED BY <2>1, <2>2, <2>3, <2>4
<1> QED BY <1>1, <1>4 DEF OrderInv, Gapless

LEMMA ClerkOrder ==
    ASSUME OneClerk, MailInv, OrderInv, NEW c \in Clerks, Reply(c) \/ Send(c) \/ FileMail(c)
    PROVE  OrderInv'
<1>1. /\ seq \in Nat /\ desk \in [Clerks -> SUBSET Letter]
      /\ \A y \in outbox : y.seq \in Nat /\ y.seq <= seq
      /\ \A e \in Clerks : e = c
  BY DEF MailInv, TypeOK, Numbered, Letters, Letter, OneClerk
<1>2. CASE Reply(c) \/ Send(c)
  <2>1. UNCHANGED <<outbox, pc, mem>> /\ \A x \in desk'[c] : x.seq = seq + 1
    <3>1. CASE Reply(c)
      BY <1>1, <3>1 DEF Reply
    <3>2. CASE Send(c)
      BY <1>1, <3>2 DEF Send
    <3> QED BY <1>2, <3>1, <3>2
  <2> QED BY <1>1, <2>1 DEF OrderInv, Gapless
<1>3. CASE FileMail(c)
  <2>1. /\ outbox' = outbox \cup desk[c] /\ desk'[c] = {} /\ UNCHANGED <<pc, mem>>
    BY <1>1, <1>3 DEF FileMail
  <2>2. \A r \in Readers : Gapless(r, pc[r], mem[r])'
    <3> SUFFICES ASSUME NEW r \in Readers, NEW x \in outbox', NEW y \in mem[r].got,
                        pc[r] \in {"advance", "advance_write"}, mem[r].q = 0,
                        x.disp = Owner[r], x.seq > mem[r].from, x.seq <= y.seq
                 PROVE  x \in mem[r].got
      BY <2>1 DEF Gapless
    <3>1. y \in outbox /\ y.seq \in Nat
      BY <1>1 DEF MailInv, Holds
    <3>2. ASSUME x \in desk[c] PROVE FALSE
      <4>1. x.seq \in Nat /\ y.seq < x.seq
        BY <1>1, <3>1, <3>2 DEF OrderInv, Letter
      <4> QED BY <3>1, <4>1
    <3> QED BY <2>1, <3>2 DEF OrderInv, Gapless
  <2> QED BY <1>1, <2>1, <2>2 DEF OrderInv
<1> QED BY <1>2, <1>3

LEMMA NextOrder ==
    ASSUME OneClerk
    PROVE  MailInv /\ OrderInv /\ [Next]_vars => OrderInv'
<1> SUFFICES ASSUME MailInv, OrderInv, [Next]_vars PROVE OrderInv'
  OBVIOUS
<1>1. ASSUME NEW d \in Dispatches, Revoke(d) PROVE OrderInv'
  BY <1>1 DEF Revoke, post, OrderInv, Gapless
<1>2. CASE Next
  BY <1>1, <1>2, ReaderOrder, ClerkOrder DEF Next
<1>3. CASE UNCHANGED vars
  BY <1>3 DEF vars, OrderInv, Gapless
<1> QED BY <1>2, <1>3

LEMMA AckStep ==
    ASSUME MailInv, ReadInv, OrderInv, NEW r \in Readers, AdvanceWrite(r), mem[r].q = 0,
           NEW x \in outbox, x.disp = Owner[r], x.seq > acked[x.disp], x.seq <= acked'[x.disp]
    PROVE  x \in mem[r].got
<1>1. /\ acked \in [Dispatches -> Nat] /\ Owner[r] \in Dispatches /\ x.seq \in Nat
      /\ mem[r].from \in Nat
  BY OwnersAreDispatches DEF MailInv, TypeOK, Letter, Memory
<1>2. PICK y \in mem[r].got : Newest(r) = y.seq
  BY NewestHeld DEF AdvanceWrite, At, MailInv, Holds
<1>3. acked'[x.disp] = y.seq
  BY <1>1, <1>2 DEF AdvanceWrite
<1>4. mem[r].from <= acked[Owner[r]]
  BY DEF AdvanceWrite, At, ReadInv, Reads
<1>5. x.seq > mem[r].from
  BY <1>1, <1>4
<1> QED BY <1>3, <1>5 DEF AdvanceWrite, At, OrderInv, Gapless

\* One worker's command among any number of others: mail that is filed between a check's look at
\* the outbox and its ack stays above the cursor, as long as one coordinator process writes mail
\* and one command of a worker reads it.
THEOREM CheckAcksPrinted ==
    ASSUME OneReader, OneClerk
    PROVE  Spec => CheckAcksWhatItPrints
<1>1. Init => MailInv /\ ReadInv /\ OrderInv
  BY InitMail, InitRead, InitOrder
<1>2. (MailInv /\ ReadInv /\ OrderInv) /\ [Next]_vars => (MailInv /\ ReadInv /\ OrderInv)'
  BY NextMail, NextRead, NextOrder
<1>3. MailInv /\ ReadInv /\ OrderInv /\ [Next]_vars =>
          [\A r \in Readers : AdvanceWrite(r) /\ mem[r].q = 0 =>
              \A x \in outbox : x.disp = Owner[r] /\ x.seq > acked[x.disp]
                                /\ x.seq <= acked'[x.disp] => x \in mem[r].got]_vars
  BY AckStep
<1> QED BY <1>1, <1>2, <1>3, PTL DEF Spec, CheckAcksWhatItPrints
=============================================================================
