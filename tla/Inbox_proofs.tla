---------------------------- MODULE Inbox_proofs ----------------------------
(***************************************************************************)
(* What the cursor may pass over, for any number of workers, coordinators, *)
(* messages and waits.                                                     *)
(***************************************************************************)
EXTENDS Inbox, WellFoundedInduction, TLAPS

Labels == {"idle", "register", "scan", "watch", "block", "hint", "confirm", "ack", "emit"}

\* A message on its way has been written.
Sent == \A d \in Dispatches : work[d] # "working" => out[d] \in Message /\ out[d].seq <= seq

\* What a coordinator process knows is of the inbox, and a wait acks only if it found something.
Known(l, m) == m.got \subseteq inbox /\ (l = "ack" => m.got # {})

Kept == \A w \in Waits : Known(pc[w], mem[w])

\* The registry of numbers: no message has one that was not claimed.
Numbered == \A x \in inbox \cup rejected : x.seq <= seq

InboxInv == TypeOK /\ Sent /\ Kept /\ Numbered

-----------------------------------------------------------------------------
(* Numbers and records                                                     *)

LEMMA SomeMax ==
    ASSUME NEW S, S \subseteq Nat, S # {}, NEW n \in Nat, \A i \in S : i <= n
    PROVE  Max(S) \in S /\ \A i \in S : i <= Max(S)
<1> DEFINE T == {n - i : i \in S}
<1>1. T \subseteq Nat /\ T # {}
  OBVIOUS
<1>2. PICK k \in T : \A j \in T : ~ (<<j, k>> \in OpToRel(<, Nat))
  <2> HIDE DEF T
  <2> QED BY <1>1, NatLessThanWellFounded, WFMin
<1>3. \A j \in T : k <= j
  <2> HIDE DEF T
  <2> SUFFICES ASSUME NEW j \in T PROVE k <= j
    OBVIOUS
  <2>1. j \in Nat /\ k \in Nat
    BY <1>1
  <2>2. j < k => <<j, k>> \in OpToRel(<, Nat)
    BY <2>1 DEF OpToRel
  <2>3. ~ (j < k)
    BY <1>2, <2>2
  <2> QED BY <2>1, <2>3
<1>4. PICK i \in S : k = n - i
  OBVIOUS
<1>5. \A j \in S : j <= i
  <2> TAKE j \in S
  <2>1. k <= n - j
    BY <1>3
  <2> QED BY <1>4, <2>1
<1>6. \E x \in S : \A y \in S : x >= y
  BY <1>5
<1> QED BY <1>6 DEF Max

\* What a wait has collected has a largest number.
LEMMA LastCollected ==
    ASSUME InboxInv, NEW w \in Waits, pc[w] = "ack"
    PROVE  LET S == {x.seq : x \in mem[w].got} IN
           Max(S) \in S /\ Max(S) \in Nat /\ Max(S) <= seq /\ \A i \in S : i <= Max(S)
<1> DEFINE S == {x.seq : x \in mem[w].got}
<1>1. mem[w].got \subseteq inbox /\ mem[w].got # {}
  BY DEF InboxInv, Kept, Known
<1>2. S \subseteq Nat /\ S # {} /\ seq \in Nat
  BY <1>1 DEF InboxInv, TypeOK, Message
<1>3. \A i \in S : i <= seq
  BY <1>1 DEF InboxInv, Numbered
<1> HIDE DEF S
<1>4. Max(S) \in S /\ \A i \in S : i <= Max(S)
  BY <1>2, <1>3, SomeMax
<1> QED BY <1>2, <1>3, <1>4 DEF S

LEMMA NoMemoryIsMemory == NoMemory \in Memory /\ NoMemory.got = {}
BY DEF NoMemory, Memory

LEMMA Collected ==
    ASSUME TypeOK, NEW m \in Memory
    PROVE  Matching(m) \in SUBSET inbox /\ Matching(m) \in SUBSET Message
BY DEF TypeOK, Matching

-----------------------------------------------------------------------------
LEMMA InitInbox == Init => InboxInv
<1> SUFFICES ASSUME Init PROVE InboxInv
  OBVIOUS
<1>1. TypeOK
  BY NoMemoryIsMemory DEF Init, TypeOK
<1>2. Sent /\ Numbered
  BY DEF Init, Sent, Numbered
<1>3. Kept
  BY NoMemoryIsMemory DEF Init, Kept, Known
<1> QED BY <1>1, <1>2, <1>3 DEF InboxInv

\* A coordinator process takes a step with a memory that is of the inbox.
LEMMA Moves ==
    ASSUME TypeOK, Kept, inbox' = inbox, NEW w \in Waits, NEW l \in Labels, NEW m \in Memory,
           Known(l, m), Goto(w, l, m)
    PROVE  /\ pc' \in [Waits -> Labels] /\ mem' \in [Waits -> Memory]
           /\ Kept'
           /\ \A v \in Waits \ {w} : pc'[v] = pc[v] /\ mem'[v] = mem[v]
           /\ pc'[w] = l /\ mem'[w] = m
<1>1. /\ pc' \in [Waits -> Labels] /\ mem' \in [Waits -> Memory]
      /\ \A v \in Waits \ {w} : pc'[v] = pc[v] /\ mem'[v] = mem[v]
      /\ pc'[w] = l /\ mem'[w] = m
  BY DEF TypeOK, Goto, Labels
<1>2. Kept'
  <2> SUFFICES ASSUME NEW v \in Waits PROVE Known(pc[v], mem[v])'
    BY DEF Kept
  <2>1. CASE v = w
    BY <1>1, <2>1 DEF Known
  <2>2. CASE v # w
    BY <1>1, <2>2 DEF Kept, Known
  <2> QED BY <2>1, <2>2
<1> QED BY <1>1, <1>2

\* A coordinator's step that leaves the messages and the workers alone: it remains to give the
\* memory it moves with, and what it does to the cursor, the records and the registry.
LEMMA CoordinatorMoves ==
    ASSUME InboxInv, NEW w \in Waits, NEW l \in Labels, NEW m \in Memory,
           Known(l, m), Goto(w, l, m), UNCHANGED <<seq, inbox, rejected, pane, work, out>>,
           cursor' \in Nat, state' \in [Dispatches -> {"dispatched", "settled", "abandoned"}],
           waiting' \subseteq Waits, returned' \subseteq Nat
    PROVE  InboxInv'
<1>1. /\ pc' \in [Waits -> Labels] /\ mem' \in [Waits -> Memory] /\ Kept'
  BY Moves DEF InboxInv
<1>2. TypeOK'
  BY <1>1 DEF InboxInv, TypeOK, Labels
<1>3. Sent' /\ Numbered'
  BY DEF InboxInv, Sent, Numbered
<1> QED BY <1>1, <1>2, <1>3 DEF InboxInv

\* A worker's step leaves the coordinators alone and takes nothing out of the inbox.
LEMMA WorkerMove ==
    ASSUME InboxInv, UNCHANGED <<cursor, state, waiting, pc, mem, returned, pane>>,
           seq' \in Nat, seq <= seq', inbox \subseteq inbox',
           inbox' \subseteq Message, rejected' \subseteq Message, Numbered',
           work' \in [Dispatches -> {"working", "filing", "rejecting", "settling", "notifying",
                                    "pushing"}],
           out' \in [Dispatches -> Message \cup {None}], Sent'
    PROVE  InboxInv'
<1>1. TypeOK'
  BY DEF InboxInv, TypeOK
<1>2. Kept'
  BY DEF InboxInv, Kept, Known
<1> QED BY <1>1, <1>2 DEF InboxInv

LEMMA WorkerKeeps ==
    ASSUME InboxInv, NEW d \in Dispatches, Claim(d) \/ WorkerStep(d) \/ CrashWorker(d)
    PROVE  InboxInv'
<1> USE DEF InboxInv, TypeOK
<1>1. CASE Claim(d)
  <2>1. seq' = seq + 1 /\ seq' \in Nat
    BY <1>1 DEF Claim
  <2>2. PICK type \in Types :
            /\ out' = [out EXCEPT ![d] = [seq |-> seq + 1, type |-> type, disp |-> d]]
            /\ \/ WorkerMoves(d, "working", "filing")
               \/ WorkerMoves(d, "working", "rejecting")
    BY <1>1 DEF Claim
  <2>3. [seq |-> seq + 1, type |-> type, disp |-> d] \in Message
    BY <2>1 DEF Message
  <2>4. Numbered'
    BY <1>1, <2>1 DEF Claim, Numbered, Message
  <2>5. Sent'
    <3> SUFFICES ASSUME NEW e \in Dispatches, work'[e] # "working"
                 PROVE  out'[e] \in Message /\ out'[e].seq <= seq'
      BY DEF Sent
    <3>1. CASE e = d
      BY <3>1, <2>1, <2>2, <2>3
    <3>2. CASE e # d
      <4>1. out'[e] = out[e] /\ work'[e] = work[e]
        BY <2>2, <3>2 DEF WorkerMoves
      <4> QED BY <4>1, <2>1 DEF Sent, Message
    <3> QED BY <3>1, <3>2
  <2>6. out' \in [Dispatches -> Message \cup {None}]
    BY <2>2, <2>3
  <2>7. UNCHANGED <<inbox, rejected, cursor, state, waiting, pane, pc, mem, returned>>
    BY <1>1 DEF Claim
  <2> QED BY <2>1, <2>2, <2>4, <2>5, <2>6, <2>7, WorkerMove DEF WorkerMoves
<1>2. CASE FileMessage(d)
  <2>1. out[d] \in Message /\ out[d].seq <= seq
    BY <1>2 DEF FileMessage, WorkerMoves, Sent
  <2>2. Numbered' /\ Sent'
    BY <1>2, <2>1 DEF FileMessage, WorkerMoves, Numbered, Sent
  <2> QED BY <1>2, <2>1, <2>2, WorkerMove DEF FileMessage, WorkerMoves
<1>3. CASE FileRejected(d)
  <2>1. out[d] \in Message /\ out[d].seq <= seq
    BY <1>3 DEF FileRejected, WorkerMoves, Sent
  <2>2. Numbered' /\ Sent'
    BY <1>3, <2>1 DEF FileRejected, WorkerMoves, Numbered, Sent
  <2> QED BY <1>3, <2>1, <2>2, WorkerMove DEF FileRejected, WorkerMoves
<1>4. CASE Settle(d)
  BY <1>4 DEF Settle, WorkerMoves, Sent, Numbered, Kept, Known
<1>5. CASE Notify(d)
  <2>1. Numbered' /\ Sent'
    BY <1>5 DEF Notify, store, WorkerMoves, Numbered, Sent
  <2> QED BY <1>5, <2>1, WorkerMove DEF Notify, store, WorkerMoves
<1>6. CASE Push(d)
  <2>1. Numbered' /\ Sent'
    BY <1>6 DEF Push, store, WorkerMoves, Numbered, Sent
  <2> QED BY <1>6, <2>1, WorkerMove DEF Push, store, WorkerMoves
<1>7. CASE CrashWorker(d)
  <2>1. Numbered' /\ Sent'
    BY <1>7 DEF CrashWorker, store, Numbered, Sent
  <2> QED BY <1>7, <2>1, WorkerMove DEF CrashWorker, store
<1> QED BY <1>1, <1>2, <1>3, <1>4, <1>5, <1>6, <1>7 DEF WorkerStep

\* The updates of what a wait has read.
LEMMA Updates ==
    ASSUME NEW m \in Memory, NEW D \in SUBSET Dispatches, NEW E \in SUBSET Dispatches,
           NEW G \in SUBSET Message, NEW x \in Dispatches \cup {None}, NEW n \in Nat
    PROVE  /\ [m EXCEPT !.from = n] \in Memory
           /\ [m EXCEPT !.got = G] \in Memory
           /\ [m EXCEPT !.vanished = x] \in Memory
           /\ [m EXCEPT !.nudge = x] \in Memory
           /\ [m EXCEPT !.ahead = D] \in Memory
           /\ [m EXCEPT !.ahead = D, !.watched = E] \in Memory
           /\ [m EXCEPT !.got = G, !.vanished = x] \in Memory
           /\ [m EXCEPT !.vanished = x, !.told = D] \in Memory
BY DEF Memory

LEMMA CoordinatorKeeps ==
    ASSUME InboxInv, NEW w \in Waits, Wait(w) \/ WaitStep(w)
    PROVE  InboxInv'
<1> DEFINE m == mem[w]
<1> USE DEF InboxInv, store, worker
<1>1. /\ m \in Memory /\ Known(pc[w], m) /\ m.got \in SUBSET Message
      /\ Matching(m) \in SUBSET inbox /\ Matching(m) \in SUBSET Message
      /\ m.ahead \in SUBSET Dispatches /\ m.watched \in SUBSET Dispatches
  BY Collected DEF TypeOK, Memory, Kept
<1>2. /\ cursor \in Nat /\ state \in [Dispatches -> {"dispatched", "settled", "abandoned"}]
      /\ waiting \subseteq Waits /\ returned \subseteq Nat
      /\ inbox \subseteq Message
  BY DEF TypeOK
<1>3. NoMemory \in Memory /\ \A l \in Labels \ {"ack"} : Known(l, NoMemory)
  BY NoMemoryIsMemory DEF Known
<1>4. \A l \in Labels : Goto(w, l, NoMemory) <=>
          pc' = [pc EXCEPT ![w] = l] /\ mem' = [mem EXCEPT ![w] = NoMemory]
  BY DEF Goto
<1>5. CASE Wait(w)
  <2>1. PICK scope \in Scopes, types \in Wants, all \in BOOLEAN, keep \in BOOLEAN :
            Goto(w, "register", [NoMemory EXCEPT !.scope = scope, !.types = types, !.all = all,
                                    !.keep = keep,
                                    !.pending = {d \in scope : state[d] = "dispatched"}])
    BY <1>5 DEF Wait
  <2> DEFINE n == [NoMemory EXCEPT !.scope = scope, !.types = types, !.all = all,
                                    !.keep = keep,
                                    !.pending = {d \in scope : state[d] = "dispatched"}]
  <2>2. n \in Memory /\ n.got = {}
    BY ScopesAreSets, WantsAreTypes DEF NoMemory, Memory, Types
  <2>3. Known("register", n)
    BY <2>2 DEF Known
  <2> HIDE DEF n
  <2> QED BY <1>5, <2>1, <2>2, <2>3, <1>2, CoordinatorMoves DEF Wait, Labels, n
<1>6. CASE WaitRegister(w)
  <2>1. PICK from \in {cursor, 0} : Goto(w, "scan", [m EXCEPT !.from = from])
    BY <1>6 DEF WaitRegister
  <2> DEFINE n == [m EXCEPT !.from = from]
  <2>2. n \in Memory /\ n.got = m.got
    <3>1. from \in Nat
      BY <1>2
    <3>2. n \in Memory
      BY <1>1, <3>1, Updates
    <3>3. n.got = m.got
      BY <1>1 DEF Memory
    <3> QED BY <3>2, <3>3
  <2>3. Known("scan", n)
    BY <1>1, <2>2 DEF Known
  <2> HIDE DEF n
  <2> QED BY <1>6, <2>1, <2>2, <2>3, <1>2, CoordinatorMoves DEF WaitRegister, Labels, n
<1>7. CASE WaitScan(w)
  <2> DEFINE n == [m EXCEPT !.got = Matching(m)]
             v == [n EXCEPT !.ahead = n.pending]
  <2>1. n \in Memory /\ n.got = Matching(m)
    BY <1>1, Updates DEF Memory
  <2>2. v \in Memory /\ v.got = n.got
    <3>1. n.pending \in SUBSET Dispatches
      BY <2>1 DEF Memory
    <3> HIDE DEF n
    <3> QED BY <2>1, <3>1, Updates DEF Memory
  <2> HIDE DEF n, v
  <2>6. Known("watch", v) /\ (Satisfied(n) => Known("ack", n))
    BY <1>1, <2>1, <2>2 DEF Known, Satisfied
  <2>3. CASE Satisfied(n) /\ Goto(w, "ack", n) /\ UNCHANGED waiting
    BY <1>7, <2>1, <2>6, <2>3, <1>2, CoordinatorMoves DEF WaitScan, Labels
  <2>4. CASE Leave(w)
    BY <1>7, <2>4, <1>2, <1>3, CoordinatorMoves DEF WaitScan, Leave, Labels
  <2>5. CASE Goto(w, "watch", v) /\ UNCHANGED waiting
    BY <1>7, <2>2, <2>6, <2>5, <1>2, CoordinatorMoves DEF WaitScan, Labels
  <2> QED BY <1>7, <2>3, <2>4, <2>5 DEF WaitScan, n, v
<1>8. CASE WaitPoll(w)
  <2> DEFINE n == [m EXCEPT !.got = @ \cup Matching(m)]
  <2>1. n \in Memory /\ n.got = m.got \cup Matching(m)
    BY <1>1, Updates DEF Memory
  <2> DEFINE l == IF Satisfied(n) THEN "ack" ELSE "block"
  <2>2. l \in Labels /\ Known(l, n)
    BY <1>1, <2>1 DEF Known, Satisfied, Labels
  <2>3. Goto(w, l, n)
    BY <1>8 DEF WaitPoll
  <2> HIDE DEF n, l
  <2> QED BY <1>8, <2>1, <2>2, <2>3, <1>2, CoordinatorMoves DEF WaitPoll
<1>9. CASE WaitTimeout(w)
  <2>1. state' \in [Dispatches -> {"dispatched", "settled", "abandoned"}]
    BY <1>9, <1>2 DEF WaitTimeout
  <2> QED BY <1>9, <2>1, <1>2, <1>3, CoordinatorMoves DEF WaitTimeout, Leave, Labels
<1>10. CASE WaitHint(w)
  <2> DEFINE late == Matching(m) \ m.got
             n == [m EXCEPT !.got = @ \cup late, !.vanished = None]
             l == IF Satisfied(n) THEN "ack" ELSE "block"
  <2>1. n \in Memory /\ n.got = m.got \cup Matching(m)
    <3>1. m.got \cup late \in SUBSET Message
      BY <1>1
    <3> QED BY <1>1, <3>1, Updates DEF Memory
  <2>2. Goto(w, "confirm", m) \/ Goto(w, l, n)
    BY <1>10 DEF WaitHint
  <2>3. l \in Labels
    BY DEF Labels
  <2> HIDE DEF n
  <2>4. Known(l, n) /\ Known("confirm", m)
    BY <1>1, <2>1 DEF Known, Satisfied
  <2> HIDE DEF l
  <2> QED BY <1>10, <2>1, <2>2, <2>3, <2>4, <1>1, <1>2, CoordinatorMoves DEF WaitHint, Labels
<1>11. CASE WaitWatch(w)
  <2>1. PICK d \in m.ahead, ok \in BOOLEAN :
            Goto(w, IF m.ahead = {d} THEN "block" ELSE "watch",
                 [m EXCEPT !.ahead = @ \ {d}, !.watched = IF ok THEN @ \cup {d} ELSE @])
    BY <1>11 DEF WaitWatch
  <2> DEFINE l == IF m.ahead = {d} THEN "block" ELSE "watch"
             n == [m EXCEPT !.ahead = @ \ {d}, !.watched = IF ok THEN @ \cup {d} ELSE @]
  <2>2. n \in Memory /\ n.got = m.got
    <3>1. /\ m.ahead \ {d} \in SUBSET Dispatches
          /\ (IF ok THEN m.watched \cup {d} ELSE m.watched) \in SUBSET Dispatches
      BY <1>1
    <3> QED BY <1>1, <3>1, Updates DEF Memory
  <2>3. l \in Labels /\ Known(l, n)
    BY <1>1, <2>2 DEF Known, Labels
  <2>4. Goto(w, l, n)
    BY <2>1
  <2> HIDE DEF n, l
  <2> QED BY <1>11, <2>2, <2>3, <2>4, <1>2, CoordinatorMoves DEF WaitWatch
<1>12. CASE WaitSpurious(w)
  <2> DEFINE n == [m EXCEPT !.vanished = None]
  <2>1. n \in Memory /\ n.got = m.got
    BY <1>1, Updates DEF Memory
  <2>2. Known("block", n)
    BY <1>1, <2>1 DEF Known
  <2>3. state' \in [Dispatches -> {"dispatched", "settled", "abandoned"}]
    BY <1>12, <1>2 DEF WaitSpurious
  <2>4. Goto(w, "block", n)
    BY <1>12 DEF WaitSpurious
  <2> HIDE DEF n
  <2> QED BY <1>12, <2>1, <2>2, <2>3, <2>4, <1>2, CoordinatorMoves DEF WaitSpurious, Labels
<1>13. CASE WaitVanished(w)
  <2>1. state' \in [Dispatches -> {"dispatched", "settled", "abandoned"}]
    BY <1>13, <1>2 DEF WaitVanished
  <2> QED BY <1>13, <2>1, <1>2, <1>3, CoordinatorMoves DEF WaitVanished, Leave, Labels
<1>14. CASE WaitAck(w)
  <2>1. cursor' \in Nat
    <3>1. Max({x.seq : x \in m.got}) \in Nat
      BY <1>14, LastCollected DEF WaitAck
    <3> QED BY <1>14, <3>1, <1>2 DEF WaitAck, AckUpTo
  <2>2. Known("emit", m)
    BY <1>1 DEF Known
  <2> QED BY <1>14, <2>1, <2>2, <1>1, <1>2, CoordinatorMoves DEF WaitAck, Labels
<1>15. CASE WaitKeeps(w)
  <2>1. Known("emit", m)
    BY <1>1 DEF Known
  <2> QED BY <1>15, <2>1, <1>1, <1>2, CoordinatorMoves DEF WaitKeeps, Labels
<1>16. CASE WaitReturn(w)
  <2>1. returned' \subseteq Nat
    BY <1>16, <1>1, <1>2 DEF WaitReturn, Message
  <2> QED BY <1>16, <2>1, <1>2, <1>3, CoordinatorMoves DEF WaitReturn, Leave, Labels
<1> QED BY <1>5, <1>6, <1>7, <1>8, <1>9, <1>10, <1>11, <1>12, <1>13, <1>14, <1>15, <1>16
        DEF WaitStep

LEMMA AsideKeeps ==
    ASSUME InboxInv, NEW w \in Waits,
           NudgeLook(w) \/ NudgeSave(w) \/ ReportAck(w) \/ CrashWait(w)
    PROVE  InboxInv'
<1> DEFINE m == mem[w]
<1> USE DEF InboxInv, store, worker
<1>1. m \in Memory /\ Known(pc[w], m) /\ pc[w] \in Labels /\ m.scope \subseteq Dispatches
  BY DEF TypeOK, Kept, Labels, Memory
<1>2. /\ cursor \in Nat /\ state \in [Dispatches -> {"dispatched", "settled", "abandoned"}]
      /\ waiting \subseteq Waits /\ returned \subseteq Nat
      /\ inbox \subseteq Message /\ rejected \subseteq Message
  BY DEF TypeOK
<1>3. NoMemory \in Memory /\ \A l \in Labels \ {"ack"} : Known(l, NoMemory)
  BY NoMemoryIsMemory DEF Known
<1>4. CASE NudgeLook(w)
  <2>1. PICK d \in m.scope : Goto(w, pc[w], [m EXCEPT !.nudge = d])
    BY <1>4 DEF NudgeLook
  <2> DEFINE n == [m EXCEPT !.nudge = d]
  <2>2. n \in Memory
    BY <1>1, Updates
  <2>3. Known(pc[w], n)
    BY <1>1 DEF Known, Memory
  <2> HIDE DEF n
  <2> QED BY <1>4, <2>1, <2>2, <2>3, <1>1, <1>2, CoordinatorMoves DEF NudgeLook, n
<1>5. CASE NudgeSave(w)
  <2> DEFINE n == [m EXCEPT !.nudge = None]
  <2>1. n \in Memory
    BY <1>1, Updates
  <2>2. Known(pc[w], n)
    BY <1>1 DEF Known, Memory
  <2>3. state' \in [Dispatches -> {"dispatched", "settled", "abandoned"}]
    BY <1>5, <1>2 DEF NudgeSave
  <2>4. Goto(w, pc[w], n)
    BY <1>5 DEF NudgeSave
  <2> HIDE DEF n
  <2> QED BY <1>5, <2>1, <2>2, <2>3, <2>4, <1>1, <1>2, CoordinatorMoves DEF NudgeSave
<1>6. CASE ReportAck(w)
  <2>1. PICK x \in inbox \cup rejected : AckUpTo(x.seq) /\ returned' = returned \cup {x.seq}
    BY <1>6 DEF ReportAck
  <2>2. x.seq \in Nat
    BY <1>2 DEF Message
  <2>3. cursor' \in Nat /\ returned' \subseteq Nat
    BY <2>1, <2>2, <1>2 DEF AckUpTo
  <2>4. TypeOK'
    BY <1>6, <2>3 DEF ReportAck, TypeOK
  <2>5. Sent' /\ Numbered' /\ Kept'
    BY <1>6 DEF ReportAck, Sent, Numbered, Kept, Known
  <2> QED BY <2>4, <2>5
<1>7. CASE CrashWait(w)
  BY <1>7, <1>2, <1>3, CoordinatorMoves DEF CrashWait, Leave, Labels
<1> QED BY <1>4, <1>5, <1>6, <1>7

LEMMA EventKeeps ==
    ASSUME InboxInv, NEW d \in Dispatches, PaneEvent(d)
    PROVE  InboxInv'
<1> USE DEF InboxInv, store, worker, PaneEvent
<1>1. \A w \in Waits : /\ mem'[w] \in Memory /\ mem'[w].got = mem[w].got
  <2> TAKE w \in Waits
  <2>1. mem[w] \in Memory
    BY DEF TypeOK
  <2> DEFINE x == IF mem[w].vanished = None THEN d ELSE mem[w].vanished
             t == IF pc[w] = "watch" THEN mem[w].told ELSE mem[w].told \cup {d}
             n == [mem[w] EXCEPT !.vanished = x, !.told = t]
  <2>2. x \in Dispatches \cup {None} /\ t \in SUBSET Dispatches
    BY <2>1 DEF Memory
  <2>3. mem'[w] = n \/ mem'[w] = mem[w]
    BY <2>1
  <2> HIDE DEF x, t
  <2>4. n \in Memory /\ n.got = mem[w].got
    BY <2>1, <2>2, Updates DEF Memory
  <2> HIDE DEF n
  <2> QED BY <2>1, <2>3, <2>4
<1>2. mem' \in [Waits -> Memory]
  <2>1. mem' = [w \in Waits |-> mem'[w]]
    OBVIOUS
  <2> QED BY <1>1, <2>1
<1>3. \A w \in Waits : pc'[w] = pc[w] \/ (pc[w] = "block" /\ pc'[w] = "hint")
  OBVIOUS
<1>4. pc' \in [Waits -> Labels]
  <2>1. pc' = [w \in Waits |-> pc'[w]]
    OBVIOUS
  <2> QED BY <1>3, <2>1 DEF TypeOK, Labels
<1>5. pane' \in [Dispatches -> {"alive", "gone"}]
  BY DEF TypeOK
<1>6. TypeOK'
  BY <1>2, <1>4, <1>5 DEF TypeOK, Labels
<1>7. Sent' /\ Numbered'
  BY DEF Sent, Numbered
<1>8. Kept'
  BY <1>1, <1>3 DEF Kept, Known
<1> QED BY <1>6, <1>7, <1>8

LEMMA NextInbox == InboxInv /\ [Next]_vars => InboxInv'
<1> SUFFICES ASSUME InboxInv, [Next]_vars PROVE InboxInv'
  OBVIOUS
<1>1. CASE Next
  BY <1>1, WorkerKeeps, CoordinatorKeeps, AsideKeeps, EventKeeps DEF Next
<1>2. CASE UNCHANGED vars
  BY <1>2 DEF vars, InboxInv, TypeOK, Sent, Kept, Known, Numbered
<1> QED BY <1>1, <1>2

\* The inductive invariant: a message on its way has a number that was claimed, what a wait
\* holds is in the inbox, and it goes on to its ack only with something in hand.
THEOREM InboxInvariant == Spec => []InboxInv
BY InitInbox, NextInbox, PTL DEF Spec

\* Every file, copy and cursor has its type, for any numbers of workers and coordinators, with
\* every command and fault.
THEOREM InboxTyped == Spec => []TypeOK
<1>1. InboxInv => TypeOK
  BY DEF InboxInv
<1> QED BY <1>1, InboxInvariant, PTL

-----------------------------------------------------------------------------
(* A wait acknowledges only what it holds.  That needs messages filed in   *)
(* the order of their numbers: no two workers between claim and file.      *)

OneFiler == ~Overlap \/ \A d, e \in Dispatches : d = e

InFlight(d) == work[d] \in {"filing", "rejecting"}

\* At most one message is being filed; it has the last number, which nobody has seen.
LastFiled ==
    \A d \in Dispatches : InFlight(d) =>
        /\ out[d].seq = seq /\ cursor < seq
        /\ \A x \in inbox \cup rejected : x.seq < seq
        /\ \A e \in Dispatches : InFlight(e) => e = d

\* A wait holds all that it asks for between its start and what it holds.
NoGap(l, m) ==
    /\ l \in {"idle", "register", "scan"} => m.got = {}
    /\ l \notin {"idle", "register"} => m.from <= cursor
    /\ \A x \in Matching(m), y \in m.got : x.seq <= y.seq => x \in m.got

GapInv ==
    /\ LastFiled /\ cursor <= seq
    /\ \A w \in Waits : NoGap(pc[w], mem[w])

\* Under Careful a wait is on the whole run, for all that wakes, and ends in its print.
Careful ==
    /\ OneFiler /\ "crash" \notin Faults /\ "ack" \notin Commands
    /\ \A scope \in Scopes : scope = Dispatches
    /\ \A types \in Wants : {"report", "question"} \subseteq types

Whole(l, m) == l # "idle" => m.scope = Dispatches /\ {"report", "question"} \subseteq m.types

UnreadInv ==
    /\ \A w \in Waits : Whole(pc[w], mem[w])
    /\ CursorSkipsNothing

LEMMA InitGap == Init => GapInv
BY NoMemoryIsMemory DEF Init, GapInv, LastFiled, InFlight, NoGap

LEMMA InitUnread == Init => UnreadInv
BY DEF Init, UnreadInv, Whole, CursorSkipsNothing

\* A wait that adds all it can see has no gap.
LEMMA LookIsGapless ==
    ASSUME NEW m, m.from <= cursor, NEW n,
           n.from = m.from, n.scope = m.scope, n.types = m.types,
           n.got = m.got \cup Matching(m), NEW l, l \notin {"idle", "register", "scan"}
    PROVE  NoGap(l, n)
<1>1. Matching(n) = Matching(m)
  BY DEF Matching
<1> QED BY <1>1 DEF NoGap

\* What a step of a coordinator process keeps: no gap, and the scope of a careful wait.
Fits(w, l, m) ==
    /\ NoGap(l, m)
    /\ Careful /\ Whole(pc[w], mem[w]) => Whole(l, m)

\* Where each step of a coordinator process but its ack leads.
LEMMA CoordinatorSteps ==
    ASSUME InboxInv, GapInv, NEW w \in Waits,
           \/ Wait(w) \/ (WaitStep(w) /\ ~WaitAck(w))
           \/ NudgeLook(w) \/ NudgeSave(w) \/ CrashWait(w)
    PROVE  \E l \in Labels, m \in Memory : Goto(w, l, m) /\ Fits(w, l, m)
<1> DEFINE m == mem[w]
<1> USE DEF store, worker, Fits
<1>1. /\ m \in Memory /\ NoGap(pc[w], m)
      /\ cursor \in Nat /\ pc[w] \in Labels
      /\ Matching(m) \in SUBSET Message
      /\ m.ahead \in SUBSET Dispatches /\ m.watched \in SUBSET Dispatches
  BY Collected DEF InboxInv, TypeOK, GapInv, Labels, Memory
<1>2. NoMemory \in Memory /\ Fits(w, "idle", NoMemory) /\ "idle" \in Labels
  BY NoMemoryIsMemory DEF Whole, NoGap, Labels
<1>3. CASE Wait(w)
  <2>1. PICK scope \in Scopes, types \in Wants, all \in BOOLEAN, keep \in BOOLEAN :
            Goto(w, "register", [NoMemory EXCEPT !.scope = scope, !.types = types, !.all = all,
                                    !.keep = keep,
                                    !.pending = {d \in scope : state[d] = "dispatched"}])
    BY <1>3 DEF Wait
  <2> DEFINE n == [NoMemory EXCEPT !.scope = scope, !.types = types, !.all = all,
                                    !.keep = keep,
                                    !.pending = {d \in scope : state[d] = "dispatched"}]
  <2>2. n \in Memory /\ n.got = {} /\ n.scope = scope /\ n.types = types
    BY ScopesAreSets, WantsAreTypes DEF NoMemory, Memory, Types
  <2>3. Fits(w, "register", n)
    BY <2>2 DEF Whole, NoGap, Careful
  <2> HIDE DEF n
  <2> QED BY <1>3, <2>1, <2>2, <2>3 DEF Wait, Labels, n
<1>4. CASE WaitRegister(w)
  <2>1. PICK from \in {cursor, 0} : Goto(w, "scan", [m EXCEPT !.from = from])
    BY <1>4 DEF WaitRegister
  <2> DEFINE n == [m EXCEPT !.from = from]
  <2>2. from \in Nat /\ from <= cursor
    BY <1>1
  <2>3. n \in Memory
    BY <1>1, <2>2, Updates
  <2>4. n.got = {} /\ n.from = from /\ n.scope = m.scope /\ n.types = m.types
    BY <1>1, <1>4 DEF Memory, NoGap, WaitRegister
  <2>5. Fits(w, "scan", n)
    BY <1>1, <1>4, <2>2, <2>4 DEF Whole, NoGap, WaitRegister
  <2> HIDE DEF n
  <2> QED BY <1>4, <2>1, <2>3, <2>5 DEF WaitRegister, Labels, n
<1>5. CASE WaitScan(w)
  <2> DEFINE n == [m EXCEPT !.got = Matching(m)]
             v == [n EXCEPT !.ahead = n.pending]
  <2>1. n \in Memory
    BY <1>1, Updates
  <2>2. /\ n.got = m.got \cup Matching(m) /\ n.from = m.from
        /\ n.scope = m.scope /\ n.types = m.types
    BY <1>1, <1>5 DEF Memory, NoGap, WaitScan
  <2>3. m.from <= cursor
    BY <1>1, <1>5 DEF NoGap, WaitScan
  <2> HIDE DEF n
  <2>8. /\ v \in Memory
        /\ v.got = n.got /\ v.from = n.from /\ v.scope = n.scope /\ v.types = n.types
    <3>1. n.pending \in SUBSET Dispatches
      BY <2>1 DEF Memory
    <3> QED BY <2>1, <3>1, Updates DEF Memory
  <2> HIDE DEF v
  <2>4. Fits(w, "ack", n) /\ Fits(w, "watch", v)
    BY <1>5, <2>2, <2>3, <2>8, LookIsGapless DEF Whole, WaitScan
  <2>5. CASE Goto(w, "ack", n) /\ UNCHANGED waiting
    BY <1>5, <2>1, <2>4, <2>5 DEF WaitScan, Labels
  <2>6. CASE Leave(w)
    BY <1>2, <1>5, <2>6 DEF Leave
  <2>7. CASE Goto(w, "watch", v) /\ UNCHANGED waiting
    BY <1>5, <2>4, <2>7, <2>8 DEF WaitScan, Labels
  <2> QED BY <1>5, <2>5, <2>6, <2>7 DEF WaitScan, n, v
<1>6. CASE WaitPoll(w)
  <2> DEFINE n == [m EXCEPT !.got = @ \cup Matching(m)]
             l == IF Satisfied(n) THEN "ack" ELSE "block"
  <2>1. n \in Memory
    <3>1. m.got \cup Matching(m) \in SUBSET Message
      BY <1>1 DEF Memory
    <3> QED BY <1>1, <3>1, Updates
  <2>2. /\ n.got = m.got \cup Matching(m) /\ n.from = m.from
        /\ n.scope = m.scope /\ n.types = m.types
    BY <1>1 DEF Memory
  <2>3. m.from <= cursor
    BY <1>1, <1>6 DEF NoGap, WaitPoll
  <2>4. l \in Labels \ {"idle", "register", "scan"}
    BY DEF Labels
  <2>5. Goto(w, l, n)
    BY <1>6 DEF WaitPoll
  <2> HIDE DEF n, l
  <2>6. Fits(w, l, n)
    BY <1>6, <2>2, <2>3, <2>4, LookIsGapless DEF Whole, WaitPoll
  <2> QED BY <1>6, <2>1, <2>4, <2>5, <2>6 DEF WaitPoll
<1>7. CASE WaitTimeout(w) \/ WaitVanished(w) \/ WaitReturn(w) \/ CrashWait(w)
  BY <1>2, <1>7 DEF WaitTimeout, WaitVanished, WaitReturn, CrashWait, Leave
<1>8. CASE WaitHint(w)
  <2> DEFINE late == Matching(m) \ m.got
             n == [m EXCEPT !.got = @ \cup late, !.vanished = None]
             l == IF Satisfied(n) THEN "ack" ELSE "block"
  <2>1. n \in Memory
    <3>1. m.got \cup late \in SUBSET Message
      BY <1>1 DEF Memory
    <3> QED BY <1>1, <3>1, Updates
  <2>2. /\ n.got = m.got \cup Matching(m) /\ n.from = m.from
        /\ n.scope = m.scope /\ n.types = m.types
    BY <1>1 DEF Memory
  <2>3. m.from <= cursor
    BY <1>1, <1>8 DEF NoGap, WaitHint
  <2>4. l \in Labels \ {"idle", "register", "scan"} /\ "confirm" \in Labels
    BY DEF Labels
  <2>5. Goto(w, "confirm", m) \/ Goto(w, l, n)
    BY <1>8 DEF WaitHint
  <2> HIDE DEF n, l
  <2>6. Fits(w, l, n)
    BY <1>8, <2>2, <2>3, <2>4, LookIsGapless DEF Whole, WaitHint
  <2>7. Fits(w, "confirm", m)
    BY <1>1, <1>8 DEF Whole, NoGap, WaitHint
  <2> QED BY <1>1, <1>8, <2>1, <2>4, <2>5, <2>6, <2>7 DEF WaitHint
<1>9. ASSUME NEW n \in Memory, NEW l \in Labels, Goto(w, l, n),
             /\ n.got = m.got /\ n.from = m.from /\ n.scope = m.scope /\ n.types = m.types,
             pc[w] \in {"watch", "block", "confirm", "ack"}, l \in {"watch", "block", "confirm", "emit"}
      PROVE  Fits(w, l, n)
  <2>1. Matching(n) = Matching(m)
    BY <1>9 DEF Matching
  <2> QED BY <1>1, <1>9, <2>1 DEF Whole, NoGap
<1>10. CASE WaitWatch(w)
  <2>1. PICK d \in m.ahead, ok \in BOOLEAN :
            Goto(w, IF m.ahead = {d} THEN "block" ELSE "watch",
                 [m EXCEPT !.ahead = @ \ {d}, !.watched = IF ok THEN @ \cup {d} ELSE @])
    BY <1>10 DEF WaitWatch
  <2> DEFINE l == IF m.ahead = {d} THEN "block" ELSE "watch"
             n == [m EXCEPT !.ahead = @ \ {d}, !.watched = IF ok THEN @ \cup {d} ELSE @]
  <2>2. n \in Memory
    <3>1. /\ m.ahead \ {d} \in SUBSET Dispatches
          /\ (IF ok THEN m.watched \cup {d} ELSE m.watched) \in SUBSET Dispatches
      BY <1>1
    <3> QED BY <1>1, <3>1, Updates
  <2>3. n.got = m.got /\ n.from = m.from /\ n.scope = m.scope /\ n.types = m.types
    BY <1>1 DEF Memory
  <2>4. l \in {"watch", "block"} /\ Goto(w, l, n)
    BY <2>1
  <2> HIDE DEF n, l
  <2> QED BY <1>9, <1>10, <2>2, <2>3, <2>4 DEF WaitWatch, Labels
<1>11. CASE WaitSpurious(w)
  <2> DEFINE n == [m EXCEPT !.vanished = None]
  <2>1. n \in Memory
    BY <1>1, Updates
  <2>2. n.got = m.got /\ n.from = m.from /\ n.scope = m.scope /\ n.types = m.types
    BY <1>1 DEF Memory
  <2>3. Goto(w, "block", n)
    BY <1>11 DEF WaitSpurious
  <2> HIDE DEF n
  <2> QED BY <1>9, <1>11, <2>1, <2>2, <2>3 DEF WaitSpurious, Labels
<1>12. CASE WaitKeeps(w)
  BY <1>1, <1>9, <1>12 DEF WaitKeeps, Labels
<1>13. CASE NudgeLook(w)
  <2>1. PICK d \in m.scope : Goto(w, pc[w], [m EXCEPT !.nudge = d])
    BY <1>13 DEF NudgeLook
  <2> DEFINE n == [m EXCEPT !.nudge = d]
  <2>2. n \in Memory
    <3>1. d \in Dispatches
      BY <1>1 DEF Memory
    <3> QED BY <1>1, <3>1, Updates
  <2>3. n.got = m.got /\ n.from = m.from /\ n.scope = m.scope /\ n.types = m.types
    BY <1>1 DEF Memory
  <2> HIDE DEF n
  <2> QED BY <1>1, <1>9, <1>13, <2>1, <2>2, <2>3 DEF NudgeLook, n
<1>14. CASE NudgeSave(w)
  <2> DEFINE n == [m EXCEPT !.nudge = None]
  <2>1. n \in Memory
    BY <1>1, Updates
  <2>2. n.got = m.got /\ n.from = m.from /\ n.scope = m.scope /\ n.types = m.types
    BY <1>1 DEF Memory
  <2>3. Goto(w, pc[w], n)
    BY <1>14 DEF NudgeSave
  <2> HIDE DEF n
  <2> QED BY <1>1, <1>9, <1>14, <2>1, <2>2, <2>3 DEF NudgeSave
<1> QED BY <1>3, <1>4, <1>5, <1>6, <1>7, <1>8, <1>10, <1>11, <1>12, <1>13, <1>14
        DEF WaitStep

\* The ack of a wait: the cursor goes to a number it holds.
LEMMA AckSteps ==
    ASSUME InboxInv, GapInv, NEW w \in Waits, WaitAck(w)
    PROVE  /\ Goto(w, "emit", mem[w]) /\ "emit" \in Labels /\ mem[w] \in Memory
           /\ cursor <= cursor'
           /\ cursor' = cursor \/ \E y \in mem[w].got : cursor' = y.seq
           /\ \A l \in {"emit"} : NoGap(l, mem[w])
           /\ \A x \in Matching(mem[w]) : x.seq > cursor /\ x.seq <= cursor'
                  => x \in mem[w].got
<1> DEFINE m == mem[w]
<1>1. m \in Memory /\ NoGap("ack", m) /\ cursor \in Nat /\ inbox \subseteq Message
  BY DEF InboxInv, TypeOK, GapInv, WaitAck
<1>2. Goto(w, "emit", m) /\ AckUpTo(Max({x.seq : x \in m.got}))
  BY DEF WaitAck
<1>3. PICK y \in m.got : Max({x.seq : x \in m.got}) = y.seq /\ y.seq \in Nat
  BY LastCollected DEF WaitAck
<1>4. cursor <= cursor' /\ (cursor' = cursor \/ cursor' = y.seq)
  BY <1>1, <1>2, <1>3 DEF AckUpTo
<1>5. ASSUME NEW x \in Matching(m), x.seq > cursor, x.seq <= cursor' PROVE x \in m.got
  <2>1. x.seq \in Nat
    BY <1>1 DEF Matching, Message
  <2>2. x.seq <= y.seq
    BY <1>1, <1>3, <1>4, <1>5, <2>1
  <2> QED BY <1>1, <2>2 DEF NoGap
<1> QED BY <1>1, <1>2, <1>4, <1>5 DEF NoGap, Labels

\* A step of a coordinator process that moves the cursor, if at all, to a number somebody has.
LEMMA CoordinatorGap ==
    ASSUME InboxInv, GapInv, NEW w \in Waits, NEW l \in Labels, NEW m \in Memory,
           NoGap(l, m), Goto(w, l, m), UNCHANGED <<seq, inbox, rejected, work, out>>,
           cursor <= cursor', cursor' = cursor \/ \E x \in inbox \cup rejected : cursor' = x.seq
    PROVE  GapInv'
<1>1. /\ cursor \in Nat /\ cursor' \in Nat
      /\ \A v \in Waits : mem[v].from \in Nat
      /\ m.from \in Nat
  BY DEF InboxInv, TypeOK, Message, Memory
<1>2. /\ \A v \in Waits \ {w} : pc'[v] = pc[v] /\ mem'[v] = mem[v]
      /\ pc'[w] = l /\ mem'[w] = m
  BY DEF InboxInv, TypeOK, Goto
<1>3. LastFiled' /\ cursor' <= seq'
  BY DEF GapInv, LastFiled, InFlight, InboxInv, Numbered
<1>4. \A v \in Waits : NoGap(pc[v], mem[v])'
  <2> TAKE v \in Waits
  <2>1. CASE v = w
    BY <1>1, <1>2, <2>1 DEF NoGap, Matching
  <2>2. CASE v # w
    BY <1>1, <1>2, <2>2 DEF GapInv, NoGap, Matching
  <2> QED BY <2>1, <2>2
<1> QED BY <1>3, <1>4 DEF GapInv

LEMMA WorkerGap ==
    ASSUME OneFiler, InboxInv, GapInv, NEW d \in Dispatches,
           Claim(d) \/ WorkerStep(d) \/ CrashWorker(d)
    PROVE  GapInv'
<1> USE DEF store
<1>1. /\ seq \in Nat /\ cursor \in Nat /\ cursor <= seq
      /\ inbox \subseteq Message /\ rejected \subseteq Message
      /\ \A x \in inbox \cup rejected : x.seq <= seq /\ x.seq \in Nat
      /\ work \in [Dispatches -> {"working", "filing", "rejecting", "settling", "notifying",
                                  "pushing"}]
      /\ out \in [Dispatches -> Message \cup {None}]
  BY DEF InboxInv, TypeOK, GapInv, Numbered, Message
<1>2. CASE Claim(d)
  <2>1. /\ seq' = seq + 1 /\ UNCHANGED <<inbox, rejected, cursor, pc, mem>>
        /\ \A e \in Dispatches : ~InFlight(e)
    BY <1>2 DEF Claim, InFlight, OneFiler, WorkerMoves
  <2>2. out'[d].seq = seq' /\ \A e \in Dispatches : InFlight(e)' => e = d
    BY <1>1, <1>2, <2>1 DEF Claim, WorkerMoves, InFlight
  <2>3. LastFiled' /\ cursor' <= seq'
    BY <1>1, <2>1, <2>2 DEF LastFiled
  <2> QED BY <2>1, <2>3 DEF GapInv, NoGap, Matching
<1>3. CASE FileMessage(d)
  <2>1. /\ InFlight(d) /\ inbox' = inbox \cup {out[d]}
        /\ UNCHANGED <<seq, rejected, cursor, out, pc, mem>>
    BY <1>3 DEF FileMessage, WorkerMoves, InFlight
  <2>2. out[d].seq = seq /\ \A x \in inbox : x.seq < seq
    BY <2>1 DEF GapInv, LastFiled
  <2>3. LastFiled'
    <3>1. \A e \in Dispatches : ~InFlight(e)'
      BY <1>1, <1>3, <2>1 DEF GapInv, LastFiled, FileMessage, WorkerMoves, InFlight
    <3> QED BY <3>1 DEF LastFiled
  <2>4. \A w \in Waits : NoGap(pc[w], mem[w])'
    <3> TAKE w \in Waits
    <3>1. mem[w].got \subseteq inbox /\ NoGap(pc[w], mem[w])
      BY DEF InboxInv, Kept, Known, GapInv
    <3>2. \A y \in mem[w].got : ~(out[d].seq <= y.seq)
      BY <1>1, <2>2, <3>1
    <3>3. \A x \in Matching(mem[w])' : x \in Matching(mem[w]) \/ x = out[d]
      BY <2>1 DEF Matching
    <3> QED BY <2>1, <3>1, <3>2, <3>3 DEF NoGap
  <2> QED BY <2>1, <2>3, <2>4 DEF GapInv
<1>4. CASE FileRejected(d)
  <2>1. /\ InFlight(d) /\ UNCHANGED <<seq, inbox, cursor, out, pc, mem>>
    BY <1>4 DEF FileRejected, WorkerMoves, InFlight
  <2>2. \A e \in Dispatches : ~InFlight(e)'
    BY <1>1, <1>4, <2>1 DEF GapInv, LastFiled, FileRejected, WorkerMoves, InFlight
  <2> QED BY <2>1, <2>2 DEF GapInv, LastFiled, NoGap, Matching
<1>5. CASE Settle(d) \/ Notify(d) \/ Push(d) \/ CrashWorker(d)
  <2>1. UNCHANGED <<seq, inbox, rejected, cursor, out, pc, mem>>
    BY <1>5 DEF Settle, Notify, Push, CrashWorker
  <2>2. \A e \in Dispatches : InFlight(e)' => InFlight(e)
    BY <1>1, <1>5 DEF Settle, Notify, Push, CrashWorker, WorkerMoves, InFlight
  <2>3. LastFiled'
    BY <2>1, <2>2 DEF GapInv, LastFiled
  <2> QED BY <2>1, <2>3 DEF GapInv, NoGap, Matching
<1> QED BY <1>2, <1>3, <1>4, <1>5 DEF WorkerStep

\* Events change only what waits have been told.
LEMMA EventKnows ==
    ASSUME InboxInv, NEW d \in Dispatches, PaneEvent(d), NEW w \in Waits
    PROVE  /\ mem'[w].got = mem[w].got /\ mem'[w].from = mem[w].from
           /\ mem'[w].scope = mem[w].scope /\ mem'[w].types = mem[w].types
           /\ pc'[w] = pc[w] \/ (pc[w] = "block" /\ pc'[w] = "hint")
<1>1. mem[w] \in Memory
  BY DEF InboxInv, TypeOK
<1> QED BY <1>1 DEF PaneEvent, Memory

LEMMA NextGap ==
    ASSUME OneFiler
    PROVE  InboxInv /\ GapInv /\ [Next]_vars => GapInv'
<1> SUFFICES ASSUME InboxInv, GapInv, [Next]_vars PROVE GapInv'
  OBVIOUS
<1> USE DEF store, worker
<1>1. cursor \in Nat /\ inbox \subseteq Message /\ rejected \subseteq Message
  BY DEF InboxInv, TypeOK
<1>2. ASSUME NEW w \in Waits,
             \/ Wait(w) \/ (WaitStep(w) /\ ~WaitAck(w))
             \/ NudgeLook(w) \/ NudgeSave(w) \/ CrashWait(w)
      PROVE  GapInv'
  <2>1. PICK l \in Labels, m \in Memory : Goto(w, l, m) /\ NoGap(l, m)
    BY <1>2, CoordinatorSteps DEF Fits
  <2>2. UNCHANGED <<seq, inbox, rejected, cursor, work, out>>
    BY <1>2 DEF Wait, CrashWait, NudgeLook, NudgeSave, WaitStep, WaitRegister, WaitScan,
                WaitPoll, WaitTimeout, WaitHint, WaitWatch, WaitSpurious, WaitVanished,
                WaitKeeps, WaitReturn
  <2> QED BY <1>1, <2>1, <2>2, CoordinatorGap
<1>3. ASSUME NEW w \in Waits, WaitAck(w) PROVE GapInv'
  <2>1. mem[w].got \subseteq inbox
    BY DEF InboxInv, Kept, Known
  <2>2. UNCHANGED <<seq, inbox, rejected, work, out>>
    BY <1>3 DEF WaitAck
  <2>3. cursor' = cursor \/ \E x \in inbox \cup rejected : cursor' = x.seq
    BY <1>3, <2>1, AckSteps
  <2> QED BY <1>3, <2>2, <2>3, AckSteps, CoordinatorGap
<1>4. ASSUME NEW w \in Waits, ReportAck(w) PROVE GapInv'
  <2>1. PICK x \in inbox \cup rejected : AckUpTo(x.seq)
    BY <1>4 DEF ReportAck
  <2>2. x.seq \in Nat
    BY <1>1 DEF Message
  <2>3. cursor <= cursor' /\ cursor' \in {cursor, x.seq}
    BY <1>1, <2>1, <2>2 DEF AckUpTo
  <2>4. UNCHANGED <<seq, inbox, rejected, work, out, pc, mem>>
    BY <1>4 DEF ReportAck
  <2>5. LastFiled' /\ cursor' <= seq'
    BY <2>3, <2>4 DEF GapInv, LastFiled, InFlight, InboxInv, Numbered
  <2>6. \A v \in Waits : NoGap(pc[v], mem[v])'
    <3> TAKE v \in Waits
    <3>1. mem[v].from \in Nat
      BY DEF InboxInv, TypeOK, Memory
    <3> QED BY <1>1, <2>2, <2>3, <2>4, <3>1 DEF GapInv, NoGap, Matching
  <2> QED BY <2>5, <2>6 DEF GapInv
<1>5. ASSUME NEW d \in Dispatches, PaneEvent(d) PROVE GapInv'
  <2>1. UNCHANGED <<seq, inbox, rejected, cursor, work, out>>
    BY <1>5 DEF PaneEvent
  <2>2. \A w \in Waits : NoGap(pc[w], mem[w])'
    BY <1>5, <2>1, EventKnows DEF GapInv, NoGap, Matching
  <2> QED BY <2>1, <2>2 DEF GapInv, LastFiled, InFlight
<1>6. CASE Next
  BY <1>2, <1>3, <1>4, <1>5, <1>6, WorkerGap DEF Next
<1>7. CASE UNCHANGED vars
  BY <1>7 DEF vars, GapInv, LastFiled, InFlight, NoGap, Matching
<1> QED BY <1>6, <1>7

LEMMA AckStep == InboxInv /\ GapInv /\ [Next]_vars =>
    \A w \in Waits : WaitAck(w) =>
        \A x \in inbox : x.disp \in mem[w].scope /\ x.type \in mem[w].types
                          /\ x.seq \in (cursor + 1)..cursor' => x \in mem[w].got
<1> SUFFICES ASSUME InboxInv, GapInv, NEW w \in Waits, WaitAck(w), NEW x \in inbox,
                    x.disp \in mem[w].scope, x.type \in mem[w].types,
                    x.seq \in (cursor + 1)..cursor'
             PROVE  x \in mem[w].got
  OBVIOUS
<1>1. cursor \in Nat /\ x.seq \in Nat /\ mem[w].from \in Nat /\ mem[w].from <= cursor
  BY DEF InboxInv, TypeOK, Message, Memory, GapInv, NoGap, WaitAck
<1>2. cursor' \in Nat
  <2>1. \A y \in mem[w].got : y.seq \in Nat
    BY DEF InboxInv, TypeOK, Memory, Message
  <2> QED BY <1>1, <2>1, AckSteps
<1>3. x.seq > cursor /\ x.seq <= cursor'
  BY <1>1, <1>2
<1>4. x \in Matching(mem[w])
  BY <1>1, <1>3 DEF Matching
<1> QED BY <1>3, <1>4, AckSteps

\* Whatever a wait is about, whoever else waits, acks or crashes: if messages are filed in the
\* order of their numbers, a wait moves the cursor only over those of its scope and types that
\* it is about to print.
THEOREM AckTakesHeld ==
    ASSUME OneFiler
    PROVE  Spec => AckTakesWhatItHolds
<1>1. Init => InboxInv /\ GapInv
  BY InitInbox, InitGap
<1>2. (InboxInv /\ GapInv) /\ [Next]_vars => (InboxInv /\ GapInv)'
  BY NextInbox, NextGap
<1>3. Spec => [](InboxInv /\ GapInv)
  BY <1>1, <1>2, PTL DEF Spec
<1>4. (InboxInv /\ GapInv) /\ [Next]_vars =>
          [\A w \in Waits : WaitAck(w) =>
              \A x \in inbox : x.disp \in mem[w].scope /\ x.type \in mem[w].types
                                /\ x.seq \in (cursor + 1)..cursor' => x \in mem[w].got]_vars
  BY AckStep
<1> QED BY <1>3, <1>4, PTL DEF Spec, AckTakesWhatItHolds

-----------------------------------------------------------------------------
\* A step of a coordinator process that does not move the cursor, and prints what it was about
\* to print before it goes on.
LEMMA CoordinatorUnread ==
    ASSUME InboxInv, UnreadInv, NEW w \in Waits, NEW l \in Labels, NEW m \in Memory,
           Whole(l, m), Goto(w, l, m), UNCHANGED <<inbox, cursor>>,
           returned \subseteq returned',
           pc[w] = "emit" => {x.seq : x \in mem[w].got} \subseteq returned'
    PROVE  UnreadInv'
<1>1. /\ \A v \in Waits \ {w} : pc'[v] = pc[v] /\ mem'[v] = mem[v]
      /\ pc'[w] = l /\ mem'[w] = m
  BY DEF InboxInv, TypeOK, Goto
<1>2. \A v \in Waits : Whole(pc'[v], mem'[v])
  BY <1>1 DEF UnreadInv
<1>3. CursorSkipsNothing'
  <2> SUFFICES ASSUME NEW x \in inbox, x.type # "heartbeat", x.seq <= cursor
               PROVE  x.seq \in returned' \/ \E v \in Waits : pc'[v] = "emit" /\ x \in mem'[v].got
    BY DEF CursorSkipsNothing
  <2>1. x.seq \in returned \/ \E v \in Waits : pc[v] = "emit" /\ x \in mem[v].got
    BY DEF UnreadInv, CursorSkipsNothing
  <2>2. ASSUME NEW v \in Waits, pc[v] = "emit", x \in mem[v].got
        PROVE  x.seq \in returned' \/ (pc'[v] = "emit" /\ x \in mem'[v].got)
    BY <1>1, <2>2
  <2> QED BY <2>1, <2>2
<1> QED BY <1>2, <1>3 DEF UnreadInv, Whole

LEMMA AckUnread ==
    ASSUME InboxInv, GapInv, UnreadInv, NEW w \in Waits, WaitAck(w)
    PROVE  UnreadInv'
<1> DEFINE m == mem[w]
<1>1. /\ \A v \in Waits \ {w} : pc'[v] = pc[v] /\ mem'[v] = mem[v]
      /\ pc'[w] = "emit" /\ mem'[w] = m
      /\ inbox' = inbox /\ returned' = returned
  BY DEF InboxInv, TypeOK, Goto, WaitAck
<1>2. Whole("emit", m)
  BY DEF UnreadInv, Whole, WaitAck
<1>3. \A v \in Waits : Whole(pc'[v], mem'[v])
  BY <1>1, <1>2 DEF UnreadInv
<1>4. CursorSkipsNothing'
  <2> SUFFICES ASSUME NEW x \in inbox, x.type # "heartbeat", x.seq <= cursor'
               PROVE  x.seq \in returned \/ \E v \in Waits : pc'[v] = "emit" /\ x \in mem'[v].got
    BY <1>1 DEF CursorSkipsNothing
  <2>1. CASE x.seq <= cursor
    <3>1. x.seq \in returned \/ \E v \in Waits : pc[v] = "emit" /\ x \in mem[v].got
      BY <2>1 DEF UnreadInv, CursorSkipsNothing
    <3>2. ASSUME NEW v \in Waits, pc[v] = "emit", x \in mem[v].got
          PROVE  pc'[v] = "emit" /\ x \in mem'[v].got
      BY <1>1, <3>2 DEF WaitAck
    <3> QED BY <3>1, <3>2
  <2>2. CASE ~(x.seq <= cursor)
    <3>1. /\ cursor \in Nat /\ x \in Message /\ m.from \in Nat /\ m.from <= cursor
      BY DEF InboxInv, TypeOK, Memory, GapInv, NoGap, WaitAck
    <3>2. x.type \in m.types /\ x.disp \in m.scope
      BY <1>2, <3>1 DEF Whole, Message, Types
    <3>3. x.seq > cursor /\ x.seq > m.from
      BY <2>2, <3>1 DEF Message
    <3>4. x \in Matching(m)
      BY <3>2, <3>3 DEF Matching
    <3>5. x \in m.got
      BY <3>3, <3>4, AckSteps
    <3> QED BY <1>1, <3>5
  <2> QED BY <2>1, <2>2
<1> QED BY <1>3, <1>4 DEF UnreadInv, Whole

LEMMA NextUnread ==
    ASSUME Careful
    PROVE  InboxInv /\ GapInv /\ UnreadInv /\ [Next]_vars => UnreadInv'
<1> SUFFICES ASSUME InboxInv, GapInv, UnreadInv, [Next]_vars PROVE UnreadInv'
  OBVIOUS
<1> USE DEF store, worker
<1>1. ASSUME NEW w \in Waits,
             Wait(w) \/ (WaitStep(w) /\ ~WaitAck(w)) \/ NudgeLook(w) \/ NudgeSave(w)
      PROVE  UnreadInv'
  <2>1. PICK l \in Labels, m \in Memory : Goto(w, l, m) /\ Whole(l, m)
    BY <1>1, CoordinatorSteps DEF Fits, UnreadInv
  <2>2. UNCHANGED <<inbox, cursor>>
    BY <1>1 DEF Wait, NudgeLook, NudgeSave, WaitStep, WaitRegister, WaitScan, WaitPoll,
                WaitTimeout, WaitHint, WaitWatch, WaitSpurious, WaitVanished,
                WaitKeeps, WaitReturn
  <2>3. CASE WaitReturn(w)
    BY <2>1, <2>2, <2>3, CoordinatorUnread DEF WaitReturn
  <2>4. CASE ~WaitReturn(w)
    <3>1. returned' = returned /\ pc[w] # "emit"
      BY <1>1, <2>4 DEF Wait, NudgeLook, NudgeSave, WaitStep, WaitRegister, WaitScan,
                WaitPoll, WaitTimeout, WaitHint, WaitWatch, WaitSpurious, WaitVanished,
                WaitKeeps
    <3> QED BY <2>1, <2>2, <3>1, CoordinatorUnread
  <2> QED BY <2>3, <2>4
<1>2. ASSUME NEW d \in Dispatches, FileMessage(d) PROVE UnreadInv'
  <2>1. /\ InFlight(d) /\ inbox' = inbox \cup {out[d]}
        /\ UNCHANGED <<seq, cursor, pc, mem, returned>>
    BY <1>2 DEF FileMessage, WorkerMoves, InFlight
  <2>2. /\ out[d].seq = seq /\ cursor < seq /\ cursor \in Nat /\ seq \in Nat
    BY <2>1 DEF GapInv, LastFiled, InboxInv, TypeOK
  <2>3. CursorSkipsNothing'
    BY <2>1, <2>2 DEF UnreadInv, CursorSkipsNothing
  <2> QED BY <2>1, <2>3 DEF UnreadInv, Whole
<1>3. ASSUME NEW d \in Dispatches,
             Claim(d) \/ (WorkerStep(d) /\ ~FileMessage(d)) \/ CrashWorker(d)
      PROVE  UnreadInv'
  <2>1. UNCHANGED <<inbox, cursor, pc, mem, returned>>
    BY <1>3 DEF Claim, WorkerStep, FileRejected, Settle, Notify, Push, CrashWorker
  <2> QED BY <2>1 DEF UnreadInv, Whole, CursorSkipsNothing
<1>4. ASSUME NEW d \in Dispatches, PaneEvent(d) PROVE UnreadInv'
  <2>1. UNCHANGED <<inbox, cursor, returned>>
    BY <1>4 DEF PaneEvent
  <2>2. \A w \in Waits : Whole(pc[w], mem[w])'
    BY <1>4, EventKnows DEF UnreadInv, Whole
  <2>3. CursorSkipsNothing'
    BY <1>4, <2>1, EventKnows DEF UnreadInv, CursorSkipsNothing
  <2> QED BY <2>2, <2>3 DEF UnreadInv
<1>5. ~ \E w \in Waits : ReportAck(w) \/ CrashWait(w)
  BY DEF Careful, ReportAck, CrashWait
<1>6. CASE Next
  BY <1>1, <1>2, <1>3, <1>4, <1>5, <1>6, AckUnread DEF Next
<1>7. CASE UNCHANGED vars
  BY <1>7 DEF vars, UnreadInv, Whole, CursorSkipsNothing
<1> QED BY <1>6, <1>7

\* With waits on the whole run that nobody kills, and messages filed in order, the cursor
\* swallows no report and no question, for any number of workers and of waits at once, with
\* and without --all, --no-ack, --no-unacked and reminders, whatever Herdr says.
THEOREM NothingSkipped ==
    ASSUME Careful
    PROVE  Spec => []CursorSkipsNothing
<1>1. Init => InboxInv /\ GapInv /\ UnreadInv
  BY InitInbox, InitGap, InitUnread
<1>2. (InboxInv /\ GapInv /\ UnreadInv) /\ [Next]_vars => (InboxInv /\ GapInv /\ UnreadInv)'
  BY NextInbox, NextGap, NextUnread DEF Careful
<1>3. InboxInv /\ GapInv /\ UnreadInv => CursorSkipsNothing
  BY DEF UnreadInv
<1> QED BY <1>1, <1>2, <1>3, PTL DEF Spec

-----------------------------------------------------------------------------
(* A worker's death ends the wait that is told of it                       *)

\* Events are of panes that are gone for good.  A wait that goes on listening has not been told
\* of any: one that was returns what it found, or looks into the event.
Mourns(l, m) ==
    /\ ~m.all
    /\ m.vanished # None => pane[m.vanished] = "gone"
    /\ l \in {"idle", "register", "scan"} => m.watched = {}
    /\ l \in {"hint", "confirm"} => m.vanished # None
    /\ l \in {"register", "scan", "watch", "block"} => m.told = {}

MournInv == \A w \in Waits : Mourns(pc[w], mem[w])

LEMMA WaitMourns ==
    ASSUME "wait_all" \notin Commands, TypeOK, MournInv, NEW w \in Waits,
           Wait(w) \/ WaitStep(w) \/ NudgeLook(w) \/ NudgeSave(w) \/ CrashWait(w)
    PROVE  MournInv'
<1> DEFINE m == mem[w]
<1>1. m \in Memory /\ Mourns(pc[w], m)
  BY DEF TypeOK, MournInv
<1>2. ASSUME NEW l, NEW n, Goto(w, l, n), Mourns(l, n), pane' = pane PROVE MournInv'
  <2>1. /\ pc'[w] = l /\ mem'[w] = n
        /\ \A v \in Waits \ {w} : pc'[v] = pc[v] /\ mem'[v] = mem[v]
    BY <1>2 DEF Goto, TypeOK
  <2>2. Mourns(l, n)'
    BY <1>2 DEF Mourns
  <2> QED BY <1>2, <2>1 DEF MournInv, Mourns
<1>3. pane' = pane
  BY DEF Wait, WaitStep, NudgeLook, NudgeSave, CrashWait, WaitRegister, WaitScan, WaitWatch,
         WaitPoll, WaitTimeout, WaitHint, WaitSpurious, WaitVanished, WaitAck, WaitKeeps,
         WaitReturn
<1>4. Mourns("idle", NoMemory)
  BY DEF Mourns, NoMemory
<1>5. CASE Leave(w)
  BY <1>2, <1>3, <1>4, <1>5 DEF Leave
<1>6. CASE Wait(w)
  <2>1. PICK scope \in Scopes, types \in Wants, keep \in BOOLEAN :
            Goto(w, "register", [NoMemory EXCEPT !.scope = scope, !.types = types, !.all = FALSE,
                                    !.keep = keep,
                                    !.pending = {d \in scope : state[d] = "dispatched"}])
    BY <1>6 DEF Wait
  <2> DEFINE n == [NoMemory EXCEPT !.scope = scope, !.types = types, !.all = FALSE, !.keep = keep,
                                   !.pending = {d \in scope : state[d] = "dispatched"}]
  <2>2. ~n.all /\ n.vanished = None /\ n.watched = {} /\ n.told = {}
    BY DEF NoMemory
  <2>3. Goto(w, "register", n)
    BY <2>1
  <2> HIDE DEF n
  <2> QED BY <1>2, <1>3, <2>2, <2>3 DEF Mourns
\* The steps that look at the inbox, or at nothing, leave what the wait was told alone.
<1>7. ASSUME NEW l, NEW n, Goto(w, l, n),
             n.all = m.all, n.vanished = m.vanished, n.told = m.told,
             l \in {"idle", "register", "scan"} => n.watched = {},
             \/ l = pc[w]
             \/ l \in {"scan", "watch", "block"} /\ pc[w] \in {"register", "scan", "watch", "block"}
             \/ l \in {"ack", "emit"}
             \/ l = "confirm" /\ pc[w] = "hint"
      PROVE  MournInv'
  BY <1>1, <1>2, <1>3, <1>7 DEF Mourns
<1>8. CASE WaitRegister(w)
  <2>1. PICK from : Goto(w, "scan", [m EXCEPT !.from = from])
    BY <1>8 DEF WaitRegister
  <2> DEFINE n == [m EXCEPT !.from = from]
  <2>2. /\ n.all = m.all /\ n.vanished = m.vanished /\ n.told = m.told
        /\ n.watched = m.watched
    BY <1>1 DEF Memory
  <2>3. Goto(w, "scan", n) /\ pc[w] = "register" /\ m.watched = {}
    BY <1>1, <1>8, <2>1 DEF WaitRegister, Mourns
  <2> HIDE DEF n
  <2> QED BY <1>7, <2>2, <2>3
<1>9. CASE WaitScan(w)
  <2> DEFINE n == [m EXCEPT !.got = Matching(m)]
             v == [n EXCEPT !.ahead = n.pending]
  <2>1. /\ n.all = m.all /\ n.vanished = m.vanished /\ n.told = m.told
        /\ v.all = m.all /\ v.vanished = m.vanished /\ v.told = m.told
    BY <1>1 DEF Memory
  <2>2. /\ pc[w] = "scan"
        /\ Goto(w, "ack", n) \/ Leave(w) \/ Goto(w, "watch", v)
    BY <1>9 DEF WaitScan
  <2> HIDE DEF n, v
  <2> QED BY <1>5, <1>7, <2>1, <2>2
<1>10. CASE WaitWatch(w)
  <2>1. PICK d \in m.ahead, ok \in BOOLEAN :
            Goto(w, IF m.ahead = {d} THEN "block" ELSE "watch",
                 [m EXCEPT !.ahead = @ \ {d}, !.watched = IF ok THEN @ \cup {d} ELSE @])
    BY <1>10 DEF WaitWatch
  <2> DEFINE l == IF m.ahead = {d} THEN "block" ELSE "watch"
             n == [m EXCEPT !.ahead = @ \ {d}, !.watched = IF ok THEN @ \cup {d} ELSE @]
  <2>2. n.all = m.all /\ n.vanished = m.vanished /\ n.told = m.told
    BY <1>1 DEF Memory
  <2>3. Goto(w, l, n) /\ l \in {"watch", "block"} /\ pc[w] = "watch"
    BY <1>10, <2>1 DEF WaitWatch
  <2> HIDE DEF n, l
  <2> QED BY <1>7, <2>2, <2>3
<1>11. CASE WaitPoll(w)
  <2> DEFINE n == [m EXCEPT !.got = @ \cup Matching(m)]
             l == IF Satisfied(n) THEN "ack" ELSE "block"
  <2>1. n.all = m.all /\ n.vanished = m.vanished /\ n.told = m.told
    BY <1>1 DEF Memory
  <2>2. Goto(w, l, n) /\ l \in {"ack", "block"} /\ pc[w] = "block"
    BY <1>11 DEF WaitPoll
  <2> HIDE DEF n, l
  <2> QED BY <1>7, <2>1, <2>2
<1>12. CASE WaitHint(w)
  <2> DEFINE late == Matching(m) \ m.got
             n == [m EXCEPT !.got = @ \cup late, !.vanished = None]
  <2>1. n.all = m.all /\ n.vanished = None /\ n.got = m.got \cup late
    BY <1>1 DEF Memory
  <2>2. late # {} => Satisfied(n)
    BY <1>1, <2>1 DEF Satisfied, Mourns
  <2>3. pc[w] = "hint" /\ (Goto(w, "confirm", m) \/ Goto(w, "ack", n))
    BY <1>12, <2>2 DEF WaitHint
  <2> HIDE DEF n
  <2>4. Mourns("ack", n)
    BY <1>1, <2>1 DEF Mourns
  <2> QED BY <1>2, <1>3, <1>7, <2>3, <2>4
<1>13. ~WaitSpurious(w)
  BY <1>1 DEF WaitSpurious, Mourns
<1>14. CASE WaitAck(w) \/ WaitKeeps(w)
  <2>1. Goto(w, "emit", m)
    BY <1>14 DEF WaitAck, WaitKeeps
  <2> QED BY <1>7, <2>1
<1>15. CASE NudgeLook(w) \/ NudgeSave(w)
  <2>1. PICK d : Goto(w, pc[w], [m EXCEPT !.nudge = d])
    BY <1>15 DEF NudgeLook, NudgeSave
  <2> DEFINE n == [m EXCEPT !.nudge = d]
  <2>2. /\ n.all = m.all /\ n.vanished = m.vanished /\ n.told = m.told
        /\ n.watched = m.watched
    BY <1>1 DEF Memory
  <2>3. Goto(w, pc[w], n)
    BY <2>1
  <2> HIDE DEF n
  <2> QED BY <1>1, <1>7, <2>2, <2>3 DEF Mourns
<1>16. WaitTimeout(w) \/ WaitVanished(w) \/ WaitReturn(w) \/ CrashWait(w) => Leave(w)
  BY DEF WaitTimeout, WaitVanished, WaitReturn, CrashWait
<1> QED BY <1>5, <1>6, <1>8, <1>9, <1>10, <1>11, <1>12, <1>13, <1>14, <1>15, <1>16 DEF WaitStep

LEMMA EventMourns ==
    ASSUME "herdr" \notin Faults, TypeOK, MournInv, NEW d \in Dispatches, PaneEvent(d)
    PROVE  MournInv'
<1>1. pane'[d] = "gone" /\ \A e \in Dispatches \ {d} : pane'[e] = pane[e]
  BY DEF PaneEvent, TypeOK
<1>2. ASSUME NEW w \in Waits PROVE Mourns(pc[w], mem[w])'
  <2>1. mem[w] \in Memory /\ Mourns(pc[w], mem[w])
    BY DEF TypeOK, MournInv
  <2>2. mem[w].vanished # None => pane'[mem[w].vanished] = "gone"
    BY <1>1, <2>1 DEF Mourns, Memory
  <2>3. CASE d \notin mem[w].watched
    BY <2>1, <2>2, <2>3 DEF PaneEvent, Mourns
  <2>4. CASE d \in mem[w].watched
    <3>1. /\ mem'[w].all = mem[w].all /\ mem'[w].watched = mem[w].watched
          /\ mem'[w].vanished = IF mem[w].vanished = None THEN d ELSE mem[w].vanished
          /\ pc[w] = "watch" => mem'[w].told = mem[w].told
          /\ pc'[w] = IF pc[w] = "block" THEN "hint" ELSE pc[w]
      BY <2>1, <2>4 DEF PaneEvent, Memory
    <3>2. d # None
      BY NoneIsNoDispatch
    <3> QED BY <1>1, <2>1, <2>2, <2>4, <3>1, <3>2 DEF Mourns
  <2> QED BY <2>3, <2>4
<1> QED BY <1>2 DEF MournInv

\* A wait without --all that learns from a Herdr that does not err, while it is listening, that
\* a worker's pane died, returns what it has or ends as vanished: it never runs into its
\* deadline, with any number of workers, panes and waits.
THEOREM DeathIsHeard ==
    ASSUME "herdr" \notin Faults, "wait_all" \notin Commands
    PROVE  Spec => DeathEndsWait
<1>1. Init => MournInv
  BY DEF Init, MournInv, Mourns, NoMemory
<1>2. InboxInv /\ MournInv /\ [Next]_vars => MournInv'
  <2> SUFFICES ASSUME InboxInv, MournInv, [Next]_vars PROVE MournInv'
    OBVIOUS
  <2>1. TypeOK
    BY DEF InboxInv
  <2>2. ASSUME UNCHANGED <<pane, pc, mem>> PROVE MournInv'
    BY <2>2 DEF MournInv, Mourns
  <2>3. ASSUME NEW d \in Dispatches, Claim(d) \/ WorkerStep(d) \/ CrashWorker(d)
        PROVE  UNCHANGED <<pane, pc, mem>>
    BY <2>3 DEF Claim, WorkerStep, FileMessage, FileRejected, Settle, Notify, Push, CrashWorker
  <2>4. ASSUME NEW w \in Waits, ReportAck(w) PROVE UNCHANGED <<pane, pc, mem>>
    BY <2>4 DEF ReportAck
  <2>5. CASE UNCHANGED vars
    BY <2>2, <2>5 DEF vars
  <2> QED BY <2>1, <2>2, <2>3, <2>4, <2>5, WaitMourns, EventMourns DEF Next
<1>3. MournInv /\ [Next]_vars =>
          [\A w \in Waits : WaitTimeout(w) =>
              \A d \in Outstanding(mem[w]) \cap mem[w].told : pane[d] = "alive"]_vars
  BY DEF MournInv, Mourns, WaitTimeout
<1> QED BY <1>1, <1>2, <1>3, InboxInvariant, PTL DEF Spec, DeathEndsWait

=============================================================================
