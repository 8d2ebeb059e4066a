-------------------------- MODULE StoreLock_proofs --------------------------
(***************************************************************************)
(* What the run lock guarantees, for any number of processes and claims,   *)
(* as long as no holder of it crashes or sleeps for 30 s, whatever happens *)
(* to the processes that wait for it.                                      *)
(***************************************************************************)
EXTENDS StoreLock, TLAPS

\* Nothing makes a lock old, so nobody breaks one.
Unbroken == ~dir.old /\ \A p \in Procs : pc[p] # "break"

\* The directory is there exactly as long as a process holds it, and one process does.
Held ==
    /\ \A p \in Procs : pc[p] \in Holders => dir.there
    /\ dir.there => \E p \in Procs : pc[p] \in Holders
Alone == \A p, q \in Procs : pc[p] \in Holders /\ pc[q] \in Holders => p = q

\* The counter is the largest number issued, also while the next one is being written.
Counted ==
    /\ \A k \in issued : k <= counter.value
    /\ \A p \in Procs : pc[p] \in {"truncate", "write"} => num[p] = counter.value + 1
    /\ counter.torn => \E p \in Procs : pc[p] = "write"

\* What holds while nothing has disturbed the lock, and with it the inductive invariant.
LockInv == TypeOK /\ Unbroken /\ Held /\ Alone /\ Counted
Undisturbed == ~disturbed => LockInv

-----------------------------------------------------------------------------
LEMMA InitLock == Init => LockInv
<1> SUFFICES ASSUME Init PROVE LockInv
  OBVIOUS
<1>1. disturbed \in BOOLEAN
  BY DEF Init
<1>2. TypeOK
  BY <1>1, OwnersDiffer DEF Init, TypeOK, NoDir, PCs
<1> QED BY <1>2 DEF Init, LockInv, Unbroken, Held, Alone, Counted, NoDir, Holders, Inside

\* A step of p that only moves it, outside the critical section or inside it.
LEMMA MoveLock ==
    ASSUME LockInv, NEW p \in Procs, NEW from \in PCs, NEW to \in PCs, Move(p, from, to),
           to \in Holders <=> from \in Holders, to # "break",
           from # "write", to \notin {"truncate", "write"},
           TypeOK', UNCHANGED <<dir, counter, issued, num>>
    PROVE  LockInv'
<1> USE DEF LockInv, TypeOK, Move
<1>1. \A q \in Procs : q # p => pc'[q] = pc[q]
  OBVIOUS
<1>2. pc[p] = from /\ pc'[p] = to
  OBVIOUS
<1>3. Unbroken' /\ Held' /\ Alone'
  BY <1>1, <1>2 DEF Unbroken, Held, Alone
<1>4. Counted'
  BY <1>1, <1>2 DEF Counted
<1> QED BY <1>3, <1>4

LEMMA BeginLock == ASSUME LockInv, NEW p \in Procs, Begin(p) PROVE LockInv'
<1>1. TypeOK'
  BY DEF LockInv, TypeOK, Begin, Move, PCs
<1> QED BY <1>1, MoveLock DEF Begin, Holders, Inside, PCs

LEMMA MakeDirLock == ASSUME LockInv, NEW p \in Procs, MakeDir(p) PROVE LockInv'
<1> USE DEF LockInv, Move, MakeDir
<1>1. dir' = [there |-> TRUE, owner |-> None, old |-> FALSE]
  BY DEF NewDir
<1>2. TypeOK'
  BY <1>1 DEF TypeOK, PCs
<1>3. \A q \in Procs : pc[q] \notin Holders
  BY DEF Held
<1>4. \A q \in Procs : pc'[q] = IF q = p THEN "owner" ELSE pc[q]
  BY DEF TypeOK
<1>5. Unbroken' /\ Held' /\ Alone'
  BY <1>1, <1>3, <1>4 DEF Unbroken, Held, Alone, Holders
<1>6. Counted'
  BY <1>3, <1>4 DEF Counted, Holders, Inside
<1> QED BY <1>2, <1>5, <1>6

LEMMA WriteOwnerLock == ASSUME LockInv, NEW p \in Procs, WriteOwner(p) PROVE LockInv'
<1> USE DEF LockInv, TypeOK, Move
<1>1. dir.there /\ pc[p] = "owner"
  BY DEF WriteOwner, Held, Holders
<1>2. /\ dir' = [dir EXCEPT !.owner = p, !.old = dir.old /\ dir.owner # None]
      /\ pc' = [pc EXCEPT ![p] = "cs"] /\ UNCHANGED <<counter, issued, use, seen, num, disturbed>>
  BY <1>1 DEF WriteOwner
<1>3. dir'.there /\ ~dir'.old
  BY <1>1, <1>2 DEF Unbroken
<1>4. TypeOK'
  BY <1>2 DEF PCs, Inside
<1>5. \A q \in Procs : pc'[q] = IF q = p THEN "cs" ELSE pc[q]
  BY <1>2
<1>6. Unbroken' /\ Held' /\ Alone'
  BY <1>1, <1>3, <1>5 DEF Unbroken, Held, Alone, Holders, Inside
<1>7. Counted'
  BY <1>1, <1>2, <1>5 DEF Counted
<1> QED BY <1>4, <1>6, <1>7

LEMMA WaitLock ==
    ASSUME LockInv, NEW p \in Procs, MakeDirFails(p) \/ ReadOwner(p) \/ Judge(p)
    PROVE  LockInv'
<1>1. TypeOK'
  BY DEF LockInv, TypeOK, MakeDirFails, ReadOwner, Judge, Move, PCs
<1>2. ~MayBreak(p)
  BY DEF LockInv, Unbroken, MayBreak
<1>3. CASE MakeDirFails(p)
  BY <1>1, <1>3, MoveLock DEF MakeDirFails, Holders, Inside, PCs
<1>4. CASE ReadOwner(p)
  BY <1>1, <1>4, MoveLock DEF ReadOwner, Holders, Inside, PCs
<1>5. CASE Judge(p)
  BY <1>1, <1>2, <1>5, MoveLock DEF Judge, Holders, Inside, PCs
<1> QED BY <1>3, <1>4, <1>5

LEMMA CheckLock == ASSUME LockInv, NEW p \in Procs, Check(p) PROVE LockInv'
<1>1. TypeOK'
  BY DEF LockInv, TypeOK, Check, Move, PCs, Inside
<1> QED BY <1>1, MoveLock DEF Check, Holders, Inside, PCs

LEMMA ReadCounterLock == ASSUME LockInv, NEW p \in Procs, ReadCounter(p) PROVE LockInv'
<1> USE DEF LockInv, TypeOK, Move, ReadCounter
<1>1. \A q \in Procs : pc[q] \in Holders => q = p
  BY DEF Alone, Holders, Inside
<1>2. ~counter.torn
  BY <1>1 DEF Counted, Holders, Inside
<1>3. /\ pc' = [pc EXCEPT ![p] = "truncate"] /\ num' = [num EXCEPT ![p] = counter.value + 1]
      /\ UNCHANGED <<dir, counter, issued, use, seen>>
  BY <1>2
<1>4. TypeOK'
  BY <1>3 DEF PCs, Inside
<1>5. Unbroken' /\ Held' /\ Alone'
  BY <1>1, <1>3 DEF Unbroken, Held, Alone, Holders, Inside
<1>6. Counted'
  BY <1>1, <1>2, <1>3 DEF Counted, Holders, Inside
<1> QED BY <1>4, <1>5, <1>6

LEMMA TruncateLock == ASSUME LockInv, NEW p \in Procs, Truncate(p) PROVE LockInv'
<1> USE DEF LockInv, TypeOK, Move, Truncate
<1>1. TypeOK' /\ counter'.value = counter.value
  BY DEF PCs, Inside
<1>2. \A q \in Procs : pc'[q] = IF q = p THEN "write" ELSE pc[q]
  OBVIOUS
<1>3. Unbroken' /\ Held' /\ Alone'
  BY <1>2 DEF Unbroken, Held, Alone, Holders, Inside
<1>4. Counted'
  BY <1>1, <1>2 DEF Counted
<1> QED BY <1>1, <1>3, <1>4

LEMMA WriteCounterLock == ASSUME LockInv, NEW p \in Procs, WriteCounter(p) PROVE LockInv'
<1> USE DEF LockInv, TypeOK, Move, WriteCounter
<1>1. \A q \in Procs : pc[q] \in Holders => q = p
  BY DEF Alone, Holders, Inside
<1>0. num[p] = counter.value + 1
  BY DEF Counted
<1>2. TypeOK' /\ counter'.value = counter.value + 1 /\ ~counter'.torn
  <2>1. counter' = [value |-> counter.value + 1, torn |-> FALSE]
    BY <1>0
  <2>2. issued' = issued \cup {counter.value + 1}
    BY <1>0
  <2>3. counter.value + 1 \in Nat
    OBVIOUS
  <2>4. counter' \in [value : Nat, torn : BOOLEAN]
    <3> HIDE DEF LockInv, TypeOK, Move, WriteCounter
    <3> QED BY <2>1, <2>3
  <2>5. issued' \in SUBSET Nat
    BY <2>2, <2>3
  <2>6. TypeOK'
    BY <2>4, <2>5 DEF PCs, Inside
  <2> QED BY <2>1, <2>6
<1>3. \A q \in Procs : pc'[q] = IF q = p THEN "leave" ELSE pc[q]
  OBVIOUS
<1>4. Unbroken' /\ Held' /\ Alone'
  BY <1>1, <1>3 DEF Unbroken, Held, Alone, Holders, Inside
<1>5. issued' = issued \cup {counter.value + 1}
  BY DEF Counted
<1>6. Counted'
  BY <1>1, <1>2, <1>3, <1>5 DEF Counted, Holders, Inside
<1> QED BY <1>2, <1>4, <1>6

LEMMA ReleaseLock == ASSUME LockInv, NEW p \in Procs, Release(p) PROVE LockInv'
<1> USE DEF LockInv, TypeOK, Move, Release, NoDir
<1>1. \A q \in Procs : pc[q] \in Holders => q = p
  BY DEF Alone, Holders, Inside
<1>2. TypeOK'
  BY DEF PCs
<1>3. \A q \in Procs : pc'[q] = IF q = p THEN "idle" ELSE pc[q]
  OBVIOUS
<1>4. Unbroken' /\ Held' /\ Alone'
  BY <1>1, <1>3 DEF Unbroken, Held, Alone, Holders, Inside
<1>5. Counted'
  BY <1>1, <1>3 DEF Counted, Holders, Inside
<1> QED BY <1>2, <1>4, <1>5

\* A process that crashes without the lock leaves it as it is; only its pid may stand in it.
LEMMA CrashLock ==
    ASSUME LockInv, NEW p \in Procs, Crash(p), ~disturbed' PROVE LockInv'
<1> USE DEF LockInv, TypeOK
<1>1. pc[p] \notin Holders /\ disturbed' \in BOOLEAN
  BY DEF Crash
<1>2. \A q \in Procs : pc'[q] = IF q = p THEN "idle" ELSE pc[q]
  BY DEF Crash
<1>3. /\ dir' = [dir EXCEPT !.owner = IF dir.owner = p THEN Dead ELSE dir.owner]
      /\ UNCHANGED <<counter, issued, num>>
  BY DEF Crash
<1>4. dir'.there = dir.there /\ dir'.old = dir.old
  BY <1>3
<1>5. TypeOK'
  BY <1>1, <1>3 DEF Crash, PCs
<1>6. Unbroken' /\ Held' /\ Alone'
  BY <1>1, <1>2, <1>4 DEF Unbroken, Held, Alone, Holders, Inside
<1>7. Counted'
  BY <1>1, <1>2, <1>3 DEF Counted, Holders, Inside
<1> QED BY <1>5, <1>6, <1>7

\* What is left of Next needs an old lock, or makes a held one old.
LEMMA NextLock == Undisturbed /\ [Next]_vars => Undisturbed'
<1> SUFFICES ASSUME Undisturbed, [Next]_vars, ~disturbed' PROVE LockInv'
  BY DEF Undisturbed
<1>0. ~disturbed /\ LockInv
  <2>1. CASE Age \/ \E p \in Procs : Crash(p)
    BY <2>1 DEF Undisturbed, Age, Crash
  <2>2. CASE UNCHANGED vars \/ \E p \in Procs : Begin(p) \/ Step(p) \/ Doctor(p)
    <3>1. UNCHANGED disturbed
      BY <2>2 DEF vars, Begin, Step, Doctor, Move, MakeDir, WriteOwner, MakeDirFails, ReadOwner,
         Judge, Break, Check, ReadCounter, Truncate, WriteCounter, Release
    <3> QED BY <3>1 DEF Undisturbed
  <2> QED BY <2>1, <2>2 DEF Next
<1>1. ASSUME NEW p \in Procs, Begin(p) PROVE LockInv'
  BY <1>0, <1>1, BeginLock
<1>2. ASSUME NEW p \in Procs, Step(p) PROVE LockInv'
  <2>1. ~Break(p)
    BY <1>0 DEF LockInv, Unbroken, Break, Move
  <2> QED BY <1>0, <1>2, <2>1, MakeDirLock, WriteOwnerLock, WaitLock, CheckLock,
             ReadCounterLock, TruncateLock, WriteCounterLock, ReleaseLock DEF Step
<1>3. ASSUME NEW p \in Procs, Doctor(p) PROVE LockInv'
  BY <1>0, <1>3 DEF Doctor, LockInv, Unbroken
<1>4. ASSUME NEW p \in Procs, Crash(p) PROVE LockInv'
  BY <1>0, <1>4, CrashLock
<1>5. CASE Age
  BY <1>0, <1>5 DEF Age, LockInv, Held
<1>6. CASE UNCHANGED vars
  BY <1>0, <1>6 DEF vars, LockInv, TypeOK, Unbroken, Held, Alone, Counted
<1> QED BY <1>1, <1>2, <1>3, <1>4, <1>5, <1>6 DEF Next

-----------------------------------------------------------------------------
LEMMA NextLockTyped == TypeOK /\ [Next]_vars => TypeOK'
<1> SUFFICES ASSUME TypeOK, [Next]_vars PROVE TypeOK'
  OBVIOUS
<1> USE DEF TypeOK, Move, PCs, Inside
<1>1. NoDir.owner = None /\ NewDir.owner = None /\ {NoDir, NewDir} \subseteq
          [there : BOOLEAN, owner : Procs \cup {None, Dead}, old : BOOLEAN]
  BY DEF NoDir, NewDir
<1>2. ASSUME NEW p \in Procs, Begin(p) \/ Doctor(p) PROVE TypeOK'
  BY <1>2 DEF Begin, Doctor
<1>3. ASSUME NEW p \in Procs, Crash(p) PROVE TypeOK'
  <2>1. disturbed' \in BOOLEAN
    BY <1>3 DEF Crash
  <2>2. dir' \in [there : BOOLEAN, owner : Procs \cup {None, Dead}, old : BOOLEAN]
    BY <1>3 DEF Crash
  <2>3. seen' \in [Procs -> Procs \cup {None, Dead}] /\ pc' \in [Procs -> PCs]
    BY <1>3 DEF Crash
  <2> QED BY <1>3, <2>1, <2>2, <2>3 DEF Crash
<1>4. ASSUME NEW p \in Procs, Step(p) PROVE TypeOK'
  <2>1. CASE MakeDir(p) \/ Break(p) \/ Release(p)
    BY <1>1, <2>1 DEF MakeDir, Break, Release
  <2>2. CASE WriteOwner(p)
    BY <2>2 DEF WriteOwner
  <2>3. CASE MakeDirFails(p) \/ ReadOwner(p) \/ Judge(p) \/ Check(p)
    BY <2>3 DEF MakeDirFails, ReadOwner, Judge, Check
  <2>4. CASE ReadCounter(p)
    BY <2>4 DEF ReadCounter
  <2>5. CASE Truncate(p)
    BY <2>5 DEF Truncate
  <2>6. CASE WriteCounter(p)
    <3>1. num[p] \in Nat
      OBVIOUS
    <3>2. counter' \in [value : Nat, torn : BOOLEAN]
      <4> HIDE DEF TypeOK
      <4> QED BY <2>6, <3>1 DEF WriteCounter
    <3>3. issued' \in SUBSET Nat
      BY <2>6, <3>1 DEF WriteCounter
    <3> QED BY <2>6, <3>2, <3>3 DEF WriteCounter
  <2> QED BY <1>4, <2>1, <2>2, <2>3, <2>4, <2>5, <2>6 DEF Step
<1>5. CASE Age
  <2>1. disturbed' \in BOOLEAN
    BY <1>5 DEF Age
  <2> QED BY <1>5, <2>1 DEF Age
<1>6. CASE UNCHANGED vars
  BY <1>6 DEF vars
<1> QED BY <1>2, <1>3, <1>4, <1>5, <1>6 DEF Next

\* The directory names a process, a dead one or none, and the counter stays a number, torn or
\* not: whoever crashes, sleeps, or breaks a lock that is not his.
THEOREM LockTyped == Spec => []TypeOK
<1>1. Init => TypeOK
  BY InitLock DEF LockInv
<1> QED BY <1>1, NextLockTyped, PTL DEF Spec

\* As long as no holder has crashed or slept, the directory is there exactly while one process
\* holds it, nobody breaks it, and the counter is the last number issued.
THEOREM LockInvariant == Spec => []Undisturbed
<1>1. Init => Undisturbed
  BY InitLock DEF Undisturbed
<1> QED BY <1>1, NextLock, PTL DEF Spec

\* At most one process is in a critical section of withLock, however many compete for it.
THEOREM Exclusion == Spec => []MutualExclusion
<1>1. Undisturbed => MutualExclusion
  BY DEF Undisturbed, LockInv, Alone, MutualExclusion, Holders
<1> QED BY <1>1, LockInvariant, PTL

\* Every number that claimSeq hands out is larger than all numbers it handed out before.
THEOREM FreshNumbers == Spec => NumbersAreFresh
<1>1. Undisturbed /\ [Next]_vars =>
          [\A p \in Procs : WriteCounter(p) /\ ~disturbed => \A k \in issued : k < num[p]]_vars
  BY DEF Undisturbed, LockInv, TypeOK, Counted, WriteCounter, Move
<1> QED BY <1>1, LockInvariant, PTL DEF Spec, NumbersAreFresh

=============================================================================
