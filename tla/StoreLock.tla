------------------------------ MODULE StoreLock ------------------------------
(***************************************************************************)
(* The run lock of cbds (a directory, made by mkdir) and the sequence      *)
(* counter claimed under it.  A process is a cbds command that needs the   *)
(* lock: to claim a number ("claim"), or to read or write something else   *)
(* ("check": the verdict of done, the ack cursor).  `doctor --break-locks` *)
(* is a process that only removes the directory.                           *)
(*                                                                         *)
(* Every step is one call into the file system, so everything the lock     *)
(* does not exclude interleaves.                                           *)
(***************************************************************************)
EXTENDS Naturals

CONSTANTS
    Procs,      \* the cbds processes that may run at the same time (bound)
    None,       \* no owner.json, or one that cannot be read
    Dead,       \* the pid of a process that has crashed
    MaxSeq,     \* bound on the counter
    Faults      \* "crash"; "pause": a live holder sleeps 30 s; "doctor": --break-locks

ASSUME OwnersDiffer == None \notin Procs /\ Dead \notin Procs /\ None # Dead
ASSUME MaxSeqIsNat == MaxSeq \in Nat

VARIABLES
    dir,        \* seq.lock/: is it there, who owner.json names, is its mtime 30 s old
    counter,    \* .seq: the last number written, and whether it was torn by a crash
    issued,     \* the numbers handed out so far
    pc, use,    \* where each process is, and what it wants the lock for
    seen,       \* the owner it read in the lock it found
    num,        \* the number it is about to claim
    disturbed   \* history: a holder of the lock has crashed, or slept with it for 30 s

vars == <<dir, counter, issued, pc, use, seen, num, disturbed>>

NoDir == [there |-> FALSE, owner |-> None, old |-> FALSE]
NewDir == [there |-> TRUE, owner |-> None, old |-> FALSE]

\* The labels at which a process believes it has the lock.
Inside == {"cs", "truncate", "write", "leave"}
\* From mkdir to release: the processes that have made the directory, or believe so.
Holders == Inside \cup {"owner"}
PCs == Inside \cup {"idle", "mkdir", "owner", "read_owner", "judge", "break"}

Init ==
    /\ dir = NoDir /\ counter = [value |-> 0, torn |-> FALSE] /\ issued = {}
    /\ pc = [p \in Procs |-> "idle"] /\ use = [p \in Procs |-> "check"]
    /\ seen = [p \in Procs |-> None] /\ num = [p \in Procs |-> 0]
    /\ disturbed = FALSE

Move(p, from, to) == pc[p] = from /\ pc' = [pc EXCEPT ![p] = to] /\ UNCHANGED disturbed

-----------------------------------------------------------------------------
(* Lock.acquire                                                            *)

Begin(p) ==
    /\ Move(p, "idle", "mkdir")
    /\ \E kind \in {"claim", "check"} :
          /\ kind = "claim" => counter.value < MaxSeq
          /\ use' = [use EXCEPT ![p] = kind]
    /\ UNCHANGED <<dir, counter, issued, seen, num>>

\* Mutant: a directory that exists is taken for one's own.
MakeDir_Exists(p) ==
    /\ Move(p, "mkdir", "owner")
    /\ dir' = NewDir
    /\ UNCHANGED <<counter, issued, use, seen, num>>

MakeDir(p) ==
    /\ ~dir.there /\ Move(p, "mkdir", "owner")
    /\ dir' = NewDir
    /\ UNCHANGED <<counter, issued, use, seen, num>>

\* The directory may have been removed meanwhile; then the write fails, and the command.
\* A new file renews the directory's mtime, an overwritten one does not.
WriteOwner(p) ==
    /\ \/ /\ dir.there /\ Move(p, "owner", "cs")
          /\ dir' = [dir EXCEPT !.owner = p, !.old = @ /\ dir.owner # None]
       \/ /\ ~dir.there /\ Move(p, "owner", "idle")
          /\ UNCHANGED dir
    /\ UNCHANGED <<counter, issued, use, seen, num>>

MakeDirFails(p) ==
    /\ dir.there /\ Move(p, "mkdir", "read_owner")
    /\ UNCHANGED <<dir, counter, issued, use, seen, num>>

ReadOwner(p) ==
    /\ Move(p, "read_owner", "judge")
    /\ seen' = [seen EXCEPT ![p] = dir.owner]
    /\ UNCHANGED <<dir, counter, issued, use, num>>

\* Mutant: a lock is never old enough to be broken.
MayBreak_Never(p) == FALSE
\* The owner that was read is not alive, and the directory that is there now is old.
MayBreak(p) == dir.there /\ seen[p] \notin Procs /\ dir.old

\* Otherwise the process tries again, or gives up with lock_timeout after 10 s.
Judge(p) ==
    /\ \/ MayBreak(p) /\ Move(p, "judge", "break")
       \/ ~MayBreak(p) /\ (Move(p, "judge", "mkdir") \/ Move(p, "judge", "idle"))
    /\ UNCHANGED <<dir, counter, issued, use, seen, num>>

\* rmSync removes whatever directory is there by now.
Break(p) ==
    /\ Move(p, "break", IF use[p] = "doctor" THEN "idle" ELSE "mkdir")
    /\ dir' = NoDir
    /\ UNCHANGED <<counter, issued, use, seen, num>>

\* doctor looks at the age only.
Doctor(p) ==
    /\ "doctor" \in Faults /\ dir.there /\ dir.old
    /\ Move(p, "idle", "break")
    /\ use' = [use EXCEPT ![p] = "doctor"]
    /\ UNCHANGED <<dir, counter, issued, seen, num>>

-----------------------------------------------------------------------------
(* The critical sections, and Lock.release                                 *)

Check(p) ==
    /\ use[p] = "check" /\ Move(p, "cs", "leave")
    /\ UNCHANGED <<dir, counter, issued, use, seen, num>>

\* Mutants: the number is not incremented; a torn counter is not a number.
ReadCounter_Same(p) ==
    /\ use[p] = "claim" /\ Move(p, "cs", "truncate")
    /\ num' = [num EXCEPT ![p] = IF counter.torn THEN 1 ELSE counter.value]
    /\ UNCHANGED <<dir, counter, issued, use, seen>>
ReadCounter_NaN(p) ==
    /\ use[p] = "claim" /\ Move(p, "cs", "truncate")
    /\ num' = [num EXCEPT ![p] = IF counter.torn THEN None ELSE counter.value + 1]
    /\ UNCHANGED <<dir, counter, issued, use, seen>>

\* claimSeq: a counter that cannot be parsed counts as 0.
ReadCounter(p) ==
    /\ use[p] = "claim" /\ Move(p, "cs", "truncate")
    /\ num' = [num EXCEPT ![p] = IF counter.torn THEN 1 ELSE counter.value + 1]
    /\ UNCHANGED <<dir, counter, issued, use, seen>>

\* writeFileSync empties the file, then writes it.
Truncate(p) ==
    /\ Move(p, "truncate", "write")
    /\ counter' = [counter EXCEPT !.torn = TRUE]
    /\ UNCHANGED <<dir, issued, use, seen, num>>

WriteCounter(p) ==
    /\ Move(p, "write", "leave")
    /\ counter' = [value |-> num[p], torn |-> FALSE]
    /\ issued' = issued \cup {num[p]}
    /\ UNCHANGED <<dir, use, seen, num>>

\* release removes the directory without looking at whose it is.
Release(p) ==
    /\ Move(p, "leave", "idle")
    /\ dir' = NoDir
    /\ UNCHANGED <<counter, issued, use, seen, num>>

-----------------------------------------------------------------------------
(* The environment                                                         *)

\* The pid of a process that crashed answers no signal, wherever it was written or read.
Crash(p) ==
    /\ "crash" \in Faults /\ pc[p] # "idle"
    /\ pc' = [pc EXCEPT ![p] = "idle"]
    /\ dir' = [dir EXCEPT !.owner = IF @ = p THEN Dead ELSE @]
    /\ seen' = [q \in Procs |-> IF seen[q] = p THEN Dead ELSE seen[q]]
    /\ disturbed' = (disturbed \/ pc[p] \in Holders)
    /\ UNCHANGED <<counter, issued, use, num>>

\* 30 s pass since the directory was made.  A live process is inside for milliseconds, unless
\* it is suspended.
Age ==
    /\ dir.there /\ ~dir.old
    /\ "pause" \in Faults \/ \A p \in Procs : pc[p] \notin Holders
    /\ dir' = [dir EXCEPT !.old = TRUE]
    /\ disturbed' = (disturbed \/ \E p \in Procs : pc[p] \in Holders)
    /\ UNCHANGED <<counter, issued, pc, use, seen, num>>

-----------------------------------------------------------------------------
\* What a running command does; it neither begins nor crashes by itself.
Step(p) ==
    \/ MakeDir(p) \/ WriteOwner(p) \/ MakeDirFails(p) \/ ReadOwner(p) \/ Judge(p) \/ Break(p)
    \/ Check(p) \/ ReadCounter(p) \/ Truncate(p) \/ WriteCounter(p) \/ Release(p)

Next == Age \/ \E p \in Procs : Begin(p) \/ Step(p) \/ Doctor(p) \/ Crash(p)

Spec == Init /\ [][Next]_vars

\* A running process keeps running, and time passes.
FairSpec == Spec /\ (\A p \in Procs : WF_vars(Step(p))) /\ WF_vars(Age)

-----------------------------------------------------------------------------
(* Properties                                                              *)

TypeOK ==
    /\ dir \in [there : BOOLEAN, owner : Procs \cup {None, Dead}, old : BOOLEAN]
    /\ counter \in [value : Nat, torn : BOOLEAN]
    /\ issued \in SUBSET Nat
    /\ pc \in [Procs -> PCs]
    /\ use \in [Procs -> {"claim", "check", "doctor"}]
    /\ seen \in [Procs -> Procs \cup {None, Dead}]
    /\ num \in [Procs -> Nat]
    /\ disturbed \in BOOLEAN

\* withLock: at most one process is in a critical section, as long as no holder of the lock
\* has crashed or slept; those that wait for it may, and doctor may look at it.
MutualExclusion ==
    ~disturbed => \A p, q \in Procs : pc[p] \in Inside /\ pc[q] \in Inside => p = q

\* claimSeq gives out every number once: no message's number, on which the scan order and
\* the ack cursor rest, is that of an earlier message.
NumbersAreFresh ==
    [][\A p \in Procs : WriteCounter(p) /\ ~disturbed => \A k \in issued : k < num[p]]_vars

\* A crashed holder does not block the run for ever: while a command that does not crash keeps
\* finding the lock taken, the lock keeps becoming free.  (A crash that looks like a step of its
\* own, giving up at the timeout say, is no crash.)
LockRecovers ==
    \A p \in Procs :
        []<>(pc[p] = "read_owner") /\ <>[][Crash(p) => Step(p)]_vars => []<>(~dir.there)

=============================================================================
