----------------------------- MODULE Authority -----------------------------
(***************************************************************************)
(* What cbds promises about completion authority, with no processes, files *)
(* or panes: a task has at most one attempt that may complete it, an       *)
(* attempt gets the authority once and loses it for good, and only the     *)
(* attempt that holds it can settle, once, with the outcome it reports.    *)
(***************************************************************************)
CONSTANTS Tasks, Dispatches, Outcomes

VARIABLES
    holder,     \* holder[t]: the attempts that may complete t (at most one)
    fate        \* fate[d]: "unborn", "live", "ended", or the outcome d settled with

avars == <<holder, fate>>

Init ==
    /\ holder = [t \in Tasks |-> {}]
    /\ fate = [d \in Dispatches |-> "unborn"]

\* dispatch start: the task has no holder, the attempt is new.
Grant(t, d) ==
    /\ holder[t] = {} /\ fate[d] = "unborn"
    /\ holder' = [holder EXCEPT ![t] = {d}]
    /\ fate' = [fate EXCEPT ![d] = "live"]

\* A retry, a cancellation, a failed launch, or a worker found dead.
Revoke(t, d) ==
    /\ d \in holder[t]
    /\ holder' = [holder EXCEPT ![t] = {}]
    /\ fate' = [fate EXCEPT ![d] = "ended"]

\* An accepted report.
Settle(t, d) ==
    /\ d \in holder[t]
    /\ holder' = [holder EXCEPT ![t] = {}]
    /\ \E o \in Outcomes : fate' = [fate EXCEPT ![d] = o]

Next == \E t \in Tasks, d \in Dispatches : Grant(t, d) \/ Revoke(t, d) \/ Settle(t, d)

Spec == Init /\ [][Next]_avars

=============================================================================
