------------------------------ MODULE MCInbox ------------------------------
(* Instances of Inbox for TLC.                                             *)
EXTENDS Inbox, TLC

WholeRun == {Dispatches}
WakeTypes == {{"report", "question"}}
QuestionsToo == WakeTypes \cup {{"question"}}
MCSymmetry == Permutations(Dispatches) \cup Permutations(Waits)
=============================================================================
