------------------------------- MODULE MCTrust -------------------------------
(* Two commands and two directories: the least in which one command can    *)
(* undo another, and a later command can meet what an earlier one left.    *)
EXTENDS Trust
=============================================================================
