------------------------------- MODULE MCMail -------------------------------
(* Instances of Mail for TLC.                                              *)
EXTENDS Mail, TLC

\* Each worker has one process.
OwnReader == CHOOSE f \in [Readers -> Dispatches] :
                 \A r1, r2 \in Readers : f[r1] = f[r2] => r1 = r2
=============================================================================
