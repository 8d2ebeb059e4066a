------------------------------- MODULE MCPanes -------------------------------
(* Instances of Panes for TLC.                                             *)
EXTENDS Panes

\* What no action and no property can look at any more does not tell states apart:
\* the retained mark of a released dispatch, which is never released again;
MCDisp == [d \in Dispatches |->
              IF disp[d].released THEN [disp[d] EXCEPT !.retained = FALSE] ELSE disp[d]]
\* messages of a dispatch that is not live and that no launch will make so;
MCSaid == {d \in said : disp[d].state = "dispatched" \/ ~LaunchAt(d, "idle")}
\* workers whose pane is gone or has no identity for them.
MCStaffed == {q \in staffed : Open(q) /\ maker[q] # NoOne}
MCView == <<MCDisp, MCSaid, saved, pane, maker, MCStaffed, launch, clean>>
=============================================================================
