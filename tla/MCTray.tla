------------------------------- MODULE MCTray -------------------------------
(* Tray on a small instance, for TLC: no setting is on at the start.       *)
EXTENDS Tray

MCInit == TrayInit /\ actual = [s \in Settings |-> FALSE]
MCSpec == MCInit /\ [][TrayNext]_allVars /\ Scheduled
=============================================================================
