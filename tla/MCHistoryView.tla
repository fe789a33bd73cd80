---------------------------- MODULE MCHistoryView ----------------------------
(* HistoryClients for TLC: its constants are all bounds.                        *)
EXTENDS HistoryClients
=============================================================================
