---------------------------- MODULE MCClientHelpers ----------------------------
(* ClientHelpers for TLC: its constants are model values and bounds.            *)
EXTENDS ClientHelpers
=============================================================================
