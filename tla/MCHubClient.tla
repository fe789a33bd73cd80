----------------------------- MODULE MCHubClient -----------------------------
(* Instances of HubClient for TLC: two policies and one other device.        *)
EXTENDS HubClient, TLC

CONSTANTS first, second, strict, loose, mac

MCSymmetry == Permutations({first, second}) \cup Permutations({strict, loose})
=============================================================================
