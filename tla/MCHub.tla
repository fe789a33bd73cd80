------------------------------- MODULE MCHub --------------------------------
(* Small instances of Hub for TLC: two connections of a laptop, one of a     *)
(* desktop.                                                                  *)
EXTENDS Hub, TLC

CONSTANTS laptop, desktop, laptop1, laptop2, desktop1, k

MCDevice == (laptop1 :> laptop) @@ (laptop2 :> laptop) @@ (desktop1 :> desktop)

\* What either sends is meant for the laptop: the desktop is a sender that is no
\* target, and the laptop may be both.
MCTargets == {{laptop}}

\* Nothing is refused, or what the desktop sends.
MCPolicies == {{}, {desktop}}

\* The two connections of the laptop are alike.
MCSymmetry == Permutations({laptop1, laptop2})
=============================================================================
