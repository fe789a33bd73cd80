--------------------------- MODULE MCEventStore -----------------------------
(* Small instances of EventStore for TLC. *)
EXTENDS EventStore

CONSTANTS a, x, y, z

\* A record of signature y takes two thirds of the byte budget, one of z more
\* than all of it.
MCSize == [s \in Signatures |-> CASE s = x -> 1 [] s = y -> 2 [] s = z -> MaxBytes + 1]
=============================================================================
