---------------------------- MODULE MCSyncService ----------------------------
(* SyncService for TLC: a text, and an image that is encoded anew when it is *)
(* read back.                                                                *)
EXTENDS SyncService, TLC

CONSTANTS text, png, encoded

MCLook == [c \in Contents \cup {Nothing} |-> IF c = encoded THEN png ELSE c]
MCReadsAs == [c \in Contents \cup {Nothing} |-> IF c = png THEN encoded ELSE c]

\* bound: what goes wrong in one behaviour; that the client has lost track of its writes
\* counts as well
FewTroubles == late + faults + drops + changes + (IF confused THEN 1 ELSE 0) <= 2

\* Copies are sent: if the settings put sending off, which they never change in this run,
\* Settles asks for nothing.
LiveInit == Init /\ settings.sending = "all"
LiveSpec == LiveInit /\ [][Next]_vars /\ Fairness
=============================================================================
