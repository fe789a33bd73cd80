---------------------------- MODULE MCSyncEngine ----------------------------
(* Small instances of SyncEngine for TLC: a text, a picture that is the same *)
(* as a JPEG and, once written, as a PNG, and one that is too large to send. *)
EXTENDS SyncEngine

CONSTANTS text, png, jpeg, large

MCReadsAs == [c \in Contents \cup {Nothing} |-> IF c = jpeg THEN png ELSE c]
=============================================================================
