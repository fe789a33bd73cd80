----------------------------- MODULE HistoryLog -----------------------------
(***************************************************************************)
(* What the hub's history promises to whoever reads it, whatever happens   *)
(* to the disk and to the process: it is a window onto a log.  Records     *)
(* enter at the newest end, one at a time and never two for one            *)
(* submission; they leave from the oldest end only.                        *)
(***************************************************************************)
EXTENDS Naturals

CONSTANTS Records,         \* every record that can be stored
          NoIdentity       \* the identity of a record sent without a clientEventId

VARIABLE history           \* the records a reader may see

Init == history = {}

\* S itself, or what is left when some of its oldest records leave.
Newest(S) == {T \in SUBSET S : \A r \in T, s \in S \ T : s.sequence < r.sequence}

\* A record enters; the limits of the history may push older ones out.
Enter(r) ==
    /\ \A h \in history :
          /\ h.sequence < r.sequence
          /\ h.identity = NoIdentity \/ h.identity # r.identity
    /\ history' \in Newest(history \cup {r})

\* Age, a limit or a clear takes the oldest records away.
Leave == history' \in Newest(history)

Next == Leave \/ \E r \in (history' \ history) \cap Records : Enter(r)

Spec == Init /\ [][Next]_history
=============================================================================
