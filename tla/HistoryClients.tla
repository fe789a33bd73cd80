---------------------------- MODULE HistoryClients ----------------------------
(***************************************************************************)
(* The hub's history with one client that shows it, which is the Electron   *)
(* client or the Mac application.                                           *)
(***************************************************************************)
EXTENDS HistoryView, MacHistory

VARIABLE client     \* which of the two it is

allVars == <<feedVars, viewVars, macVars, client>>

ClientsInit == Init /\ MacInit /\ client \in {"electron", "mac"}

ElectronStep(A) == client = "electron" /\ A /\ UNCHANGED <<macVars, client>>
MacStep(A) == client = "mac" /\ A /\ UNCHANGED <<viewVars, client>>

ClientsNext == ElectronStep(Next) \/ MacStep(MacNext)

\* What is underway arrives or fails, the timers fire and the client connects again.
ClientsSpec ==
    /\ ClientsInit /\ [][ClientsNext]_allVars
    /\ WF_allVars(ElectronStep(Work)) /\ WF_allVars(MacStep(MacWork))

-----------------------------------------------------------------------------
(* Properties: those of HistoryView and MacHistory, of the client at hand.  *)

\* A connected client that waits for nothing shows exactly the hub's history,
\* whatever was stored, cleared, lost, aborted and asked for at the same time
\* (refreshHistory, clearHistory and the handlers of the hub's messages); on the
\* Mac, unless an answer failed or was stale twice in a row, or its own clear has
\* removed an event that came after it.
ListIsCurrent == IF client = "electron" THEN QuietIsCurrent ELSE MacQuietIsCurrent

\* Nothing a clear removed is shown again after the client was told of it: an answer
\* from before never brings it back, nor on the Mac one of several.
ClearsHold == ToldClearHolds /\ MacToldClearHolds

\* In the end it is quiet, and the list is that of the hub; on the Mac, unless
\* something was missed.
AllSettle ==
    <>[](IF client = "electron" THEN Quiet /\ shown = History
         ELSE MacQuiet /\ (missed \/ rawHistory = History))
=============================================================================
