----------------------------- MODULE ClientHelpers -----------------------------
(***************************************************************************)
(* The processes the Electron client starts (electron-main.js): the relay   *)
(* to the hub on macOS, the one that watches the foreground on Windows, and *)
(* the ones that paste.  They share no state with each other but the window *)
(* to paste into, which HistoryPaste takes as found or not, so that a       *)
(* behaviour is one of one of them.                                         *)
(***************************************************************************)
EXTENDS LocalProxy, ForegroundWatcher, HistoryPaste

VARIABLE part   \* "relay", "watcher" or "paste"

helperVars == <<proxyVars, watcherVars, pasteVars, part>>

\* The parts a behaviour is not about start in one way.
HelpersInit ==
    /\ ProxyInit /\ WatcherInit /\ PasteInit /\ part \in {"relay", "watcher", "paste"}
    /\ part = "relay" \/ hubUrl = Direct
    /\ part = "watcher" \/ front.kind = "usable"

OfRelay(A) == part = "relay" /\ A /\ UNCHANGED <<watcherVars, pasteVars, part>>
OfWatcher(A) == part = "watcher" /\ A /\ UNCHANGED <<proxyVars, pasteVars, part>>
OfPaste(A) == part = "paste" /\ A /\ UNCHANGED <<proxyVars, watcherVars, part>>

HelpersNext == OfRelay(ProxyNext) \/ OfWatcher(WatcherNext) \/ OfPaste(PasteNext)

\* Processes, promises and timers go on; the bounds end all failures.
HelpersSpec ==
    /\ HelpersInit /\ [][HelpersNext]_helperVars
    /\ WF_helperVars(OfRelay(ProxyWork))
    /\ WF_helperVars(OfWatcher(ProcessGoesOn)) /\ WF_helperVars(OfWatcher(HearsLine))
    /\ WF_helperVars(OfWatcher(ProcessReplaced)) /\ WF_helperVars(OfWatcher(CaptureGoesOn))
    /\ WF_helperVars(OfPaste(CallGoesOn)) /\ WF_helperVars(OfPaste(RetryGoesOn))

-----------------------------------------------------------------------------
(* Properties.                                                              *)

\* A relay that has served is running again in the end, whatever failed to start it
\* (scheduleRecovery), unless a process has outlived its stop: then the rejected
\* promise "stopping" makes every later start fail (stopChild).
RelayRecovers == <>[](part = "relay" => Relays)

\* However often the watching process dies, hangs or fails to start, the window in
\* front is in the end the one that is remembered (scheduleRestart, checkStall).
FrontIsRemembered == <>[](part = "watcher" => FrontIsKnown)

\* A helper that fails is replaced and serves again, and no selection waits for one, or
\* for an operation that is superseded, without end.
HelpersRecover == RelayRecovers /\ FrontIsRemembered /\ AllAnswered
=============================================================================
