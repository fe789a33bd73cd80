----------------------------- MODULE HistoryPaste -----------------------------
(***************************************************************************)
(* The user selects an event of the history and has it pasted: applyHistory *)
(* of electron-main.js, the operations of sync-service.js it waits for, and *)
(* the helper process that brings the target to the front and sends it the  *)
(* key stroke (direct-paste.js, mac-paste-helper.m).  Other selections,     *)
(* events of other devices, copies and changes of the settings go on        *)
(* meanwhile.  Contents are all different: SyncService is about those that  *)
(* are alike, late, or read in vain.  ForegroundWatcher says which window   *)
(* is remembered; here there is one to paste into or none.                  *)
(***************************************************************************)
EXTENDS Naturals, Sequences

CONSTANTS
    MaxTries,       \* remoteWriteMaxAttempts
    MaxWrites,      \* bound: selections and events of other devices
    MaxCopies       \* bound: copies of the user

ASSUME PasteAssumption == {MaxTries, MaxWrites, MaxCopies} \subseteq Nat

VARIABLES
    shows,          \* what is on the clipboard: the user's nth copy or the nth write
    service,        \* the sync service: currentWrite (0 for none), lastObservedHash,
                    \* and its operations
    serving,        \* it is not stopped
    calls,          \* applyHistory and its helper process, for each operation
    copies          \* counter of the bound

pasteVars == <<shows, service, serving, calls, copies>>

Copied(n) == [by |-> "user", n |-> n]
Write(i) == [by |-> "client", n |-> i]

PasteInit ==
    /\ shows = Copied(0) /\ service = [current |-> 0, observed |-> Copied(0), writes |-> <<>>]
    /\ serving = TRUE /\ calls = <<>> /\ copies = 0

-----------------------------------------------------------------------------
(* The operations of the service, from one state of it to the next.         *)

Current(s) == s.writes[s.current]
Waits(s) == s.current # 0 /\ Current(s).status = "pending"

\* Mutant: who waits for an operation that is superseded is not told.
CancelUntold(s) ==
    IF s.current = 0 THEN s ELSE [s EXCEPT !.writes[s.current].aborted = TRUE, !.current = 0]

\* cancelWrite: the helper of an operation that is aborted is killed.
Cancel(s) ==
    IF s.current = 0 THEN s
    ELSE [s EXCEPT !.writes[s.current].aborted = TRUE, !.current = 0,
                   !.writes[s.current].status = IF Waits(s) THEN "cancelled" ELSE @]

\* observeNewLocalSnapshot
Notice(s) == [Cancel(s) EXCEPT !.observed = shows]

\* rememberKnownSnapshot
Recognise(s) ==
    IF Waits(s) THEN [s EXCEPT !.observed = shows, !.writes[s.current].before = shows]
    ELSE [s EXCEPT !.observed = shows]

\* confirmWrite
Succeed(s) == [s EXCEPT !.observed = Write(s.current), !.writes[s.current].status = "succeeded"]

\* scheduleClipboardWriteRetry
Again(s) == IF Current(s).tries < MaxTries THEN s
            ELSE [s EXCEPT !.writes[s.current].status = "failed"]

\* applyClipboardWrite: the write is refused, done, or done and not read back.
Try(s, result) ==
    LET n == [s EXCEPT !.writes[s.current].tries = @ + 1]
        w == [n EXCEPT !.writes[s.current].before = shows]
        retry == Current(s).tries > 0
    IN  IF retry /\ shows = Write(s.current) THEN service' = Succeed(n) /\ UNCHANGED shows
        ELSE IF retry /\ shows.by = "user" /\ shows # Current(s).before
        THEN service' = Notice(n) /\ UNCHANGED shows
        ELSE CASE result = "refused" -> service' = Again(w) /\ UNCHANGED shows
               [] result = "unread" -> service' = Again(w) /\ shows' = Write(s.current)
               [] result = "read" -> service' = Succeed(w) /\ shows' = Write(s.current)

Results == {"refused", "unread", "read"}

NewWrite == [status |-> "pending", aborted |-> FALSE, tries |-> 0, before |-> service.observed]

\* beginWrite
Begin(result) ==
    LET c == Cancel(service)
        s == [c EXCEPT !.writes = Append(@, NewWrite), !.current = Len(c.writes) + 1]
    IN  /\ Len(service.writes) < MaxWrites
        /\ IF serving THEN Try(s, result) ELSE service' = Cancel(s) /\ UNCHANGED shows

NoCall == [at |-> "none", round |-> 0, ready |-> FALSE, pasted |-> FALSE,
           keys |-> 0, copies |-> 0, cut |-> FALSE]

\* The event of another device is applied.
Receives(result) ==
    /\ serving /\ Begin(result) /\ calls' = Append(calls, NoCall)
    /\ UNCHANGED <<serving, copies>>

\* beginHistoryWrite
SelectsEvent(result) ==
    /\ Begin(result) /\ calls' = Append(calls, [NoCall EXCEPT !.at = "writing"])
    /\ UNCHANGED <<serving, copies>>

RetryWrite(result) ==
    /\ Waits(service) /\ Try(service, result)
    /\ UNCHANGED <<serving, calls, copies>>

\* processLocalSnapshot
PollClipboard ==
    /\ serving /\ shows # service.observed
    /\ service' = IF Waits(service) /\ shows = Write(service.current) THEN Succeed(service)
                  ELSE IF shows.by = "client" THEN Recognise(service) ELSE Notice(service)
    /\ UNCHANGED <<shows, serving, calls, copies>>

\* updatePolicy, for an operation the settings do not allow any more.
Withdraws ==
    /\ service.current # 0 /\ service' = Cancel(service)
    /\ UNCHANGED <<shows, serving, calls, copies>>

\* stop and start, as the connection's settings change.
StopsOrStarts ==
    /\ serving' = ~serving
    /\ service' = IF serving THEN Cancel(service) ELSE [service EXCEPT !.observed = shows]
    /\ UNCHANGED <<shows, calls, copies>>

-----------------------------------------------------------------------------
(* applyHistory.                                                            *)

\* isWriteCurrent, with confirm; the clipboard may not be readable.
MayPaste(i, read) == service.current = i /\ read /\ shows = Write(i)

\* What the check leaves of the service.
Checked(i, read) ==
    IF service.current # i \/ (read /\ shows = Write(i)) THEN service
    ELSE IF read THEN Notice(service) ELSE Cancel(service)

Answers(i, call) == [calls EXCEPT ![i] = [call EXCEPT !.at = "answered"]]

\* pasteIntoWindowsTarget, pasteIntoMacTarget
Launches(i, call) ==
    [calls EXCEPT ![i] = [call EXCEPT !.at = "launched", !.round = @ + 1, !.copies = copies]]

\* The next attempt: with the window that is remembered, then with the one in front.
Attempts(i, call, found, read) ==
    IF call.ready
    THEN /\ service' = Checked(i, read)
         /\ calls' = CASE ~MayPaste(i, read) -> Answers(i, call)
                       [] MayPaste(i, read) /\ found -> Launches(i, call)
                       [] OTHER -> [calls EXCEPT ![i] = [call EXCEPT !.at = "capturing"]]
    ELSE calls' = Answers(i, call) /\ UNCHANGED service

\* The operation has ended; a window is remembered, from the last 30 seconds, or not.
WriteEnds(i, found, read) ==
    /\ calls[i].at = "writing" /\ service.writes[i].status # "pending"
    /\ Attempts(i, [calls[i] EXCEPT !.ready = service.writes[i].status = "succeeded"], found, read)
    /\ UNCHANGED <<shows, serving, copies>>

\* captureExternalPasteTarget has found one, or not.
CaptureEnds(i, found, read) ==
    /\ calls[i].at = "capturing"
    /\ IF found THEN Attempts(i, [calls[i] EXCEPT !.round = 1], TRUE, read)
       ELSE calls' = Answers(i, calls[i]) /\ UNCHANGED service
    /\ UNCHANGED <<shows, serving, copies>>

-----------------------------------------------------------------------------
(* The helper process.  One that is killed does nothing more.               *)

Helped == {"launched", "struck"}

\* Mutant: the abort does not reach the process.
AliveRegardless(i) == calls[i].at \in Helped

Alive(i) == calls[i].at \in Helped /\ ~service.writes[i].aborted

\* The target is in front; on macOS it may still be another window.
StrikesKey(i) ==
    /\ Alive(i) /\ calls[i].at = "launched"
    /\ calls' = [calls EXCEPT ![i].at = "struck", ![i].keys = @ + 1]
    /\ UNCHANGED <<shows, service, serving, copies>>

\* Mutant: the first paste does not end the call.
PastesAgain(i) ==
    /\ Alive(i) /\ calls[i].at = "struck"
    /\ calls' = IF calls[i].round = 1 THEN [calls EXCEPT ![i].at = "capturing"]
                ELSE Answers(i, [calls[i] EXCEPT !.pasted = TRUE])
    /\ UNCHANGED <<shows, service, serving, copies>>

\* It has done its work.
Pastes(i) ==
    /\ Alive(i) /\ calls[i].at = "struck"
    /\ calls' = Answers(i, [calls[i] EXCEPT !.pasted = TRUE])
    /\ UNCHANGED <<shows, service, serving, copies>>

\* It cannot bring the target to the front, is killed by its time limit, or was killed
\* by the abort: the window in front is tried.
HelperFails(i, read) ==
    /\ calls[i].at \in Helped
    /\ LET call == [calls[i] EXCEPT !.cut = @ \/ calls[i].at = "struck"]
       IN  IF call.round = 1 THEN Attempts(i, call, FALSE, read)
           ELSE calls' = Answers(i, call) /\ UNCHANGED service
    /\ UNCHANGED <<shows, serving, copies>>

\* On macOS, without the permission, no other window is tried.
PermissionRequired(i) ==
    /\ Alive(i) /\ calls[i].at = "launched" /\ calls' = Answers(i, calls[i])
    /\ UNCHANGED <<shows, service, serving, copies>>

-----------------------------------------------------------------------------
\* The user copies.
Copies ==
    /\ copies < MaxCopies /\ copies' = copies + 1 /\ shows' = Copied(copies + 1)
    /\ UNCHANGED <<service, serving, calls>>

\* Promises that settle, timers, and the time limits of the processes.
CallGoesOn ==
    \E i \in DOMAIN calls, found, read \in BOOLEAN :
       WriteEnds(i, found, read) \/ CaptureEnds(i, found, read) \/ HelperFails(i, read)

RetryGoesOn == \E result \in Results : RetryWrite(result)

PasteNext ==
    \/ CallGoesOn \/ RetryGoesOn \/ PollClipboard \/ Withdraws \/ StopsOrStarts \/ Copies
    \/ \E result \in Results : Receives(result) \/ SelectsEvent(result)
    \/ \E i \in DOMAIN calls : StrikesKey(i) \/ Pastes(i) \/ PermissionRequired(i)

-----------------------------------------------------------------------------
(* Properties.                                                              *)

\* When the key stroke is sent, the clipboard holds what was selected, whatever was
\* selected, received or changed since; what the user himself has copied after the
\* last look cannot be known.
PastesAsMeant ==
    [][\A i \in DOMAIN calls : calls'[i].keys # calls[i].keys =>
          \/ shows = Write(i)
          \/ shows.by = "user" /\ shows.n > calls[i].copies]_pasteVars

\* A selection is pasted once, and the answer is true, but for a helper that ends
\* after its key stroke by its time limit or by the abort.
PastedOnce ==
    \A i \in DOMAIN calls : calls[i].at = "answered" /\ ~calls[i].cut =>
        calls[i].keys = (IF calls[i].pasted THEN 1 ELSE 0)

\* Every selection is answered, also one that another has superseded.
AllAnswered ==
    \A i \in 1..MaxWrites :
        (i \in DOMAIN calls /\ calls[i].at = "writing") ~>
        (i \in DOMAIN calls /\ calls[i].at = "answered")
=============================================================================
