--------------------------- MODULE ForegroundWatcher ---------------------------
(***************************************************************************)
(* The process that tells the Electron client on Windows which window is in *)
(* front (windows-foreground-watcher.js), and the window it remembers to    *)
(* paste into (electron-main.js, paste-target-memory.js).  The process      *)
(* writes a line every second, and one more for the requests it has read;   *)
(* it may hang, die and be started again with requests and lines underway.  *)
(* Windows are numbered as they come to the front.                          *)
(***************************************************************************)
EXTENDS Naturals, Sequences

CONSTANTS
    MaxWindows,     \* bound: windows that come to the front
    MaxRequests,    \* bound: samples asked for
    MaxLines,       \* bound: lines underway
    MaxMishaps      \* bound: processes that die, hang or are not started, reads that fail

ASSUME WatcherAssumption == {MaxWindows, MaxRequests, MaxLines, MaxMishaps} \subseteq Nat

VARIABLES
    front,          \* the window in front, and its kind
    process,        \* "none", "running", "hung" or "killed"
    awake,          \* it is about to take a sample
    requestId,      \* the highest request it has read
    written,        \* the highest request written to it
    lines,          \* the lines underway of this process; those of one that is gone
                    \* are not heard
    stopped, restartTimer,
    nextRequestId,
    pending,        \* the requests underway
    answers,        \* samples on their way to those who asked
    capture,        \* pasteTargetCapture: "none", "requested", "reading" or "read"
    captured,       \* what the fallback has read
    remembered,     \* lastExternalPasteTarget, or NoWindow
    mishaps         \* counter of the bound

sampler == <<process, awake, requestId, written, lines>>
requests == <<nextRequestId, pending, answers, capture, captured>>
watcherVars == <<front, sampler, stopped, restartTimer, requests, remembered, mishaps>>

NoWindow == 0
Unread == [n |-> NoWindow, kind |-> "unusable"]
\* An application to paste into, a window of the client or the taskbar, another one.
Kinds == {"usable", "ignored", "unusable"}

WatcherInit ==
    /\ front \in [n : {1}, kind : Kinds]
    /\ process = "running" /\ awake = FALSE /\ requestId = 0 /\ written = 0
    /\ lines = <<>> /\ stopped = FALSE /\ restartTimer = FALSE
    /\ nextRequestId = 0 /\ pending = {} /\ answers = {} /\ capture = "none" /\ captured = Unread
    /\ remembered = NoWindow /\ mishaps = 0

Mishap == mishaps < MaxMishaps /\ mishaps' = mishaps + 1

ComesToFront(kind) ==
    /\ front.n < MaxWindows /\ front' = [n |-> front.n + 1, kind |-> kind]
    /\ UNCHANGED <<sampler, stopped, restartTimer, requests, remembered, mishaps>>

-----------------------------------------------------------------------------
(* The process: the loop of windowsWatcherScript.                           *)

\* It reads what has been written, or a second passes.
Wakes(reads) ==
    /\ process = "running" /\ ~awake /\ awake' = TRUE
    /\ requestId' = IF reads THEN written ELSE requestId
    /\ UNCHANGED <<front, process, written, lines, stopped, restartTimer, requests,
                   remembered, mishaps>>

Samples ==
    /\ process = "running" /\ awake /\ awake' = FALSE /\ Len(lines) < MaxLines
    /\ lines' = Append(lines, [id |-> requestId, window |-> front])
    /\ UNCHANGED <<front, process, requestId, written, stopped, restartTimer,
                   requests, remembered, mishaps>>

Hangs ==
    /\ process = "running" /\ Mishap /\ process' = "hung"
    /\ UNCHANGED <<front, awake, requestId, written, lines, stopped, restartTimer,
                   requests, remembered>>

-----------------------------------------------------------------------------
(* The client.                                                              *)

\* rememberPasteTarget
Remember(window) ==
    remembered' = CASE window.kind = "usable" -> window.n
                    [] window.kind = "ignored" -> remembered
                    [] window.kind = "unusable" -> NoWindow

\* resolvePending for the requests R, without a sample: the capture reads by itself.
ResolveNull(R) ==
    /\ pending' = pending \ R
    /\ capture' = IF \E r \in R : r.kind = "capture" THEN "reading" ELSE capture
    /\ UNCHANGED <<nextRequestId, answers, captured>>

\* request, by the capture of a target or for the source of a copy.
Request(kind) ==
    /\ nextRequestId < MaxRequests /\ nextRequestId' = nextRequestId + 1
    /\ written' = nextRequestId'
    /\ pending' = pending \cup {[id |-> nextRequestId', kind |-> kind, at |-> front.n]}

AsksSource ==
    /\ process \in {"running", "hung"} /\ ~stopped /\ Request("source")
    /\ UNCHANGED <<front, process, awake, requestId, lines, stopped, restartTimer,
                   answers, capture, captured, remembered, mishaps>>

\* captureExternalPasteTarget, if none is underway.
Captures ==
    /\ capture = "none" /\ ~stopped
    /\ IF process # "none" THEN Request("capture") /\ capture' = "requested"
       ELSE /\ nextRequestId < MaxRequests /\ nextRequestId' = nextRequestId + 1
            /\ capture' = "reading" /\ UNCHANGED <<written, pending>>
    /\ UNCHANGED <<front, process, awake, requestId, lines, stopped, restartTimer,
                   answers, captured, remembered, mishaps>>

\* Mutant: every request is answered by the next line.
AnsweredAll(line) == pending

\* The requests a line answers.
Answered(line) == {r \in pending : r.id <= line.id}

\* The handler of "line", and of "sample".
HearsLine ==
    /\ lines # <<>> /\ ~stopped /\ lines' = Tail(lines)
    /\ LET line == Head(lines)
       IN  /\ Remember(line.window)
           /\ pending' = pending \ Answered(line)
           /\ answers' = answers \cup {[kind |-> r.kind, at |-> r.at, window |-> line.window] :
                                         r \in Answered(line)}
    /\ UNCHANGED <<front, process, awake, requestId, written, stopped, restartTimer,
                   nextRequestId, capture, captured, mishaps>>

\* The answer reaches who asked.
Takes(a) ==
    /\ a \in answers /\ answers' = answers \ {a}
    /\ IF a.kind = "capture" THEN capture' = "none" ELSE UNCHANGED capture
    /\ IF a.kind = "capture" /\ ~stopped THEN Remember(a.window) ELSE UNCHANGED remembered
    /\ UNCHANGED <<front, sampler, stopped, restartTimer, nextRequestId, pending,
                   captured, mishaps>>

TimesOut(r) ==
    /\ r \in pending /\ ResolveNull({r})
    /\ UNCHANGED <<front, sampler, stopped, restartTimer, remembered, mishaps>>

\* readWindowsForegroundTarget, by a process of its own: its sample, and its end.
Reads ==
    /\ capture = "reading" /\ capture' = "read" /\ captured' = front
    /\ UNCHANGED <<front, sampler, stopped, restartTimer, nextRequestId, pending,
                   answers, remembered, mishaps>>

ReadEnds(fails) ==
    /\ IF fails THEN capture \in {"reading", "read"} /\ Mishap
       ELSE capture = "read" /\ UNCHANGED mishaps
    /\ capture' = "none" /\ captured' = Unread
    /\ IF fails \/ stopped THEN UNCHANGED remembered ELSE Remember(captured)
    /\ UNCHANGED <<front, sampler, stopped, restartTimer, nextRequestId, pending,
                   answers>>

-----------------------------------------------------------------------------
(* The process comes and goes.                                              *)

Discards == lines' = <<>> /\ awake' = FALSE

\* onGone
ProcessExits ==
    /\ process # "none" /\ process' = "none" /\ Discards
    /\ IF process = "killed" THEN UNCHANGED mishaps ELSE Mishap
    /\ ResolveNull(pending) /\ restartTimer' = ~stopped
    /\ UNCHANGED <<front, requestId, written, stopped, remembered>>

\* checkStall: no line for fifteen seconds.
CheckStall ==
    /\ process = "hung" /\ lines = <<>> /\ process' = "killed"
    /\ UNCHANGED <<front, awake, requestId, written, lines, stopped, restartTimer,
                   requests, remembered, mishaps>>

\* The timer of scheduleRestart: spawnChild, which may fail.
RestartFires ==
    /\ restartTimer
    /\ \/ /\ restartTimer' = FALSE /\ process' = "running" /\ requestId' = 0 /\ written' = 0
          /\ UNCHANGED mishaps
       \/ Mishap /\ UNCHANGED <<restartTimer, process, requestId, written>>
    /\ UNCHANGED <<front, awake, lines, stopped, requests, remembered>>

\* stopPasteTargetSampler: stop, at the end of the client.
StopWatcher ==
    /\ ~stopped /\ stopped' = TRUE /\ process' = "none" /\ Discards
    /\ restartTimer' = FALSE /\ ResolveNull(pending)
    /\ UNCHANGED <<front, requestId, written, remembered, mishaps>>

-----------------------------------------------------------------------------
ProcessGoesOn == \/ \E reads \in BOOLEAN : Wakes(reads)
                 \/ Samples
ProcessReplaced == (process = "killed" /\ ProcessExits) \/ CheckStall \/ RestartFires
CaptureGoesOn ==
    \/ Reads \/ ReadEnds(FALSE)
    \/ \E a \in answers : Takes(a)
    \/ \E r \in pending : TimesOut(r)

WatcherNext ==
    \/ ProcessGoesOn \/ HearsLine \/ ProcessReplaced \/ CaptureGoesOn
    \/ \E kind \in Kinds : ComesToFront(kind)
    \/ Hangs \/ ProcessExits \/ ReadEnds(TRUE) \/ AsksSource \/ Captures \/ StopWatcher

-----------------------------------------------------------------------------
(* Properties.                                                              *)

\* A sample that answers a request was taken after it was asked for, whatever lines were
\* underway and however often the process was replaced ("a reply is never older than its
\* request").
NeverOlder == \A a \in answers : a.window.n >= a.at

\* The window in front, if it stays there, is in the end what will be pasted into, or
\* nothing is if it cannot be.
FrontIsKnown ==
    stopped \/ CASE front.kind = "usable" -> remembered = front.n
                 [] front.kind = "unusable" -> remembered = NoWindow
                 [] front.kind = "ignored" -> TRUE
=============================================================================
