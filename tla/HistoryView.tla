----------------------------- MODULE HistoryView -----------------------------
(***************************************************************************)
(* The history the Electron client shows (src/client/electron-main.js) and  *)
(* the controller of its refreshes (HistoryRefreshController in             *)
(* async-state.js): one GET at a time, whose answer is dropped if anything  *)
(* has changed the list since it was asked for, and then asked for again.   *)
(* A revision is only ever compared with the current one, so "stale" and    *)
(* "touched" stand for the comparison.                                      *)
(***************************************************************************)
EXTENDS HistoryFeed

CONSTANTS
    MaxFailures,    \* bound: requests that fail
    MaxAsked        \* bound: clears and refreshes asked for on this client, and
                    \* other things that invalidate its list

ASSUME HistoryViewAssumption == {MaxFailures, MaxAsked} \subseteq Nat

VARIABLES
    shown,          \* history: the events of the list
    enabled,
    pending,        \* the GET underway: "none", "asked", "answered", "aborted"
    answer,         \* what the hub answered it
    stale,          \* the revision has changed since it was asked for
    followUp, retryTimer,
    clearing,       \* the DELETE underway, likewise
    touched,        \* the revision has changed since it was asked for
    told,           \* history: the last event of the last clear heard of
    failures, asked \* counters of the bounds

controller == <<enabled, pending, answer, stale, followUp, retryTimer>>
clearVars == <<clearing, touched>>
counters == <<failures, asked>>
viewVars == <<shown, controller, clearVars, told, counters>>

Init ==
    /\ FeedInit
    /\ shown = {} /\ enabled = TRUE /\ pending = "none" /\ answer = {} /\ stale = FALSE
    /\ followUp = FALSE /\ retryTimer = FALSE
    /\ clearing = "none" /\ touched = FALSE /\ told = 0 /\ failures = 0 /\ asked = 0

-----------------------------------------------------------------------------
(* The controller.                                                          *)

Invalidate == stale' = TRUE /\ touched' = TRUE

\* refresh with retryOnStale: a GET, or one more after the one underway.
Refresh ==
    CASE ~enabled' -> UNCHANGED <<pending, stale, followUp, retryTimer, answer>>
      [] enabled' /\ pending # "none" ->
           followUp' = TRUE /\ UNCHANGED <<pending, stale, retryTimer, answer>>
      [] OTHER ->
           /\ pending' = "asked" /\ stale' = FALSE /\ answer' = {}
           /\ followUp' = FALSE /\ retryTimer' = FALSE

\* The same, of a client that has just invalidated its list.
InvalidateAndRefresh ==
    /\ touched' = TRUE
    /\ IF enabled' /\ pending = "none" THEN Refresh
       ELSE /\ stale' = TRUE
            /\ followUp' = (followUp \/ enabled')
            /\ UNCHANGED <<pending, retryTimer, answer>>

\* The hub answers the GET.
HubAnswers ==
    /\ pending = "asked" /\ pending' = "answered" /\ answer' = History
    /\ UNCHANGED <<feedVars, shown, enabled, stale, followUp, retryTimer, clearVars,
                   told, counters>>

\* Mutant: a stale answer is dropped and that is all.
LoadedWithoutRetry(applied) == retryTimer' = (enabled /\ followUp) /\ UNCHANGED followUp

\* The end of refresh: unless the list was applied, or if one more refresh was
\* asked for, there will be another.
Loaded(applied) ==
    /\ followUp' = (followUp \/ ~applied)
    /\ retryTimer' = (enabled /\ followUp')

\* Mutant: the answer is applied whatever has happened since.
FreshAlways == TRUE

Fresh == ~stale

\* refreshOnce goes on with the answer.
LoadAnswered ==
    /\ pending = "answered" /\ pending' = "none" /\ answer' = {}
    /\ shown' = IF Fresh THEN answer ELSE shown
    /\ Loaded(Fresh)
    /\ UNCHANGED <<feedVars, enabled, stale, clearVars, told, counters>>

\* The GET fails, or was aborted with its connection.
LoadFailed ==
    /\ \/ pending = "aborted" /\ UNCHANGED failures
       \/ pending # "none" /\ failures < MaxFailures /\ failures' = failures + 1
    /\ pending' = "none" /\ answer' = {}
    /\ Loaded(FALSE)
    /\ UNCHANGED <<feedVars, shown, enabled, stale, clearVars, told, asked>>

RetryFires ==
    /\ retryTimer /\ UNCHANGED enabled
    /\ IF pending = "none" THEN Refresh
       ELSE /\ retryTimer' = FALSE /\ followUp' = TRUE
            /\ UNCHANGED <<pending, stale, answer>>
    /\ UNCHANGED <<feedVars, shown, clearVars, told, counters>>

-----------------------------------------------------------------------------
(* The hub's messages.                                                      *)

\* The handler of "status", for "connected".
Connected ==
    /\ link = "registered" /\ link' = "ready" /\ enabled' = TRUE
    /\ InvalidateAndRefresh
    /\ UNCHANGED <<hub, feed, drops, shown, clearing, told, counters>>

\* The connection is lost, and its requests are aborted.  reconnectNow reports
\* no status.
Drop(reported) ==
    /\ link # "down" /\ drops < MaxDrops /\ drops' = drops + 1
    /\ link' = "down" /\ feed' = <<>>
    /\ pending' = IF pending = "none" THEN "none" ELSE "aborted"
    /\ clearing' = IF clearing = "none" THEN "none" ELSE "aborted"
    /\ IF reported
       THEN enabled' = FALSE /\ retryTimer' = FALSE /\ followUp' = FALSE /\ Invalidate
       ELSE UNCHANGED <<enabled, retryTimer, followUp, stale, touched>>
    /\ UNCHANGED <<hub, shown, answer, told, counters>>

\* "clipboard": one event more.
HearEvent ==
    /\ feed # <<>> /\ Head(feed).type = "clipboard.update" /\ feed' = Tail(feed)
    /\ shown' = shown \cup {Head(feed).event} /\ Invalidate
    /\ UNCHANGED <<hub, link, drops, enabled, pending, answer, followUp, retryTimer,
                   clearing, told, counters>>

\* "history-cleared"
HearClear ==
    /\ feed # <<>> /\ Head(feed).type = "hub.history-cleared" /\ feed' = Tail(feed)
    /\ shown' = {} /\ Invalidate /\ told' = Head(feed).event
    /\ UNCHANGED <<hub, link, drops, enabled, pending, answer, followUp, retryTimer,
                   clearing, counters>>

-----------------------------------------------------------------------------
(* The user of this client.                                                 *)

\* Another status, or a setting, invalidates the list.
Change ==
    /\ asked < MaxAsked /\ asked' = asked + 1 /\ Invalidate
    /\ UNCHANGED <<feedVars, shown, enabled, pending, answer, followUp, retryTimer,
                   clearing, told, failures>>

\* refreshHistory, for the hub's configuration.
RefreshAsked ==
    /\ asked < MaxAsked /\ asked' = asked + 1
    /\ UNCHANGED enabled /\ Refresh
    /\ UNCHANGED <<feedVars, shown, clearVars, told, failures>>

\* clearHistory, up to the request; one at a time.
AskClear ==
    /\ clearing = "none" /\ asked < MaxAsked /\ asked' = asked + 1
    /\ clearing' = "asked" /\ stale' = TRUE /\ touched' = FALSE
    /\ UNCHANGED <<feedVars, shown, enabled, pending, answer, followUp, retryTimer,
                   told, failures>>

\* The hub clears; the answer may find the request aborted.
HubClearsForUs ==
    /\ clearing \in {"asked", "aborted"} /\ cleared # last
    /\ clearing' = IF clearing = "asked" THEN "answered" ELSE "aborted"
    /\ Cleared /\ UNCHANGED <<clears, shown, controller, touched, told, counters>>

\* The same of a history that is empty.
NothingToClear ==
    /\ clearing = "asked" /\ cleared = last /\ clearing' = "answered"
    /\ Broadcast(Clear(last))
    /\ UNCHANGED <<hub, link, drops, shown, controller, touched, told, counters>>

Untouched == ~touched

\* clearHistory goes on: the list is emptied, unless something has arrived since.
ClearAnswered ==
    /\ clearing = "answered" /\ clearing' = "none" /\ UNCHANGED enabled
    /\ IF Untouched
       THEN shown' = {} /\ Invalidate /\ UNCHANGED <<pending, answer, followUp, retryTimer>>
       ELSE Refresh /\ UNCHANGED <<shown, touched>>
    /\ UNCHANGED <<feedVars, told, counters>>

ClearFailed ==
    /\ \/ clearing = "aborted" /\ UNCHANGED failures
       \/ clearing # "none" /\ failures < MaxFailures /\ failures' = failures + 1
    /\ clearing' = "none"
    /\ UNCHANGED <<feedVars, shown, controller, touched, told, asked>>

-----------------------------------------------------------------------------
\* What is underway arrives or fails, the timers fire and the client connects
\* again: Work is finite once the rest has stopped.
Work ==
    \/ HubAnswers \/ LoadAnswered \/ LoadFailed \/ RetryFires
    \/ Registers /\ UNCHANGED viewVars
    \/ Connected \/ HearEvent \/ HearClear
    \/ HubClearsForUs \/ NothingToClear \/ ClearAnswered \/ ClearFailed

Next ==
    \/ Work
    \/ (HubStores \/ HubClears) /\ UNCHANGED viewVars
    \/ \E reported \in BOOLEAN : Drop(reported)
    \/ Change \/ RefreshAsked \/ AskClear

-----------------------------------------------------------------------------
(* Properties.                                                              *)

Quiet ==
    /\ link = "ready" /\ feed = <<>>
    /\ pending = "none" /\ clearing = "none" /\ ~retryTimer

\* A connected client that waits for nothing shows exactly the hub's history,
\* whatever was stored, cleared, lost, aborted and asked for at the same time
\* (refreshHistory, clearHistory and the handlers of the hub's messages).
QuietIsCurrent == Quiet => shown = History

\* Nothing a clear removed is shown again after the client was told of it: an
\* answer from before never brings it back.
ToldClearHolds == shown \cap 1..told = {}
=============================================================================
