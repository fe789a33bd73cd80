------------------------------ MODULE MacHistory ------------------------------
(***************************************************************************)
(* The history the Mac application shows (AppModel.swift).  Unlike the      *)
(* Electron client it lets any number of GETs run, aborts none of them,     *)
(* drops the answers of an earlier connection, asks again only once for a   *)
(* stale answer, and empties the list whenever its own clear is answered.   *)
(* An epoch and a revision are only ever compared with the current ones:    *)
(* "old" and "stale" stand for the comparisons.                             *)
(***************************************************************************)
EXTENDS HistoryFeed, SequencesExt

CONSTANTS
    MaxMacAsked,    \* bound: refreshes, clears, rules and restarts by the user
    MaxMacFailures  \* bound: requests that fail

ASSUME MacHistoryAssumption == {MaxMacAsked, MaxMacFailures} \subseteq Nat

VARIABLES
    rawHistory,     \* the events of the list
    gets,           \* the GETs underway
    deletes,        \* the clears underway, each "asked" or "answered"
    macTold,        \* history: the last event of the last clear heard of
    missed,         \* history: an answer was lost, or an event removed by an own clear,
                    \* and no answer has been applied since
    macAsked, macFailures   \* counters of the bounds

macVars == <<rawHistory, gets, deletes, macTold, missed, macAsked, macFailures>>

MacInit ==
    /\ rawHistory = {} /\ gets = <<>> /\ deletes = <<>>
    /\ macTold = 0 /\ missed = FALSE /\ macAsked = 0 /\ macFailures = 0

-----------------------------------------------------------------------------
Outdated(field) == [i \in DOMAIN gets |-> [gets[i] EXCEPT ![field] = TRUE]]

\* refreshHistory, beside the GETs g: only if the policy is acknowledged.
Asks(g, again) ==
    gets' = IF link' # "ready" THEN g
            ELSE Append(g, [answered |-> FALSE, answer |-> {}, old |-> FALSE, stale |-> FALSE,
                            retryOnStale |-> again])

Asking == macAsked < MaxMacAsked /\ macAsked' = macAsked + 1

\* The hub answers a GET.
HubAnswersGet(i) ==
    /\ ~gets[i].answered
    /\ gets' = [gets EXCEPT ![i].answered = TRUE, ![i].answer = History]
    /\ UNCHANGED <<feedVars, rawHistory, deletes, macTold, missed, macAsked, macFailures>>

\* Mutant: an answer is applied whatever has arrived since.
CurrentIfConnected(g) == ~g.old

Current(g) == ~g.old /\ ~g.stale

\* refreshHistory goes on with the answer.
GetAnswered(i) ==
    /\ gets[i].answered /\ UNCHANGED feedVars
    /\ LET g == gets[i]
           rest == RemoveAt(gets, i)
       IN  CASE Current(g) -> rawHistory' = g.answer /\ gets' = rest /\ missed' = FALSE
             [] ~Current(g) /\ g.old -> gets' = rest /\ UNCHANGED <<rawHistory, missed>>
             [] ~Current(g) /\ ~g.old ->
                  /\ IF g.retryOnStale THEN Asks(rest, FALSE) ELSE gets' = rest
                  /\ missed' = (missed \/ ~g.retryOnStale) /\ UNCHANGED rawHistory
    /\ UNCHANGED <<deletes, macTold, macAsked, macFailures>>

GetFails(i) ==
    /\ macFailures < MaxMacFailures /\ macFailures' = macFailures + 1
    /\ gets' = RemoveAt(gets, i) /\ missed' = (missed \/ ~gets[i].old)
    /\ UNCHANGED <<feedVars, rawHistory, deletes, macTold, macAsked>>

-----------------------------------------------------------------------------
\* handleHubStatus, for "connected".
MacConnected ==
    /\ link = "registered" /\ link' = "ready"
    /\ Asks(Outdated("old"), TRUE)
    /\ UNCHANGED <<hub, feed, drops, rawHistory, deletes, macTold, missed, macAsked, macFailures>>

\* handleHubStatus, for the loss of the connection; reconnectNow reports none.
MacDrop(reported) ==
    /\ link # "down" /\ drops < MaxDrops /\ drops' = drops + 1
    /\ link' = "down" /\ feed' = <<>>
    /\ gets' = IF reported THEN Outdated("old") ELSE gets
    /\ UNCHANGED <<hub, rawHistory, deletes, macTold, missed, macAsked, macFailures>>

\* handleClipboard
MacHearEvent ==
    /\ feed # <<>> /\ Head(feed).type = "clipboard.update" /\ feed' = Tail(feed)
    /\ rawHistory' = rawHistory \cup {Head(feed).event} /\ gets' = Outdated("stale")
    /\ UNCHANGED <<hub, link, drops, deletes, macTold, missed, macAsked, macFailures>>

\* handleHistoryCleared
MacHearClear ==
    /\ feed # <<>> /\ Head(feed).type = "hub.history-cleared" /\ feed' = Tail(feed)
    /\ rawHistory' = {} /\ gets' = Outdated("stale") /\ macTold' = Head(feed).event
    /\ UNCHANGED <<hub, link, drops, deletes, missed, macAsked, macFailures>>

-----------------------------------------------------------------------------
\* refresh, and handleConfig.
MacRefresh ==
    /\ Asking /\ UNCHANGED feedVars /\ Asks(gets, TRUE)
    /\ UNCHANGED <<rawHistory, deletes, macTold, missed, macFailures>>

\* updateRule: the rules decide what the hub returns.
MacUpdateRule ==
    /\ Asking /\ UNCHANGED feedVars /\ Asks(Outdated("stale"), TRUE)
    /\ UNCHANGED <<rawHistory, deletes, macTold, missed, macFailures>>

\* restartConnection
MacRestart ==
    /\ Asking /\ rawHistory' = {} /\ link' = "down" /\ feed' = <<>>
    /\ gets' = [i \in DOMAIN gets |-> [gets[i] EXCEPT !.old = TRUE, !.stale = TRUE]]
    /\ UNCHANGED <<hub, drops, deletes, macTold, missed, macFailures>>

\* clearGlobalHistory, up to the request.
MacAskClear ==
    /\ Asking /\ deletes' = Append(deletes, "asked")
    /\ UNCHANGED <<feedVars, rawHistory, gets, macTold, missed, macFailures>>

\* The hub clears, and tells everyone.
HubDeletes(i) ==
    /\ deletes[i] = "asked" /\ deletes' = [deletes EXCEPT ![i] = "answered"]
    /\ Cleared
    /\ UNCHANGED <<clears, rawHistory, gets, macTold, missed, macAsked, macFailures>>

\* clearGlobalHistory goes on with the answer: handleHistoryCleared.
DeleteAnswered(i) ==
    /\ deletes[i] = "answered" /\ deletes' = RemoveAt(deletes, i)
    /\ rawHistory' = {} /\ gets' = Outdated("stale")
    /\ missed' = (missed \/ rawHistory \cap History # {})
    /\ UNCHANGED <<feedVars, macTold, macAsked, macFailures>>

DeleteFails(i) ==
    /\ macFailures < MaxMacFailures /\ macFailures' = macFailures + 1
    /\ deletes' = RemoveAt(deletes, i)
    /\ UNCHANGED <<feedVars, rawHistory, gets, macTold, missed, macAsked>>

-----------------------------------------------------------------------------
MacWork ==
    \/ \E i \in DOMAIN gets : HubAnswersGet(i) \/ GetAnswered(i) \/ GetFails(i)
    \/ \E i \in DOMAIN deletes : HubDeletes(i) \/ DeleteAnswered(i) \/ DeleteFails(i)
    \/ MacConnected \/ MacHearEvent \/ MacHearClear
    \/ Registers /\ UNCHANGED macVars

MacNext ==
    \/ MacWork
    \/ (HubStores \/ HubClears) /\ UNCHANGED macVars
    \/ \E reported \in BOOLEAN : MacDrop(reported)
    \/ MacRefresh \/ MacUpdateRule \/ MacRestart \/ MacAskClear

-----------------------------------------------------------------------------
(* Properties.                                                              *)

\* Nothing a clear removed is shown again after the application was told of it,
\* whichever of its GETs is answered last.
MacToldClearHolds == rawHistory \cap 1..macTold = {}

MacQuiet == link = "ready" /\ feed = <<>> /\ gets = <<>> /\ deletes = <<>>

\* A connected application that waits for nothing shows exactly the hub's history,
\* unless an answer failed or was stale twice in a row, or its own clear has removed
\* an event that came after it (refreshHistory and clearGlobalHistory).
MacQuietIsCurrent == MacQuiet /\ ~missed => rawHistory = History
=============================================================================
