------------------------------ MODULE LocalProxy ------------------------------
(***************************************************************************)
(* The relay to the hub that the packaged Electron client runs on macOS     *)
(* (mac-local-proxy.js), and the part of electron-main.js that points the   *)
(* hub client to it.  The settings change one after the other, each waits   *)
(* for the relay; the start of a relay is asynchronous and queued, its stop *)
(* is not, and a relay that dies is started again by a timer.  The          *)
(* generation of a start and the revision of its caller are only ever       *)
(* compared with the current ones: "latest" and "valid" stand for that.     *)
(* Delays are left out, so is a client without the relay's executable.      *)
(***************************************************************************)
EXTENDS Naturals, Sequences, FiniteSets

CONSTANTS
    Hubs,           \* addresses of a hub that need the relay
    Direct,         \* any other address
    MaxChanges,     \* bound: changes of the settings
    MaxAccidents    \* bound: processes that die or hang, files that are not written

ASSUME ProxyAssumption == Direct \notin Hubs /\ {MaxChanges, MaxAccidents} \subseteq Nat

VARIABLES
    hubUrl,         \* of the settings
    caller,         \* of manager.sync: "idle", "stopping" or "queued"
    hubRunning,     \* hub.start, hub.stop
    viaProxy,       \* hubConnectionSettings holds the address of the relay
    procs,          \* the relay's processes: "none", "starting", "serving", "killed",
                    \* or "forced" by SIGKILL
    targets,        \* the address in the file each has read
    child, ready,
    stopping,       \* the last stop: "done", "pending" or "failed"
    queue,          \* the starts that are queued, the first underway
    retryTimer, watched,
    quit,
    changes, accidents  \* counters of the bounds

relay == <<procs, targets, child, ready, stopping>>
recovery == <<retryTimer, watched>>
app == <<hubUrl, caller, hubRunning, viaProxy, quit>>
proxyVars == <<relay, recovery, queue, app, changes, accidents>>

Slots == 1..2
NoChild == 0

Start(kind, url) ==
    [kind |-> kind, url |-> url, latest |-> TRUE, valid |-> TRUE,
     phase |-> "queued", slot |-> NoChild, result |-> "inactive"]

ProxyInit ==
    /\ hubUrl \in Hubs \cup {Direct} /\ hubRunning = FALSE /\ viaProxy = FALSE /\ quit = FALSE
    /\ caller = (IF hubUrl = Direct THEN "stopping" ELSE "queued")
    /\ queue = (IF hubUrl = Direct THEN <<>> ELSE <<Start("sync", hubUrl)>>)
    /\ procs = [s \in Slots |-> "none"] /\ targets = [s \in Slots |-> Direct]
    /\ child = NoChild /\ ready = FALSE /\ stopping = "done"
    /\ retryTimer = FALSE /\ watched = NoChild /\ changes = 0 /\ accidents = 0

-----------------------------------------------------------------------------
\* isActive; a child that has exited is no child any more.
Active == ready /\ child # NoChild

\* stopChild
StopChild ==
    /\ child' = NoChild /\ ready' = FALSE /\ UNCHANGED targets
    /\ IF child = NoChild THEN UNCHANGED <<procs, stopping>>
       ELSE procs' = [procs EXCEPT ![child] = "killed"] /\ stopping' = "pending"

Accident == accidents < MaxAccidents /\ accidents' = accidents + 1

\* The next generation, and the next revision.
Supersede == [i \in DOMAIN queue |-> [queue[i] EXCEPT !.latest = FALSE]]
Invalid == [i \in DOMAIN queue |-> [queue[i] EXCEPT !.latest = FALSE, !.valid = FALSE]]

\* clearRecovery
ClearRecovery == retryTimer' = FALSE /\ watched' = NoChild

\* applySettingsPatch, up to the end of manager.sync: its caller waits for a stop or
\* for a start.
ChangeHub(url) ==
    /\ caller = "idle" /\ ~quit /\ changes < MaxChanges /\ changes' = changes + 1
    /\ hubUrl' = url /\ hubRunning' = FALSE /\ ClearRecovery
    /\ IF url = Direct THEN caller' = "stopping" /\ StopChild /\ queue' = Invalid
       ELSE caller' = "queued" /\ queue' = Append(Invalid, Start("sync", url)) /\ UNCHANGED relay
    /\ UNCHANGED <<viaProxy, quit, accidents>>

\* syncHubConnectionSettings and applySettingsPatch go on.
Connects(active) == caller' = "idle" /\ hubRunning' = TRUE /\ viaProxy' = active

Stopped ==
    /\ caller = "stopping" /\ stopping # "pending" /\ Connects(FALSE)
    /\ UNCHANGED <<relay, recovery, queue, hubUrl, quit, changes, accidents>>

\* The handler of "before-quit".
Quit ==
    /\ ~quit /\ quit' = TRUE /\ hubRunning' = FALSE
    /\ ClearRecovery /\ StopChild /\ queue' = Invalid
    /\ UNCHANGED <<hubUrl, caller, viaProxy, changes, accidents>>

-----------------------------------------------------------------------------
(* startForHubUrl, for the first of the queue.                              *)

first == Head(queue)
Underway(phase) == queue # <<>> /\ first.phase = phase
Goes(phase, slot, result) ==
    queue' = [queue EXCEPT ![1].phase = phase, ![1].slot = slot, ![1].result = result]

Desired == ~quit /\ hubUrl # Direct

\* It ends "active", "inactive" or with an error, and sync or the timer's callback goes
\* on; only a relay that has served is watched and recovered.
Ends(result) ==
    /\ queue' = Tail(queue)
    /\ watched' = IF result = "active" /\ first.valid THEN child' ELSE watched
    /\ IF first.kind = "sync" THEN Connects(result = "active") /\ UNCHANGED retryTimer
       ELSE /\ retryTimer' = (retryTimer \/ (first.valid /\ result # "active" /\ Desired))
            /\ UNCHANGED <<caller, hubRunning, viaProxy>>
    /\ UNCHANGED <<hubUrl, quit, changes>>

Begins ==
    /\ Underway("queued") /\ UNCHANGED accidents
    /\ \/ ~first.latest /\ UNCHANGED relay /\ Ends("inactive")
       \/ first.latest /\ Active /\ targets[child] = first.url /\ UNCHANGED relay /\ Ends("active")
       \/ /\ first.latest /\ ~(Active /\ targets[child] = first.url)
          /\ StopChild /\ Goes("stopping", NoChild, "inactive")
          /\ UNCHANGED <<recovery, app, changes>>

\* Mutant: a relay is started although the last one may still run.
ChildStoppedAtOnce ==
    /\ Underway("stopping") /\ UNCHANGED <<relay, accidents>>
    /\ \/ stopping = "failed" /\ Ends("error")
       \/ stopping # "failed" /\ ~first.latest /\ Ends("inactive")
       \/ /\ stopping # "failed" /\ first.latest /\ Goes("writing", NoChild, "inactive")
          /\ UNCHANGED <<recovery, app, changes>>

ChildStopped ==
    /\ Underway("stopping") /\ UNCHANGED <<relay, accidents>>
    /\ \/ stopping = "failed" /\ Ends("error")
       \/ stopping = "done" /\ ~first.latest /\ Ends("inactive")
       \/ /\ stopping = "done" /\ first.latest /\ Goes("writing", NoChild, "inactive")
          /\ UNCHANGED <<recovery, app, changes>>

Spawn ==
    LET s == CHOOSE s \in Slots : procs[s] = "none" /\ \A r \in 1..(s - 1) : procs[r] # "none"
    IN  /\ procs' = [procs EXCEPT ![s] = "starting"] /\ child' = s
        /\ targets' = [targets EXCEPT ![s] = first.url]
        /\ Goes("listening", s, "inactive")
        /\ UNCHANGED <<ready, stopping, recovery, app, changes>>

\* Mutant: what was asked for while the file was written is not looked at.
FileWrittenSpawns == Underway("writing") /\ UNCHANGED accidents /\ Spawn

FileWritten ==
    /\ Underway("writing") /\ UNCHANGED accidents
    /\ \/ first.latest /\ Spawn
       \/ ~first.latest /\ UNCHANGED relay /\ Ends("inactive")

\* The file cannot be written, or spawn throws.
NotSpawned ==
    /\ Underway("writing") /\ Accident /\ UNCHANGED relay /\ Ends("error")

\* Mutant: what was asked for since the relay was started is not looked at.
ListensAnyway ==
    /\ Underway("listening") /\ procs[first.slot] \in {"starting", "killed"} /\ UNCHANGED accidents
    /\ ready' = TRUE /\ procs' = [procs EXCEPT ![first.slot] = "serving"]
    /\ child' = first.slot /\ UNCHANGED <<targets, stopping>> /\ Ends("active")

\* The process says that it listens; it may have been stopped since.
Listens ==
    /\ Underway("listening") /\ procs[first.slot] \in {"starting", "killed"} /\ UNCHANGED accidents
    /\ IF first.latest /\ child = first.slot
       THEN /\ ready' = TRUE /\ procs' = [procs EXCEPT ![child] = "serving"]
            /\ UNCHANGED <<child, targets, stopping>> /\ Ends("active")
       ELSE /\ StopChild /\ Goes("leaving", NoChild, "inactive")
            /\ UNCHANGED <<recovery, app, changes>>

StartTimeout ==
    /\ Underway("listening") /\ procs[first.slot] # "none" /\ Accident
    /\ StopChild /\ Goes("leaving", NoChild, "error") /\ UNCHANGED <<recovery, app, changes>>

Leaves ==
    /\ Underway("leaving") /\ stopping # "pending"
    /\ UNCHANGED <<relay, accidents>>
    /\ Ends(IF stopping = "failed" THEN "error" ELSE first.result)

-----------------------------------------------------------------------------
(* The processes, and the recovery.                                         *)

\* A process exits: by itself, or killed.  Its listeners are clearOwnedChild, the one of
\* its start, the one of its stop, and the one of watchExit.
Exits(s) ==
    /\ procs[s] # "none" /\ procs' = [procs EXCEPT ![s] = "none"]
    /\ IF procs[s] \in {"starting", "serving"} THEN Accident ELSE UNCHANGED accidents
    /\ IF child = s THEN child' = NoChild /\ ready' = FALSE ELSE UNCHANGED <<child, ready>>
    /\ stopping' = IF procs[s] = "killed" THEN "done" ELSE stopping
    /\ IF Underway("listening") /\ first.slot = s THEN Goes("leaving", NoChild, "error")
       ELSE UNCHANGED queue
    /\ IF watched = s THEN watched' = NoChild /\ retryTimer' = Desired ELSE UNCHANGED recovery
    /\ UNCHANGED <<targets, app, changes>>

\* It does not within two seconds, and is killed for good.
StopTimeout(s) ==
    /\ procs[s] = "killed" /\ stopping = "pending" /\ Accident
    /\ procs' = [procs EXCEPT ![s] = "forced"] /\ stopping' = "failed"
    /\ UNCHANGED <<targets, child, ready, recovery, queue, app, changes>>

\* The timer of scheduleRecovery.
RetryFires ==
    /\ retryTimer /\ retryTimer' = FALSE
    /\ queue' = Append(Supersede, Start("recovery", hubUrl))
    /\ UNCHANGED <<relay, watched, app, changes, accidents>>

-----------------------------------------------------------------------------
ProxyWork ==
    \/ Stopped \/ Begins \/ ChildStopped \/ FileWritten \/ NotSpawned
    \/ Listens \/ StartTimeout \/ Leaves \/ RetryFires
    \/ \E s \in Slots : Exits(s) \/ StopTimeout(s)

ProxyNext == ProxyWork \/ Quit \/ \E url \in Hubs \cup {Direct} : ChangeHub(url)

-----------------------------------------------------------------------------
(* Properties.                                                              *)

\* There is never more than one process: they would compete for the same port.  One
\* that was told to stop is gone before the next is started, whether a change, a
\* recovery or the end of a failed start has stopped it.
OneProcess == Cardinality({s \in Slots : procs[s] # "none"}) <= 1

\* The relay in use leads to the hub of the settings, however starts, recoveries and
\* changes overlapped; and the hub client knows of it.
FollowsSettings == hubRunning /\ Active => viaProxy /\ targets[child] = hubUrl

\* Once the relay is not wanted, or the client quits, no process is started by what
\* was underway.
StaysStopped ==
    [][hubUrl = Direct \/ quit => \A s \in Slots : procs[s] = "none" => procs'[s] = "none"]_proxyVars

\* The hub client, connected to the relay by the last change, has one to connect to.
Relays == hubRunning /\ viaProxy /\ ~quit /\ caller = "idle" /\ stopping # "failed" => Active
=============================================================================
