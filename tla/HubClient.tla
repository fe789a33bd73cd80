------------------------------ MODULE HubClient ------------------------------
(***************************************************************************)
(* A client's connection to the hub (src/client/hub-client.js, and          *)
(* HubSession.swift, its counterpart on macOS): how it connects, is cut off *)
(* and connects again, how it hands the hub its receiver policy until the   *)
(* hub acknowledges it, and how it learns which devices are there, on the   *)
(* connection and by HTTP.  A connection delivers in order what it delivers; *)
(* nothing orders it with another connection or with an HTTP answer.  The   *)
(* hub is the part of server.js that answers one client; Hub has the rest.  *)
(***************************************************************************)
EXTENDS Naturals, Sequences

CONSTANTS
    Sockets,        \* WebSocket objects; bound: those not closed yet at once
    NoSocket,       \* the client's ws is null
    Policies,       \* receiver policies the settings can ask for
    NoPolicy,       \* no policy; for the hub, the empty one
    Peers,          \* the other devices
    MaxAttempts,    \* policyMaxAttempts
    MaxSlow,        \* bound: policy timers that fire while an answer is underway
    MaxRefused,     \* bound: policies refused by the rate limit
    MaxFaults,      \* bound: connections that fail
    MaxWakes,       \* bound: wake-ups, and stops of the client
    MaxChanges,     \* bound: changes of the policy in the settings
    MaxMoves,       \* bound: devices that come and go
    MaxEvents       \* bound: clipboard events sent to this client

ASSUME HubClientAssumption ==
    /\ NoSocket \notin Sockets /\ NoPolicy \notin Policies
    /\ {MaxAttempts, MaxSlow, MaxRefused, MaxFaults, MaxWakes, MaxChanges,
        MaxMoves, MaxEvents} \subseteq Nat

VARIABLES
    ws,             \* the current connection
    opened,         \* its readyState is OPEN
    alive,          \* its last ping was answered
    timer,          \* reconnectTimer is set
    stopped,
    status,         \* the last connection state reported
    ready,          \* receiverPolicyReady
    wanted,         \* the policy the settings ask for
    desired, pending, acknowledged,
    revision,       \* policyRevision
    supported,      \* policyRevisionSupported: "unknown", "yes" or "no"
    devices,        \* the last list emitted
    pendingDevices,
    request,        \* the GET /v1/devices of refreshDevices
    mislisted,      \* history: the last list emitted was older than the one before
    link,           \* per connection: "none", "opening", "accepted" (by the hub),
                    \* "open", "dead" (nothing arrives), "cut", "replaced" (cut
                    \* by close code 4000); the close event is still to come
    up, down,       \* what is underway on a connection
    registered,     \* connections the hub has registered
    hubPolicy,      \* the policy the hub filters each of them with
    online,         \* the devices connected to the hub
    revisions,      \* the hub sends revisions back (not every hub does)
    slow, refused, faults, wakes, changes, moves, events    \* counters of the bounds

policyVars == <<ready, wanted, desired, pending, acknowledged, revision, supported>>
listVars == <<devices, pendingDevices, request, mislisted>>
connVars == <<ws, opened, alive, timer, stopped, status>>
netVars == <<link, up, down>>
hubVars == <<registered, hubPolicy, online, revisions>>
bounds == <<slow, refused, faults, wakes, changes, moves, events>>
vars == <<connVars, policyVars, listVars, netVars, hubVars, bounds>>

None == [kind |-> "none"]
Pending(p, n, k) == [kind |-> "pending", policy |-> p, revision |-> n, attempts |-> k]
Asked == [kind |-> "asked"]
List(S) == [kind |-> "list", devices |-> S]
\* The hub has answered, and a newer list has come on the connection since.
Outrun(q) == IF q \in {None, Asked} THEN q ELSE [q EXCEPT !.kind = "outrun"]

PolicyMessage(p, n) == [policy |-> p, revision |-> n]
ConfigMessage == [type |-> "hub.config"]
DevicesMessage(S) == [type |-> "hub.devices", devices |-> S]
AckMessage(n) == [type |-> "hub.receiver-policy-updated", revision |-> n]   \* 0: none
UpdateMessage(p) == [type |-> "clipboard.update", filtered |-> p]

Init ==
    /\ ws = NoSocket /\ opened = FALSE /\ alive = FALSE /\ timer = FALSE
    /\ stopped = FALSE /\ status = "starting" /\ ready = FALSE
    /\ wanted \in Policies
    /\ desired = NoPolicy /\ pending = None /\ acknowledged = NoPolicy
    /\ revision = 0 /\ supported = "unknown"
    /\ devices = {} /\ pendingDevices = None /\ request = None /\ mislisted = FALSE
    /\ link = [s \in Sockets |-> "none"]
    /\ up = [s \in Sockets |-> <<>>] /\ down = [s \in Sockets |-> <<>>]
    /\ registered = {} /\ hubPolicy = [s \in Sockets |-> NoPolicy]
    /\ online \in SUBSET Peers /\ revisions \in BOOLEAN
    /\ slow = 0 /\ refused = 0 /\ faults = 0 /\ wakes = 0 /\ changes = 0
    /\ moves = 0 /\ events = 0

-----------------------------------------------------------------------------
(* Connecting and leaving.                                                  *)

\* Mutant: what the old connection acknowledged is taken to hold on the next.
RetireKeepsAcknowledged ==
    /\ desired' = NoPolicy /\ pending' = None /\ supported' = "unknown"
    /\ request' = None /\ opened' = FALSE
    /\ UNCHANGED <<acknowledged, wanted, revision, registered, hubPolicy, online, revisions>>

\* retireConnection, but for the socket: see Dropped.
Retire ==
    /\ desired' = NoPolicy /\ pending' = None /\ acknowledged' = NoPolicy
    /\ supported' = "unknown" /\ request' = None /\ opened' = FALSE
    /\ UNCHANGED <<wanted, revision, registered, hubPolicy, online, revisions>>

\* The links once the current socket is closed; what the abandoned connection
\* still tells the hub changes nothing for this client (Hub has that part).
Dropped == IF ws = NoSocket THEN link
           ELSE [link EXCEPT ![ws] = IF @ = "replaced" THEN @ ELSE "cut"]
UpDropped == IF ws = NoSocket THEN up ELSE [up EXCEPT ![ws] = <<>>]

\* connect(), which starts by retiring what there was.
Connect ==
    IF stopped
    THEN /\ Retire /\ ws' = NoSocket /\ link' = Dropped /\ up' = UpDropped
         /\ UNCHANGED <<ready, pendingDevices, down>>
    ELSE \E s \in Sockets :
         /\ link[s] = "none"
         /\ Retire /\ ws' = s
         /\ link' = [Dropped EXCEPT ![s] = "opening"] /\ up' = UpDropped
         /\ ready' = FALSE /\ pendingDevices' = None
         /\ UNCHANGED down

\* start(), when the application comes up or has changed the address.
Start ==
    /\ ws = NoSocket /\ ~timer /\ (stopped \/ status = "starting")
    /\ stopped' = FALSE /\ timer' = FALSE
    /\ \E s \in Sockets :
         /\ link[s] = "none" /\ ws' = s /\ link' = [link EXCEPT ![s] = "opening"]
    /\ Retire /\ ready' = FALSE /\ pendingDevices' = None
    /\ UNCHANGED <<alive, status, devices, mislisted, up, down, bounds>>

\* stop(), for a change of the hub's address, token or device.
Stop ==
    /\ ~stopped /\ wakes < MaxWakes /\ wakes' = wakes + 1
    /\ stopped' = TRUE /\ timer' = FALSE
    /\ Retire /\ ws' = NoSocket /\ link' = Dropped /\ up' = UpDropped
    /\ UNCHANGED <<alive, status, ready, devices, mislisted, pendingDevices, down,
                   slow, refused, faults, changes, moves, events>>

\* reconnectNow(), when the computer wakes up.
ReconnectNow ==
    /\ wakes < MaxWakes /\ wakes' = wakes + 1 /\ status # "starting"
    /\ timer' = FALSE /\ Connect
    /\ UNCHANGED <<alive, stopped, status, devices, mislisted,
                   slow, refused, faults, changes, moves, events>>

\* The reconnect timer.
Reconnect ==
    /\ timer /\ timer' = FALSE /\ Connect
    /\ UNCHANGED <<alive, stopped, status, devices, mislisted, bounds>>

\* The close event.  That of a connection the client has left says nothing.
Closed(s) ==
    /\ link[s] \in {"cut", "replaced"}
    /\ link' = [link EXCEPT ![s] = "none"]
    /\ down' = [down EXCEPT ![s] = <<>>] /\ up' = [up EXCEPT ![s] = <<>>]
    /\ registered' = registered \ {s}
    /\ hubPolicy' = [hubPolicy EXCEPT ![s] = NoPolicy]
    /\ IF s = ws /\ ~stopped
       THEN /\ desired' = NoPolicy /\ pending' = None /\ acknowledged' = NoPolicy
            /\ supported' = "unknown" /\ request' = None /\ opened' = FALSE
            /\ ws' = NoSocket /\ timer' = TRUE
            /\ status' = IF link[s] = "replaced" THEN "duplicate-device" ELSE "disconnected"
       ELSE UNCHANGED <<desired, pending, acknowledged, supported, request, opened,
                        ws, timer, status>>
    /\ UNCHANGED <<alive, stopped, ready, wanted, revision, devices, mislisted,
                   pendingDevices, online, revisions, bounds>>

-----------------------------------------------------------------------------
(* The policy handshake.                                                    *)

Send(s, m) == up' = IF link'[s] = "open" THEN [up EXCEPT ![s] = Append(@, m)] ELSE up

\* flushReceiverPolicy, for the policy p desired by now, with n of the policies
\* numbered so far.
Flush(p, busy, known, s) ==
    /\ desired' = p
    /\ IF busy # None \/ p = known
       THEN pending' = busy /\ UNCHANGED <<revision, up>>
       ELSE /\ revision' = revision + 1
            /\ pending' = Pending(p, revision + 1, 1)
            /\ Send(s, PolicyMessage(p, revision + 1))

\* The open event: sendReceiverPolicy.
Opens(s) ==
    /\ link[s] = "accepted" /\ s = ws
    /\ link' = [link EXCEPT ![s] = "open"]
    /\ opened' = TRUE /\ alive' = TRUE
    /\ Flush(wanted, pending, acknowledged, s)
    /\ UNCHANGED <<ws, timer, stopped, status, ready, wanted, acknowledged, supported,
                   listVars, down, hubVars, bounds>>

\* The settings change (applySettingsPatch, or rules merged for new devices),
\* and sendReceiverPolicy with them.
ChangeSettings(p) ==
    /\ changes < MaxChanges /\ changes' = changes + 1
    /\ p # wanted /\ wanted' = p /\ UNCHANGED link
    /\ IF opened THEN Flush(p, pending, acknowledged, ws)
       ELSE UNCHANGED <<desired, pending, revision, up>>
    /\ UNCHANGED <<connVars, ready, acknowledged, supported, listVars, down,
                   hubVars, slow, refused, faults, wakes, moves, events>>

Exhausted == supported # "yes" \/ pending.attempts >= MaxAttempts

\* policyTimer: once more, or give the connection up.  (On one that is cut
\* already the close event comes first.)
PolicyTimeout ==
    /\ pending # None /\ link[ws] \in {"open", "dead"}
    /\ \/ link[ws] = "dead" /\ UNCHANGED slow
       \/ up[ws] = <<>> /\ down[ws] = <<>> /\ UNCHANGED slow
       \/ slow < MaxSlow /\ slow' = slow + 1
    /\ IF Exhausted
       THEN /\ link' = [link EXCEPT ![ws] = "cut"]
            /\ status' = "connection-error"
            /\ UNCHANGED <<pending, up>>
       ELSE /\ pending' = [pending EXCEPT !.attempts = @ + 1]
            /\ UNCHANGED <<link, status>>
            /\ Send(ws, PolicyMessage(pending.policy, pending.revision))
    /\ UNCHANGED <<ws, opened, alive, timer, stopped, ready, wanted, desired,
                   acknowledged, revision, supported, listVars, down, hubVars,
                   refused, faults, wakes, changes, moves, events>>

\* Mutant: an acknowledgement is taken for the pending policy, whatever its revision.
AnswersAny(n) == pending # None

\* handleReceiverPolicyUpdated: is this acknowledgement for the pending policy?
Answers(n) ==
    /\ pending # None
    /\ IF n = 0 THEN supported # "yes" ELSE n = pending.revision

\* The rest of it: the next policy, if the settings have changed meanwhile;
\* else the client is connected, and asks for the devices the first time.
Acknowledged(n) ==
    /\ supported' = IF n = 0 THEN supported ELSE "yes"
    /\ acknowledged' = pending.policy
    /\ Flush(desired, None, pending.policy, ws)
    /\ IF desired # pending.policy \/ ready
       THEN UNCHANGED <<ready, status, listVars>>
       ELSE /\ ready' = TRUE /\ status' = "connected"
            /\ IF pendingDevices = None THEN UNCHANGED <<devices, mislisted>>
               ELSE devices' = pendingDevices.devices /\ mislisted' = FALSE
            /\ pendingDevices' = None
            /\ request' = Asked

\* Mutant: a message of a connection left before is handled like any other.
HeardAny(s) == ws # NoSocket

Heard(s) == s = ws

\* The message event.
Receive(s) ==
    /\ down[s] # <<>> /\ link[s] \in {"open", "cut", "replaced"}
    /\ down' = [down EXCEPT ![s] = Tail(@)] /\ UNCHANGED link
    /\ LET m == Head(down[s])
       IN  CASE ~Heard(s) -> UNCHANGED <<policyVars, listVars, status, up>>
             [] Heard(s) /\ m.type = "hub.config" ->
                  /\ supported' = IF revisions THEN "yes" ELSE "no"
                  /\ UNCHANGED <<ready, wanted, desired, pending, acknowledged, revision,
                                 listVars, status, up>>
             [] Heard(s) /\ m.type = "hub.devices" ->
                  /\ IF ready
                     THEN /\ devices' = m.devices /\ mislisted' = FALSE
                          /\ request' = Outrun(request) /\ UNCHANGED pendingDevices
                     ELSE /\ pendingDevices' = List(m.devices)
                          /\ UNCHANGED <<devices, request, mislisted>>
                  /\ UNCHANGED <<policyVars, status, up>>
             [] Heard(s) /\ m.type = "hub.receiver-policy-updated" ->
                  IF Answers(m.revision) THEN Acknowledged(m.revision) /\ UNCHANGED wanted
                  ELSE UNCHANGED <<policyVars, listVars, status, up>>
             [] OTHER -> UNCHANGED <<policyVars, listVars, status, up>>
    /\ UNCHANGED <<ws, opened, alive, timer, stopped, hubVars, bounds>>

\* The heartbeat: a connection whose last ping was not answered is given up.
\* On one that works the pong is back before the next heartbeat.
Heartbeat ==
    /\ opened /\ link[ws] = "dead"
    /\ alive' = FALSE
    /\ link' = IF alive THEN link ELSE [link EXCEPT ![ws] = "cut"]
    /\ UNCHANGED <<ws, opened, timer, stopped, status, policyVars, listVars, up, down,
                   hubVars, bounds>>

-----------------------------------------------------------------------------
(* The list of devices by HTTP.                                             *)

\* The hub answers GET /v1/devices.
AnswerDevices ==
    /\ request = Asked /\ request' = List(online)
    /\ UNCHANGED <<connVars, policyVars, devices, pendingDevices, mislisted, netVars, hubVars,
                   bounds>>

\* refreshDevices goes on with the answer, or fails.
DevicesAnswered ==
    /\ request # None /\ request' = None
    /\ \/ /\ request # Asked /\ devices' = request.devices
          /\ mislisted' = (request.kind = "outrun" /\ request.devices # devices)
       \/ UNCHANGED <<devices, mislisted>>
    /\ UNCHANGED <<connVars, policyVars, pendingDevices, netVars, hubVars, bounds>>

-----------------------------------------------------------------------------
(* The hub, and the network.                                                *)

Live(s) == link[s] \in {"accepted", "open"}

\* register(), and the broadcast it ends with.
Registered(s, msgs) ==
    /\ registered' = registered \cup {s}
    /\ down' = [down EXCEPT ![s] = @ \o msgs \o
                  (IF s \in registered THEN <<>> ELSE <<DevicesMessage(online)>>)]

\* The upgrade: the configuration, and the registration unless another
\* connection of the device must be replaced.
Accept(s, atOnce) ==
    /\ link[s] = "opening" /\ link' = [link EXCEPT ![s] = "accepted"]
    /\ IF atOnce THEN Registered(s, <<ConfigMessage>>)
       ELSE /\ down' = [down EXCEPT ![s] = Append(@, ConfigMessage)]
            /\ UNCHANGED registered
    /\ UNCHANGED <<connVars, policyVars, listVars, up, hubPolicy, online, revisions, bounds>>

\* The pong of a connection that had to prove itself.
Prove(s) ==
    /\ link[s] = "open" /\ s \notin registered /\ Registered(s, <<>>)
    /\ UNCHANGED <<connVars, policyVars, listVars, link, up, hubPolicy, online,
                   revisions, bounds>>

\* A policy message: taken and acknowledged, or refused by the rate limit.
TakePolicy(s) ==
    /\ up[s] # <<>> /\ up' = [up EXCEPT ![s] = Tail(@)]
    /\ LET m == Head(up[s])
       IN  \/ /\ hubPolicy' = [hubPolicy EXCEPT ![s] = m.policy]
              /\ registered' = registered \cup {s}
              /\ down' = [down EXCEPT ![s] =
                   @ \o (IF s \in registered THEN <<>> ELSE <<DevicesMessage(online)>>)
                     \o <<AckMessage(IF revisions THEN m.revision ELSE 0)>>]
              /\ UNCHANGED refused
           \/ /\ refused < MaxRefused /\ refused' = refused + 1
              /\ Registered(s, <<>>) /\ UNCHANGED hubPolicy
    /\ UNCHANGED <<connVars, policyVars, listVars, link, online, revisions,
                   slow, faults, wakes, changes, moves, events>>

\* A clipboard event the policy lets through.
SendEvent(s) ==
    /\ s \in registered /\ Live(s) /\ events < MaxEvents /\ events' = events + 1
    /\ down' = [down EXCEPT ![s] = Append(@, UpdateMessage(hubPolicy[s]))]
    /\ UNCHANGED <<connVars, policyVars, listVars, link, up, hubVars,
                   slow, refused, faults, wakes, changes, moves>>

\* Another device comes or goes: broadcastDevices.
Move(d) ==
    /\ moves < MaxMoves /\ moves' = moves + 1
    /\ online' = IF d \in online THEN online \ {d} ELSE online \cup {d}
    /\ down' = [s \in Sockets |-> IF s \in registered /\ Live(s)
                                  THEN Append(down[s], DevicesMessage(online')) ELSE down[s]]
    /\ UNCHANGED <<connVars, policyVars, listVars, link, up, registered, hubPolicy,
                   revisions, slow, refused, faults, wakes, changes, events>>

\* A handshake fails; an open connection is cut, replaced by the hub, or goes
\* dead without a word.
Fail(s) ==
    /\ faults < MaxFaults /\ faults' = faults + 1
    /\ \/ link[s] \in {"opening", "accepted"} /\ link' = [link EXCEPT ![s] = "cut"]
          /\ UNCHANGED down
       \/ link[s] = "open" /\ link' = [link EXCEPT ![s] = "cut"] /\ UNCHANGED down
       \/ link[s] = "open" /\ link' = [link EXCEPT ![s] = "replaced"] /\ UNCHANGED down
       \/ link[s] = "open" /\ link' = [link EXCEPT ![s] = "dead"]
          /\ down' = [down EXCEPT ![s] = <<>>]
    /\ up' = [up EXCEPT ![s] = <<>>]
    /\ UNCHANGED <<connVars, policyVars, listVars, hubVars,
                   slow, refused, wakes, changes, moves, events>>

-----------------------------------------------------------------------------
\* What ends without a new fault or a new wish of the user.
Work ==
    \/ Start \/ Reconnect \/ PolicyTimeout \/ Heartbeat
    \/ AnswerDevices \/ DevicesAnswered
    \/ \E s \in Sockets :
         \/ Closed(s) \/ Opens(s) \/ Receive(s) \/ Prove(s) \/ TakePolicy(s)
         \/ \E atOnce \in BOOLEAN : Accept(s, atOnce)

Next ==
    \/ Work \/ Stop \/ ReconnectNow
    \/ \E p \in Policies : ChangeSettings(p)
    \/ \E d \in Peers : Move(d)
    \/ \E s \in Sockets : SendEvent(s) \/ Fail(s)

Spec == Init /\ [][Next]_vars

\* Timers fire, the hub answers, and what is underway on a connection that
\* works arrives: Work cannot be put off for ever while one of its steps can be
\* taken, and it is finite between two steps of the rest.
FairSpec == Spec /\ WF_vars(Work)

-----------------------------------------------------------------------------
(* Properties.                                                              *)

\* The client tells its user it is connected, and waits for no answer.
Settled == opened /\ ready /\ pending = None

\* Once the client is settled, the hub filters its connection with the policy
\* the settings ask for now, however many times they changed during the
\* handshake, and whatever was sent twice, refused, answered late or said on an
\* earlier connection (handleReceiverPolicyUpdated).
EnforcedWhenReady == Settled => hubPolicy[ws] = wanted

\* And every clipboard event still to arrive has been filtered with it: none
\* that an earlier policy let through follows the acknowledgement.
FilteredOnceSettled ==
    Settled => \A i \in DOMAIN down[ws] :
                  down[ws][i].type = "clipboard.update" => down[ws][i].filtered = wanted

\* Faults, refusals and wake-ups over, a client that is not stopped is connected
\* for good, says so, and the hub has its policy; and its user sees the devices
\* that are there ("Windows 客户端的设备列表里出现这台 Mac",
\* src/mac-native/README.md:75), unless the answer of refreshDevices came last and
\* was outrun by a newer list.
BecomesConnected ==
    <>[](/\ ~stopped /\ Settled /\ status = "connected"
         /\ link[ws] = "open" /\ hubPolicy[ws] = wanted
         /\ (mislisted \/ devices = online))
=============================================================================
