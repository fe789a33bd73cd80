-------------------------------- MODULE Hub ---------------------------------
(***************************************************************************)
(* The hub's server (src/server.js): who is connected, on which connection *)
(* a device is registered, what each device refuses to receive, and the    *)
(* handlers that wait for the store before they broadcast.  A handler runs *)
(* without interruption up to store.append or store.clear; the store       *)
(* settles these calls in the order they were made, and what follows the   *)
(* await runs before another call settles.  The store itself is EventStore;*)
(* here a call is stored, known already, or refused.                       *)
(***************************************************************************)
EXTENDS Naturals, Sequences, FiniteSets

CONSTANTS
    Devices,
    Conns,          \* the connections clients open
    Device,         \* the device a connection is opened for
    Keys,           \* clientEventIds
    Policies,       \* sets of devices a receiver may refuse events from
    Targets,        \* sets of devices an event may be meant for
    NoConn,         \* no connection
    MaxQueued,      \* maxQueuedEntries
    MaxEvents,      \* bound: events stored
    MaxClears       \* bound: clears asked for

ASSUME HubAssumption ==
    /\ Device \in [Conns -> Devices]
    /\ NoConn \notin Conns
    /\ Policies \subseteq SUBSET Devices /\ {} \in Policies
    /\ Targets \subseteq SUBSET Devices
    /\ {MaxQueued, MaxEvents, MaxClears} \subseteq Nat

\* An event without targetDeviceIds is one for every device.
Events == [source : Devices, key : Keys, targets : Targets]

VARIABLES
    socket,         \* readyState: "unused", "open", "closing", "closed"; the close
                    \* event of a closing socket has not been handled yet
    gone,           \* connections whose client is not there any more, so that
                    \* nothing arrives on them, not even a pong or a close
    registered,     \* the registered flag of a connection's handlers
    alive,          \* ws.isAlive
    proving,        \* pendingClients, each with its proof timer
    clients,        \* the keys of the clients map
    policy,         \* receiverPolicy of the entries of clients
    byDevice,       \* clientsByDeviceId
    remembered,     \* receiverPoliciesByDeviceId
    waiting,        \* the store calls that have not settled, oldest first
    queuedEntries,
    log,            \* every event stored so far; an event's sequence is its index
    history,        \* the sequences of those no clear has removed
    view,           \* per connection, the sequences shown since it was last told
                    \* that the history was cleared
    shown,          \* per connection, the devices of the last hub.devices sent
    granted,        \* history: the policy last taken from a connection
    clears          \* counter of the bound

sockets == <<socket, gone, alive>>
registry == <<registered, proving, clients, byDevice, shown>>
store == <<waiting, queuedEntries, log, history, view, clears>>
vars == <<sockets, registry, policy, remembered, store, granted>>

-----------------------------------------------------------------------------
(* Helpers.                                                                *)

Open(c) == socket[c] = "open"

\* receiverAllowsEvent
Allows(blocked, e, d) == e.source = d \/ e.source \notin blocked

\* shouldReceiveLiveEvent, for the peers the broadcast finds in clients.
Receives(c, e, sender) ==
    \/ c = sender
    \/ Device[c] \in e.targets /\ Allows(policy[c], e, Device[c])

\* Mutant: an event is for its targets only.
SeesIfTarget(d, e, p) == d \in e.targets /\ Allows(p, e, d)

\* shouldSeeHistoryEvent
Sees(d, e, p) == e.source = d \/ (d \in e.targets /\ Allows(p, e, d))

\* receiverPolicyForDevice
PolicyFor(d) ==
    IF byDevice[d] \in clients THEN policy[byDevice[d]] ELSE remembered[d]

\* What GET /v1/history shows a device.
HistoryFor(d) == {n \in history : Sees(d, log[n], PolicyFor(d))}

Known(e) == \E n \in DOMAIN log : log[n].source = e.source /\ log[n].key = e.key

\* Mutant: the list is taken before the clients change.
BroadcastDevicesBefore ==
    shown' = [c \in Conns |-> IF c \in clients' /\ socket'[c] = "open"
                              THEN {Device[x] : x \in clients} ELSE {}]

\* broadcastDevices
BroadcastDevices ==
    shown' = [c \in Conns |-> IF c \in clients' /\ socket'[c] = "open"
                              THEN {Device[x] : x \in clients'} ELSE {}]

\* register(), called by the handlers of a connection: a live connection of the
\* same device is closed and replaced.
Register(c) ==
    LET old == byDevice[Device[c]]
    IN  /\ registered' = registered \cup {c}
        /\ proving' = proving \ {c}
        /\ clients' = (clients \ {old}) \cup {c}
        /\ socket' = [x \in Conns |-> CASE x = c -> "open"
                                        [] x = old /\ Open(x) -> "closing"
                                        [] OTHER -> socket[x]]
        /\ byDevice' = [byDevice EXCEPT ![Device[c]] = c]
        /\ BroadcastDevices

\* Mutant: a message registers its connection again.
RegistersAgain(c) == Open(c)

Registers(c) == c \notin registered /\ Open(c)

\* What every message and pong does first.  A policy from an earlier connection
\* of the device is not taken over.
RegisterOnce(c) ==
    IF Registers(c) THEN Register(c) ELSE UNCHANGED <<registry, socket>>

PolicyOnce(c) == IF Registers(c) THEN {} ELSE policy[c]

Init ==
    /\ socket = [c \in Conns |-> "unused"] /\ gone = {} /\ alive = {}
    /\ registered = {} /\ proving = {} /\ clients = {}
    /\ policy = [c \in Conns |-> {}]
    /\ byDevice = [d \in Devices |-> NoConn]
    /\ shown = [c \in Conns |-> {}]
    /\ remembered = [d \in Devices |-> {}]
    /\ waiting = <<>> /\ queuedEntries = 0
    /\ log = <<>> /\ history = {} /\ view = [c \in Conns |-> {}]
    /\ granted = [c \in Conns |-> {}] /\ clears = 0

-----------------------------------------------------------------------------
(* Connections.                                                             *)

\* Mutant: the newest connection of a device replaces the others at once.
ConnectAtOnce(c, abandoned) ==
    /\ socket[c] = "unused"
    /\ alive' = alive \cup {c}
    /\ gone' = IF abandoned THEN gone \cup {c} ELSE gone
    /\ Register(c)
    /\ UNCHANGED <<policy, remembered, store, granted>>

\* The upgrade of a connection, which its client may have given up already.  A
\* device that has a connection must prove the new one alive.
Connect(c, abandoned) ==
    /\ socket[c] = "unused"
    /\ alive' = alive \cup {c}
    /\ gone' = IF abandoned THEN gone \cup {c} ELSE gone
    /\ IF byDevice[Device[c]] = NoConn THEN Register(c)
       ELSE /\ socket' = [socket EXCEPT ![c] = "open"]
            /\ proving' = proving \cup {c}
            /\ UNCHANGED <<registered, clients, byDevice, shown>>
    /\ UNCHANGED <<policy, remembered, store, granted>>

\* The client is cut off or frozen without a close reaching the hub.
Vanish(c) ==
    /\ Open(c) /\ c \notin gone
    /\ gone' = gone \cup {c}
    /\ UNCHANGED <<socket, alive, registry, policy, remembered, store, granted>>

\* The client closes, the socket fails, or its buffer is over the limit when
\* the hub sends.
Drop(c) ==
    /\ Open(c)
    /\ socket' = [socket EXCEPT ![c] = "closing"]
    /\ UNCHANGED <<gone, alive, registry, policy, remembered, store, granted>>

ProofExpires(c) ==
    /\ c \in proving /\ Open(c)
    /\ socket' = [socket EXCEPT ![c] = "closing"]
    /\ UNCHANGED <<gone, alive, registry, policy, remembered, store, granted>>

\* Nothing is kept of a connection that closed.
Discard(c) ==
    /\ socket' = [socket EXCEPT ![c] = "closed"]
    /\ gone' = gone \ {c} /\ alive' = alive \ {c}
    /\ policy' = [policy EXCEPT ![c] = {}]
    /\ granted' = [granted EXCEPT ![c] = {}]
    /\ view' = [view EXCEPT ![c] = {}]
    /\ UNCHANGED <<registered, remembered, waiting, queuedEntries, log, history, clears>>

\* Mutant: the device's mapping goes, whichever connection it names.
OnCloseAny(c) ==
    /\ socket[c] = "closing"
    /\ Discard(c)
    /\ proving' = proving \ {c}
    /\ IF c \in registered
       THEN /\ clients' = clients \ {c}
            /\ byDevice' = [byDevice EXCEPT ![Device[c]] = NoConn]
            /\ BroadcastDevices
       ELSE UNCHANGED <<clients, byDevice, shown>>

OnClose(c) ==
    /\ socket[c] = "closing"
    /\ Discard(c)
    /\ proving' = proving \ {c}
    /\ IF c \in registered
       THEN /\ clients' = clients \ {c}
            /\ byDevice' = [d \in Devices |-> IF byDevice[d] = c THEN NoConn ELSE byDevice[d]]
            /\ BroadcastDevices
       ELSE UNCHANGED <<clients, byDevice, shown>>

\* Mutant: a ping does not ask for an answer.
HeartbeatForgiving ==
    /\ socket' = [c \in Conns |-> IF c \in clients \ alive /\ Open(c) THEN "closing" ELSE socket[c]]
    /\ UNCHANGED <<gone, alive, registry, policy, remembered, store, granted>>

\* The timer: clients that did not answer the last ping are terminated, the
\* others are pinged.
Heartbeat ==
    /\ socket' = [c \in Conns |-> IF c \in clients \ alive /\ Open(c) THEN "closing" ELSE socket[c]]
    /\ alive' = alive \ clients
    /\ UNCHANGED <<gone, registry, policy, remembered, store, granted>>

-----------------------------------------------------------------------------
(* What arrives on a connection.                                            *)

\* Frames sent before a close still arrive after the hub began closing.
Arrives(c) ==
    /\ socket[c] \in {"open", "closing"} /\ c \notin gone
    /\ RegisterOnce(c)

Pong(c) ==
    /\ Arrives(c)
    /\ alive' = alive \cup {c}
    /\ policy' = [policy EXCEPT ![c] = PolicyOnce(c)]
    /\ UNCHANGED <<gone, remembered, store, granted>>

\* A message refused at once: malformed, too large, or the queue is full.
RefuseMessage(c) ==
    /\ Arrives(c)
    /\ policy' = [policy EXCEPT ![c] = PolicyOnce(c)]
    /\ UNCHANGED <<gone, alive, remembered, store, granted>>

\* client.receiver-policy, within the rate limit: kept for the connection and
\* for the device, then acknowledged.
ApplyPolicy(c, p) ==
    /\ Arrives(c)
    /\ c \in clients'
    /\ policy' = [policy EXCEPT ![c] = p]
    /\ remembered' = [remembered EXCEPT ![Device[c]] = p]
    /\ granted' = [granted EXCEPT ![c] = p]
    /\ UNCHANGED <<gone, alive, store>>

\* clipboard.event: the handler waits for the store.
ReceiveEvent(c, e) ==
    /\ e.source = Device[c]
    /\ Arrives(c)
    /\ c \in clients'
    /\ queuedEntries < MaxQueued /\ queuedEntries' = queuedEntries + 1
    /\ waiting' = Append(waiting, [op |-> "append", conn |-> c, event |-> e])
    /\ policy' = [policy EXCEPT ![c] = PolicyOnce(c)]
    /\ UNCHANGED <<gone, alive, remembered, log, history, view, clears, granted>>

\* DELETE /v1/history
RequestClear ==
    /\ clears < MaxClears /\ clears' = clears + 1
    /\ waiting' = Append(waiting, [op |-> "clear"])
    /\ UNCHANGED <<sockets, registry, policy, remembered, queuedEntries, log, history, view, granted>>

-----------------------------------------------------------------------------
(* The store settles the oldest call.                                       *)

Settles(op) ==
    /\ waiting # <<>> /\ Head(waiting).op = op
    /\ waiting' = Tail(waiting)
    /\ UNCHANGED <<sockets, registry, policy, remembered, clears, granted>>

EndEntry == queuedEntries' = queuedEntries - 1

\* The event is stored and goes to every client that may have it now, to its
\* sender first of all; not to connections that are closing.
Broadcast ==
    /\ Settles("append") /\ EndEntry
    /\ LET e == Head(waiting).event
           n == Len(log) + 1
       IN  /\ ~Known(e)
           /\ Len(log) < MaxEvents
           /\ log' = Append(log, e)
           /\ history' = history \cup {n}
           /\ view' = [c \in Conns |->
                          IF c \in clients /\ Open(c) /\ Receives(c, e, Head(waiting).conn)
                          THEN view[c] \cup {n} ELSE view[c]]

\* Mutant: the early return does not give the entry back.
AnswerDuplicateLeaking ==
    /\ Settles("append")
    /\ Known(Head(waiting).event)
    /\ UNCHANGED <<queuedEntries, log, history, view>>

AnswerDuplicate ==
    /\ Settles("append") /\ EndEntry
    /\ Known(Head(waiting).event)
    /\ UNCHANGED <<log, history, view>>

RefuseEvent ==
    /\ Settles("append") /\ EndEntry
    /\ UNCHANGED <<log, history, view>>

\* Mutant: the clients are not told.
ClearHistoryUntold ==
    /\ Settles("clear")
    /\ history' = {}
    /\ UNCHANGED <<queuedEntries, log, view>>

ClearHistory ==
    /\ Settles("clear")
    /\ history' = {}
    /\ view' = [c \in Conns |-> IF c \in clients /\ Open(c) THEN {} ELSE view[c]]
    /\ UNCHANGED <<queuedEntries, log>>

ClearFails ==
    /\ Settles("clear")
    /\ UNCHANGED <<queuedEntries, log, history, view>>

Next ==
    \/ \E c \in Conns :
          \/ \E abandoned \in BOOLEAN : Connect(c, abandoned)
          \/ Vanish(c) \/ Drop(c) \/ ProofExpires(c) \/ OnClose(c)
          \/ Pong(c) \/ RefuseMessage(c)
          \/ \E p \in Policies : ApplyPolicy(c, p)
          \/ \E e \in Events : ReceiveEvent(c, e)
    \/ Heartbeat
    \/ RequestClear
    \/ Broadcast \/ AnswerDuplicate \/ RefuseEvent \/ ClearHistory \/ ClearFails

Spec == Init /\ [][Next]_vars

\* The timers fire, and a socket the hub began to close is closed.
Fairness ==
    /\ WF_vars(Heartbeat)
    /\ \A c \in Conns : WF_vars(ProofExpires(c)) /\ WF_vars(OnClose(c))

FairSpec == Spec /\ Fairness

-----------------------------------------------------------------------------
(* Properties.                                                              *)

Sockets == {"unused", "open", "closing", "closed"}

\* A store call that has not settled, of the handler that waits for it.
Calls == [op : {"append"}, conn : Conns, event : Events] \cup [op : {"clear"}]

\* The variables have the types the code gives them.
TypeOK ==
    /\ socket \in [Conns -> Sockets]
    /\ gone \subseteq Conns /\ alive \subseteq Conns
    /\ registered \subseteq Conns /\ proving \subseteq Conns /\ clients \subseteq Conns
    /\ policy \in [Conns -> SUBSET Devices]
    /\ byDevice \in [Devices -> Conns \cup {NoConn}]
    /\ shown \in [Conns -> SUBSET Devices]
    /\ remembered \in [Devices -> SUBSET Devices]
    /\ waiting \in Seq(Calls)
    /\ queuedEntries \in Nat
    /\ log \in Seq(Events)
    /\ history \subseteq DOMAIN log
    /\ view \in [Conns -> SUBSET Nat]
    /\ granted \in [Conns -> SUBSET Devices]
    /\ clears \in Nat

\* clientsByDeviceId names exactly the clients: at most one connection for each
\* device, and none left without its mapping by the close of another.
RegistryConsistent ==
    /\ \A c \in clients : byDevice[Device[c]] = c
    /\ \A d \in Devices : byDevice[d] # NoConn => byDevice[d] \in clients /\ Device[byDevice[d]] = d

\* A stale handshake cannot evict the current connection of a device: a client
\* leaves because its own socket closes or because the client of the connection
\* that takes its place is there.
StaleNeverEvicts ==
    [][\A c \in clients \ clients' :
          socket[c] = "closing" \/ byDevice'[Device[c]] \notin gone']_vars

\* An event is not sent on a connection that refuses its source, however long
\* the event waited for the store and whatever arrived meanwhile.
RefusedNeverSent ==
    [][\A c \in Conns : \A n \in view'[c] \ view[c] :
          log'[n].source = Device[c] \/ log'[n].source \notin granted[c]]_vars

\* What a client is sent live it finds in the history it may read.
LiveIsInHistory == [][\A c \in Conns : view'[c] \ view[c] \subseteq HistoryFor(Device[c])']_vars

\* The devices a client was told of last are those that are connected now.
DevicesFresh == \A c \in clients : Open(c) => shown[c] = {Device[x] : x \in clients}

\* A client that was told of every event and every clear shows nothing that the
\* history does not hold any more, in whatever order appends and clears settle.
ClearedIsGone == \A c \in clients : Open(c) => view[c] \subseteq history

\* The admission counter counts the appends that wait, on every path out of the
\* handler: it neither leaks nor lets more in than the limit.
Appends(w) == {i \in DOMAIN w : w[i].op = "append"}

QueueExact ==
    queuedEntries = Cardinality(Appends(waiting)) /\ queuedEntries <= MaxQueued

\* A connection does not stay pending.
ProofsEnd == \A c \in Conns : c \in proving ~> c \notin proving

\* A device is not kept on a connection whose client is gone.
GhostsLeave == \A d \in Devices : byDevice[d] \in gone ~> byDevice[d] \notin gone

\* Neither is kept waiting for a connection that is dead (the proof's timer and the
\* heartbeat).
ConnectionsEnd == ProofsEnd /\ GhostsLeave

\* The inductive invariant behind the safety properties: what is known of the
\* connections that are, or may become, clients.
RegistryInv ==
    /\ RegistryConsistent
    /\ DevicesFresh
    /\ clients \subseteq registered
    /\ \A c \in clients : socket[c] \in {"open", "closing"}
    /\ \A c \in registered : socket[c] # "unused"

ViewInv ==
    /\ ClearedIsGone
    /\ \A c \in Conns \ clients : socket[c] \in {"unused", "open"} => view[c] = {}

PolicyInv ==
    /\ \A c \in clients : granted[c] = policy[c]
    /\ \A c \in Conns \ registered : granted[c] = {} /\ policy[c] = {}

QueueInv ==
    /\ QueueExact
    /\ \A i \in Appends(waiting) : waiting[i].event.source = Device[waiting[i].conn]

IInv == RegistryInv /\ ViewInv /\ PolicyInv /\ QueueInv
=============================================================================
