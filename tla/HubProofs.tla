------------------------------ MODULE HubProofs -----------------------------
(***************************************************************************)
(* Proofs about Hub for every set of devices, connections and events.      *)
(***************************************************************************)
EXTENDS Hub, FiniteSetTheorems, TLAPS

(***************************************************************************)
(* What a step does to the connections, and what it leaves alone.          *)
(***************************************************************************)

\* The handlers of a connection change the registry by registering it, or not
\* at all.
LEMMA ArrivesCases ==
  ASSUME NEW c \in Conns, Arrives(c)
  PROVE  \/ Registers(c) /\ Register(c) /\ socket[c] = "open"
         \/ ~Registers(c) /\ UNCHANGED <<registry, socket>>
  BY DEF Arrives, RegisterOnce, Registers, Open

\* The three ways a step may treat the registry.
Kept ==
    /\ UNCHANGED <<registered, clients, byDevice, shown>>
    /\ \A x \in Conns : \/ socket'[x] = socket[x]
                        \/ socket[x] = "open" /\ socket'[x] = "closing"
                        \/ socket[x] = "unused" /\ socket'[x] = "open"

\* Every step registers a connection, closes one, or keeps the clients.
LEMMA RegistryMoves ==
  ASSUME TypeOK, [Next]_vars
  PROVE  \/ \E c \in Conns : Register(c) /\ socket[c] \in {"unused", "open"}
         \/ \E c \in Conns : OnClose(c)
         \/ Kept
<1> USE DEF Kept
<1>1. CASE UNCHANGED vars
  BY <1>1 DEF vars, sockets, registry
<1>2. ASSUME NEW c \in Conns, NEW abandoned \in BOOLEAN, Connect(c, abandoned)
      PROVE  (Register(c) /\ socket[c] \in {"unused", "open"}) \/ Kept
  BY <1>2 DEF Connect, TypeOK
<1>3. ASSUME NEW c \in Conns, Vanish(c) \/ Drop(c) \/ ProofExpires(c)
      PROVE  Kept
  BY <1>3 DEF Vanish, Drop, ProofExpires, TypeOK, Open, registry
<1>4. ASSUME NEW c \in Conns, Arrives(c)
      PROVE  (Register(c) /\ socket[c] \in {"unused", "open"}) \/ Kept
  BY <1>4, ArrivesCases DEF registry
<1>5. CASE Heartbeat
  BY <1>5 DEF Heartbeat, TypeOK, Open, registry
<1>6. CASE RequestClear \/ Broadcast \/ AnswerDuplicate \/ RefuseEvent \/ ClearHistory \/ ClearFails
  BY <1>6 DEF RequestClear, Broadcast, AnswerDuplicate, RefuseEvent, ClearHistory, ClearFails,
              Settles, sockets, registry
<1> QED
  <2> HIDE DEF Kept
  <2> QED
    BY <1>1, <1>2, <1>3, <1>4, <1>5, <1>6
    DEF Next, Pong, RefuseMessage, ApplyPolicy, ReceiveEvent

(***************************************************************************)
(* The registry.                                                           *)
(***************************************************************************)

\* Registering a connection keeps the mapping exact and tells every client.
LEMMA RegisterRegistry ==
  ASSUME TypeOK, RegistryInv, NEW c \in Conns, Register(c), socket[c] \in {"unused", "open"}
  PROVE  RegistryInv'
<1> USE HubAssumption DEF TypeOK, RegistryInv
<1> DEFINE old == byDevice[Device[c]]
<1>1. Device[c] \in Devices
  OBVIOUS
<1>2. /\ clients' = (clients \ {old}) \cup {c}
      /\ byDevice' = [byDevice EXCEPT ![Device[c]] = c]
      /\ registered' = registered \cup {c}
      /\ socket' = [x \in Conns |-> CASE x = c -> "open"
                                      [] x = old /\ Open(x) -> "closing"
                                      [] OTHER -> socket[x]]
  BY DEF Register
<1>3. RegistryConsistent'
  <2>1. ASSUME NEW x \in clients'
        PROVE  byDevice'[Device[x]] = x
    BY <1>1, <1>2, <2>1 DEF RegistryConsistent
  <2>2. ASSUME NEW d \in Devices, byDevice'[d] # NoConn
        PROVE  byDevice'[d] \in clients' /\ Device[byDevice'[d]] = d
    <3>1. CASE d = Device[c]
      BY <1>2, <3>1
    <3>2. CASE d # Device[c]
      BY <1>1, <1>2, <2>2, <3>2 DEF RegistryConsistent
    <3> QED
      BY <3>1, <3>2
  <2> QED
    BY <2>1, <2>2 DEF RegistryConsistent
<1>4. DevicesFresh'
  <2>1. shown' = [x \in Conns |-> IF x \in clients' /\ socket'[x] = "open"
                                  THEN {Device[y] : y \in clients'} ELSE {}]
    BY DEF Register, BroadcastDevices
  <2>2. clients' \subseteq Conns
    BY <1>2
  <2> QED
    BY <2>1, <2>2, Zenon DEF DevicesFresh, Open
<1>5. \A x \in clients' : x \in registered' /\ socket'[x] \in {"open", "closing"}
  BY <1>2
<1>6. \A x \in registered' : socket'[x] # "unused"
  BY <1>2 DEF Open
<1> QED
  BY <1>3, <1>4, <1>5, <1>6

\* The close of a connection takes away its own entry and no other.
LEMMA OnCloseRegistry ==
  ASSUME TypeOK, RegistryInv, NEW c \in Conns, OnClose(c)
  PROVE  RegistryInv'
<1> USE HubAssumption DEF TypeOK, RegistryInv
<1>1. socket' = [socket EXCEPT ![c] = "closed"] /\ registered' = registered
  BY DEF OnClose, Discard
<1>2. CASE c \in registered
  <2>1. /\ clients' = clients \ {c}
        /\ byDevice' = [d \in Devices |-> IF byDevice[d] = c THEN NoConn ELSE byDevice[d]]
        /\ shown' = [x \in Conns |-> IF x \in clients' /\ socket'[x] = "open"
                                     THEN {Device[y] : y \in clients'} ELSE {}]
    BY <1>2 DEF OnClose, BroadcastDevices
  <2>2. RegistryConsistent'
    BY <2>1 DEF RegistryConsistent
  <2>3. DevicesFresh'
    BY <2>1, Zenon DEF DevicesFresh, Open
  <2> QED
    BY <1>1, <2>1, <2>2, <2>3
<1>3. CASE c \notin registered
  <2>1. UNCHANGED <<clients, byDevice, shown>>
    BY <1>3 DEF OnClose
  <2> QED
    BY <1>1, <1>3, <2>1 DEF RegistryConsistent, DevicesFresh, Open
<1> QED
  BY <1>2, <1>3

\* The registry stays consistent through every step.
LEMMA RegistryStep ==
  ASSUME TypeOK, RegistryInv, [Next]_vars
  PROVE  RegistryInv'
<1>1. CASE Kept
  BY <1>1 DEF Kept, TypeOK, RegistryInv, RegistryConsistent, DevicesFresh, Open
<1> QED
  BY <1>1, RegistryMoves, RegisterRegistry, OnCloseRegistry

(***************************************************************************)
(* What the clients are shown.                                             *)
(***************************************************************************)

\* A closing connection shows nothing any more to the properties; a newcomer has
\* been shown nothing yet.
LEMMA ViewStep ==
  ASSUME TypeOK, RegistryInv, ViewInv, [Next]_vars
  PROVE  ViewInv'
<1> USE HubAssumption DEF ViewInv, ClearedIsGone, Open
<1>1. clients \subseteq Conns
  BY DEF TypeOK
<1>2. \A x \in Conns : socket[x] \in {"unused", "open"} =>
         view[x] \subseteq history /\ (x \notin clients => view[x] = {})
  BY DEF RegistryInv
<1>3. ASSUME UNCHANGED <<view, history>>, NEW c \in Conns, Register(c), socket[c] \in {"unused", "open"}
      PROVE  ViewInv'
  <2>1. /\ clients' = (clients \ {byDevice[Device[c]]}) \cup {c}
        /\ socket' = [x \in Conns |-> CASE x = c -> "open"
                                        [] x = byDevice[Device[c]] /\ socket[x] = "open" -> "closing"
                                        [] OTHER -> socket[x]]
    BY <1>3 DEF Register
  <2>2. ASSUME NEW x \in Conns, socket'[x] = "open"
        PROVE  socket[x] \in {"unused", "open"}
    BY <1>3, <2>1, <2>2
  <2>3. ASSUME NEW x \in Conns \ clients', socket'[x] \in {"unused", "open"}
        PROVE  x \notin clients /\ socket[x] \in {"unused", "open"}
    BY <1>3, <2>1, <2>3 DEF RegistryInv
  <2>4. clients' \subseteq Conns
    BY <1>1, <2>1
  <2> QED
    BY <1>2, <1>3, <2>2, <2>3, <2>4
<1>4. ASSUME UNCHANGED <<view, history>>, Kept
      PROVE  ViewInv'
  BY <1>1, <1>2, <1>4 DEF Kept
<1>5. ASSUME NEW c \in Conns, OnClose(c)
      PROVE  ViewInv'
  <2>1. /\ socket' = [socket EXCEPT ![c] = "closed"]
        /\ view' = [view EXCEPT ![c] = {}]
        /\ history' = history
        /\ clients' \subseteq clients /\ clients \subseteq clients' \cup {c}
    BY <1>5 DEF OnClose, Discard
  <2> QED
    BY <1>1, <2>1 DEF TypeOK
<1>6. CASE Broadcast
  <2>1. PICK n : /\ history' = history \cup {n}
                 /\ \A x \in Conns : \/ view'[x] = view[x]
                                     \/ x \in clients /\ view'[x] = view[x] \cup {n}
                 /\ UNCHANGED <<socket, clients>>
    BY <1>6 DEF Broadcast, Settles, sockets, registry
  <2> QED
    BY <1>1, <2>1
<1>7. CASE ClearHistory
  <2>1. /\ \A x \in Conns : view'[x] = IF x \in clients /\ Open(x) THEN {} ELSE view[x]
        /\ UNCHANGED <<socket, clients>>
    BY <1>7 DEF ClearHistory, Settles, sockets, registry
  <2> QED
    BY <1>1, <2>1
<1>8. \/ UNCHANGED <<view, history>>
      \/ \E c \in Conns : OnClose(c)
      \/ Broadcast \/ ClearHistory
  BY DEF Next, vars, store, Connect, Vanish, Drop, ProofExpires, Pong, RefuseMessage, ApplyPolicy,
         ReceiveEvent, Heartbeat, RequestClear, AnswerDuplicate, RefuseEvent, ClearFails
<1> QED
  BY <1>3, <1>4, <1>5, <1>6, <1>7, <1>8, RegistryMoves

(***************************************************************************)
(* The policies.                                                           *)
(***************************************************************************)

\* A connection's entry holds the policy last taken from that connection.
LEMMA PolicyStep ==
  ASSUME TypeOK, RegistryInv, PolicyInv, [Next]_vars
  PROVE  PolicyInv'
<1> USE HubAssumption DEF PolicyInv, TypeOK
<1> DEFINE Became(c) == /\ clients' \subseteq clients \cup {c}
                        /\ registered \subseteq registered'
<1>1. ASSUME NEW c \in Conns, Register(c)
      PROVE  Became(c) /\ c \in registered'
  BY <1>1 DEF Register
<1>2. ASSUME NEW c \in Conns, Arrives(c), policy' = [policy EXCEPT ![c] = PolicyOnce(c)],
             UNCHANGED granted
      PROVE  PolicyInv'
  <2>1. CASE Registers(c)
    <3>1. Became(c) /\ c \in registered' /\ c \notin registered
      BY <1>1, <1>2, <2>1, ArrivesCases DEF Registers
    <3>2. policy' = [policy EXCEPT ![c] = {}] /\ granted[c] = {}
      BY <1>2, <2>1, <3>1 DEF PolicyOnce
    <3> QED
      BY <1>2, <3>1, <3>2
  <2>2. CASE ~Registers(c)
    <3>1. policy' = policy /\ UNCHANGED <<clients, registered>>
      BY <1>2, <2>2, ArrivesCases DEF PolicyOnce, registry
    <3> QED
      BY <1>2, <3>1
  <2> QED
    BY <2>1, <2>2
<1>3. ASSUME NEW c \in Conns, NEW p \in Policies, ApplyPolicy(c, p)
      PROVE  PolicyInv'
  <2>1. /\ policy' = [policy EXCEPT ![c] = p]
        /\ granted' = [granted EXCEPT ![c] = p]
        /\ c \in clients' /\ Arrives(c)
    BY <1>3 DEF ApplyPolicy
  <2>2. Became(c) /\ c \in registered'
    BY <1>1, <2>1, ArrivesCases DEF registry, RegistryInv
  <2> QED
    BY <2>1, <2>2
<1>4. ASSUME NEW c \in Conns, NEW abandoned \in BOOLEAN, Connect(c, abandoned)
      PROVE  PolicyInv'
  <2>1. c \notin registered
    BY <1>4 DEF Connect, RegistryInv
  <2>2. Became(c) /\ UNCHANGED <<policy, granted>>
    BY <1>1, <1>4 DEF Connect
  <2> QED
    BY <2>1, <2>2
<1>5. ASSUME NEW c \in Conns, OnClose(c)
      PROVE  PolicyInv'
  <2>1. /\ policy' = [policy EXCEPT ![c] = {}]
        /\ granted' = [granted EXCEPT ![c] = {}]
        /\ clients' \subseteq clients /\ registered' = registered
    BY <1>5 DEF OnClose, Discard
  <2> QED
    BY <2>1
<1>6. \/ UNCHANGED <<policy, granted, clients, registered>>
      \/ \E c \in Conns : \/ Arrives(c) /\ policy' = [policy EXCEPT ![c] = PolicyOnce(c)] /\ UNCHANGED granted
                          \/ \E p \in Policies : ApplyPolicy(c, p)
                          \/ \E abandoned \in BOOLEAN : Connect(c, abandoned)
                          \/ OnClose(c)
  BY DEF Next, vars, registry, Vanish, Drop, ProofExpires, Pong, RefuseMessage, ReceiveEvent, Heartbeat,
         RequestClear, Settles, Broadcast, ClearHistory, AnswerDuplicate, RefuseEvent, ClearFails
<1>7. CASE UNCHANGED <<policy, granted, clients, registered>>
  BY <1>7
<1> QED
  BY <1>2, <1>3, <1>4, <1>5, <1>6, <1>7

(***************************************************************************)
(* The calls that wait for the store.                                      *)
(***************************************************************************)

\* One more append waits, or one more clear, when a call is added.
LEMMA AppendsAfterAdd ==
  ASSUME NEW w \in Seq(Calls), NEW call \in Calls
  PROVE  /\ IsFiniteSet(Appends(w))
         /\ call.op = "append" => Cardinality(Appends(Append(w, call))) = Cardinality(Appends(w)) + 1
         /\ call.op # "append" => Appends(Append(w, call)) = Appends(w)
<1>1. Appends(w) \subseteq 1..Len(w) /\ Len(w) \in Nat
  BY DEF Appends
<1>2. IsFiniteSet(Appends(w))
  <2>1. IsFiniteSet(1..Len(w))
    BY <1>1, FS_Interval
  <2> QED
    BY <1>1, <2>1, FS_Subset
<1>3. /\ DOMAIN Append(w, call) = 1..(Len(w) + 1)
      /\ DOMAIN w = 1..Len(w)
      /\ \A i \in 1..Len(w) : Append(w, call)[i] = w[i]
      /\ Append(w, call)[Len(w) + 1] = call
  OBVIOUS
<1>4. call.op = "append" => Appends(Append(w, call)) = Appends(w) \cup {Len(w) + 1}
  BY <1>1, <1>3 DEF Appends
<1>5. call.op # "append" => Appends(Append(w, call)) = Appends(w)
  BY <1>1, <1>3 DEF Appends
<1>6. Len(w) + 1 \notin Appends(w)
  BY <1>1
<1> QED
  BY <1>2, <1>4, <1>5, <1>6, FS_AddElement

\* One less waits when the oldest call, an append, is taken away.
LEMMA AppendsAfterTail ==
  ASSUME NEW w \in Seq(Calls), w # <<>>
  PROVE  /\ Head(w).op = "append" =>
              Cardinality(Appends(w)) >= 1 /\ Cardinality(Appends(Tail(w))) = Cardinality(Appends(w)) - 1
         /\ Head(w).op # "append" => Cardinality(Appends(Tail(w))) = Cardinality(Appends(w))
<1> DEFINE rest == Appends(w) \ {1}
           f == [i \in rest |-> i - 1]
<1>1. /\ Len(w) \in Nat \ {0} /\ DOMAIN w = 1..Len(w) /\ DOMAIN Tail(w) = 1..(Len(w) - 1)
      /\ \A i \in 1..(Len(w) - 1) : Tail(w)[i] = w[i + 1]
      /\ Head(w) = w[1]
  OBVIOUS
<1>2. Appends(w) \subseteq 1..Len(w)
  BY <1>1 DEF Appends
<1>3. IsFiniteSet(Appends(w)) /\ IsFiniteSet(rest)
  <2>1. IsFiniteSet(1..Len(w))
    BY <1>1, FS_Interval
  <2>2. IsFiniteSet(Appends(w))
    BY <1>2, <2>1, FS_Subset
  <2> QED
    BY <2>2, FS_Subset
<1>4. Cardinality(Appends(Tail(w))) = Cardinality(rest)
  <2>1. f \in Bijection(rest, Appends(Tail(w)))
    <3>1. \A i \in rest : i - 1 \in Appends(Tail(w))
      BY <1>1, <1>2 DEF Appends
    <3>2. \A j \in Appends(Tail(w)) : j + 1 \in rest /\ f[j + 1] = j
      BY <1>1 DEF Appends
    <3>3. \A i, j \in rest : f[i] = f[j] => i = j
      BY <1>2
    <3> QED
      BY <3>1, <3>2, <3>3 DEF Bijection, Injection, Surjection, IsInjective
  <2>2. ExistsBijection(rest, Appends(Tail(w)))
    BY <2>1 DEF ExistsBijection
  <2> QED
    BY <1>3, <2>2, FS_Bijection
<1>5. Head(w).op = "append" => 1 \in Appends(w)
  BY <1>1 DEF Appends
<1>6. Head(w).op # "append" => rest = Appends(w)
  BY <1>1 DEF Appends
<1>7. Cardinality(Appends(w)) \in Nat
  BY <1>3, FS_CardinalityType
<1>8. 1 \in Appends(w) => Cardinality(rest) = Cardinality(Appends(w)) - 1
  BY <1>3, FS_RemoveElement
<1>9. Cardinality(rest) \in Nat
  BY <1>3, FS_CardinalityType
<1> HIDE DEF rest
<1> QED
  BY <1>4, <1>5, <1>6, <1>7, <1>8, <1>9

\* The counter follows the calls, and an event comes from the device it names.
LEMMA QueueStep ==
  ASSUME TypeOK, QueueInv, [Next]_vars
  PROVE  QueueInv' /\ queuedEntries' \in Nat /\ waiting' \in Seq(Calls)
<1> USE HubAssumption DEF QueueInv, QueueExact
<1>0. waiting \in Seq(Calls) /\ queuedEntries \in Nat /\ MaxQueued \in Nat
  BY DEF TypeOK
<1>1. CASE UNCHANGED <<waiting, queuedEntries>>
  BY <1>0, <1>1
<1>2. ASSUME NEW c \in Conns, NEW e \in Events, ReceiveEvent(c, e)
      PROVE  QueueInv' /\ queuedEntries' \in Nat /\ waiting' \in Seq(Calls)
  <2> DEFINE call == [op |-> "append", conn |-> c, event |-> e]
  <2>1. call \in Calls /\ call.op = "append" /\ call.event.source = Device[call.conn]
    BY <1>2 DEF ReceiveEvent, Calls
  <2>2. /\ queuedEntries' = queuedEntries + 1 /\ queuedEntries < MaxQueued
        /\ waiting' = Append(waiting, call)
    BY <1>2 DEF ReceiveEvent
  <2> HIDE DEF call
  <2>3. queuedEntries' = Cardinality(Appends(waiting')) /\ queuedEntries' <= MaxQueued
    BY <1>0, <2>1, <2>2, AppendsAfterAdd
  <2>4. \A i \in Appends(waiting') : waiting'[i].event.source = Device[waiting'[i].conn]
    <3> SUFFICES ASSUME NEW i \in Appends(waiting')
                 PROVE  waiting'[i].event.source = Device[waiting'[i].conn]
      OBVIOUS
    <3>1. CASE i = Len(waiting) + 1
      BY <1>0, <2>1, <2>2, <3>1
    <3>2. CASE i # Len(waiting) + 1
      <4>1. i \in Appends(waiting) /\ waiting'[i] = waiting[i]
        BY <1>0, <2>1, <2>2, <3>2 DEF Appends
      <4> QED
        BY <4>1
    <3> QED
      BY <3>1, <3>2
  <2>5. queuedEntries' \in Nat /\ waiting' \in Seq(Calls)
    BY <1>0, <2>1, <2>2
  <2> QED
    BY <2>3, <2>4, <2>5
<1>3. CASE RequestClear
  <2> DEFINE call == [op |-> "clear"]
  <2>1. call \in Calls /\ call.op = "clear"
    BY DEF Calls
  <2>2. queuedEntries' = queuedEntries /\ waiting' = Append(waiting, call)
    BY <1>3 DEF RequestClear
  <2> HIDE DEF call
  <2>3. Appends(waiting') = Appends(waiting)
    BY <1>0, <2>1, <2>2, AppendsAfterAdd
  <2>4. \A i \in Appends(waiting) : waiting'[i] = waiting[i]
    BY <1>0, <2>1, <2>2 DEF Appends
  <2>5. queuedEntries' \in Nat /\ waiting' \in Seq(Calls)
    BY <1>0, <2>1, <2>2
  <2> QED
    BY <2>2, <2>3, <2>4, <2>5
<1>4. ASSUME waiting # <<>>, waiting' = Tail(waiting),
             \/ Head(waiting).op = "append" /\ queuedEntries' = queuedEntries - 1
             \/ Head(waiting).op = "clear" /\ queuedEntries' = queuedEntries
      PROVE  QueueInv' /\ queuedEntries' \in Nat /\ waiting' \in Seq(Calls)
  <2>1. \A i \in Appends(waiting') : i + 1 \in Appends(waiting) /\ waiting'[i] = waiting[i + 1]
    BY <1>0, <1>4 DEF Appends
  <2>2. queuedEntries' = Cardinality(Appends(waiting')) /\ queuedEntries' \in Nat
    BY <1>0, <1>4, AppendsAfterTail
  <2>3. queuedEntries' <= MaxQueued
    BY <1>0, <1>4
  <2>4. waiting' \in Seq(Calls)
    BY <1>0, <1>4
  <2>5. \A i \in Appends(waiting') : waiting'[i].event.source = Device[waiting'[i].conn]
    BY <2>1
  <2> QED
    BY <2>2, <2>3, <2>4, <2>5
<1>5. CASE Broadcast \/ AnswerDuplicate \/ RefuseEvent
  BY <1>4, <1>5 DEF Broadcast, AnswerDuplicate, RefuseEvent, Settles, EndEntry
<1>6. CASE ClearHistory \/ ClearFails
  BY <1>4, <1>6 DEF ClearHistory, ClearFails, Settles
<1>7. \/ UNCHANGED <<waiting, queuedEntries>>
      \/ \E c \in Conns, e \in Events : ReceiveEvent(c, e)
      \/ RequestClear \/ Broadcast \/ AnswerDuplicate \/ RefuseEvent \/ ClearHistory \/ ClearFails
  BY DEF Next, vars, store, Connect, Vanish, Drop, ProofExpires, OnClose, Discard, Pong, RefuseMessage,
         ApplyPolicy, Heartbeat
<1> QED
  BY <1>1, <1>2, <1>3, <1>5, <1>6, <1>7

(***************************************************************************)
(* Types.                                                                  *)
(***************************************************************************)

\* Registering a connection keeps the types of the registry.
LEMMA RegisterType ==
  ASSUME TypeOK, NEW c \in Conns, Register(c)
  PROVE  /\ socket' \in [Conns -> Sockets]
         /\ registered' \subseteq Conns /\ proving' \subseteq Conns /\ clients' \subseteq Conns
         /\ byDevice' \in [Devices -> Conns \cup {NoConn}]
         /\ shown' \in [Conns -> SUBSET Devices]
<1> USE HubAssumption DEF TypeOK, Register
<1>1. registered' \subseteq Conns /\ proving' \subseteq Conns /\ clients' \subseteq Conns
  OBVIOUS
<1>2. byDevice' \in [Devices -> Conns \cup {NoConn}]
  OBVIOUS
<1>3. socket' \in [Conns -> Sockets]
  BY Zenon DEF Sockets
<1>4. shown' \in [Conns -> SUBSET Devices]
  <2>1. BroadcastDevices
    BY Zenon
  <2>2. \A x \in clients' : Device[x] \in Devices
    BY <1>1
  <2> QED
    BY <2>1, <2>2 DEF BroadcastDevices
<1> QED
  BY <1>1, <1>2, <1>3, <1>4

\* Every step keeps the types.
LEMMA TypeStep ==
  ASSUME TypeOK, QueueInv, [Next]_vars
  PROVE  TypeOK'
<1> USE HubAssumption
<1> DEFINE ConnTypes == /\ socket \in [Conns -> Sockets]
                        /\ gone \subseteq Conns /\ alive \subseteq Conns
                        /\ registered \subseteq Conns /\ proving \subseteq Conns /\ clients \subseteq Conns
                        /\ byDevice \in [Devices -> Conns \cup {NoConn}]
                        /\ shown \in [Conns -> SUBSET Devices]
           PolicyTypes == /\ policy \in [Conns -> SUBSET Devices]
                          /\ remembered \in [Devices -> SUBSET Devices]
                          /\ granted \in [Conns -> SUBSET Devices]
           StoreTypes == /\ log \in Seq(Events) /\ history \subseteq DOMAIN log
                         /\ view \in [Conns -> SUBSET Nat] /\ clears \in Nat
<1> USE DEF TypeOK
<1>1. QueueInv' /\ queuedEntries' \in Nat /\ waiting' \in Seq(Calls)
  BY QueueStep
<1>2. ConnTypes'
  <2>1. ASSUME NEW c \in Conns, Register(c), gone' \subseteq Conns, alive' \subseteq Conns
        PROVE  ConnTypes'
    BY <2>1, RegisterType
  <2>2. ASSUME NEW c \in Conns, Arrives(c), gone' \subseteq Conns, alive' \subseteq Conns
        PROVE  ConnTypes'
    BY <2>1, <2>2, ArrivesCases DEF registry
  <2>3. ASSUME NEW c \in Conns, NEW abandoned \in BOOLEAN, Connect(c, abandoned)
        PROVE  ConnTypes'
    <3>1. gone' \subseteq Conns /\ alive' \subseteq Conns
      BY <2>3 DEF Connect
    <3> QED
      BY <2>1, <2>3, <3>1 DEF Connect, Sockets
  <2>4. ASSUME NEW c \in Conns, Vanish(c) \/ Drop(c) \/ ProofExpires(c)
        PROVE  ConnTypes'
    BY <2>4 DEF Vanish, Drop, ProofExpires, Sockets, registry
  <2>5. ASSUME NEW c \in Conns, OnClose(c)
        PROVE  ConnTypes'
    <3>1. /\ socket' \in [Conns -> Sockets]
          /\ gone' \subseteq Conns /\ alive' \subseteq Conns
          /\ registered' \subseteq Conns /\ proving' \subseteq Conns /\ clients' \subseteq Conns
          /\ byDevice' \in [Devices -> Conns \cup {NoConn}]
      BY <2>5 DEF OnClose, Discard, Sockets
    <3>2. BroadcastDevices \/ shown' = shown
      BY <2>5 DEF OnClose
    <3>3. \A x \in clients' : Device[x] \in Devices
      BY <3>1
    <3>4. shown' \in [Conns -> SUBSET Devices]
      <4>1. CASE BroadcastDevices
        BY <4>1, <3>3 DEF BroadcastDevices
      <4>2. CASE shown' = shown
        BY <4>2
      <4> QED
        BY <3>2, <4>1, <4>2
    <3> QED
      BY <3>1, <3>4
  <2>6. CASE Heartbeat
    BY <2>6 DEF Heartbeat, Sockets, registry
  <2>7. CASE UNCHANGED <<sockets, registry>>
    BY <2>7 DEF sockets, registry
  <2>8. \/ \E c \in Conns : \/ \E abandoned \in BOOLEAN : Connect(c, abandoned)
                           \/ Vanish(c) \/ Drop(c) \/ ProofExpires(c) \/ OnClose(c)
                           \/ (Arrives(c) /\ gone' \subseteq Conns /\ alive' \subseteq Conns)
        \/ Heartbeat \/ UNCHANGED <<sockets, registry>>
    BY Zenon DEF Next, vars, Pong, RefuseMessage, ApplyPolicy, ReceiveEvent, RequestClear, Settles, Broadcast,
           AnswerDuplicate, RefuseEvent, ClearHistory, ClearFails
  <2> HIDE DEF ConnTypes
  <2> QED
    BY <2>2, <2>3, <2>4, <2>5, <2>6, <2>7, <2>8
<1>3. PolicyTypes'
  <2>1. CASE UNCHANGED <<policy, remembered, granted>>
    BY <2>1
  <2>2. ASSUME NEW c \in Conns, policy' = [policy EXCEPT ![c] = PolicyOnce(c)],
               UNCHANGED <<remembered, granted>>
        PROVE  PolicyTypes'
    BY <2>2 DEF PolicyOnce
  <2>3. ASSUME NEW c \in Conns, NEW p \in Policies, ApplyPolicy(c, p)
        PROVE  PolicyTypes'
    BY <2>3 DEF ApplyPolicy
  <2>4. ASSUME NEW c \in Conns, OnClose(c)
        PROVE  PolicyTypes'
    BY <2>4 DEF OnClose, Discard
  <2>5. \/ UNCHANGED <<policy, remembered, granted>>
        \/ \E c \in Conns : \/ policy' = [policy EXCEPT ![c] = PolicyOnce(c)]
                              /\ UNCHANGED <<remembered, granted>>
                           \/ \E p \in Policies : ApplyPolicy(c, p)
                           \/ OnClose(c)
    BY DEF Next, vars, Connect, Vanish, Drop, ProofExpires, Pong, RefuseMessage, ReceiveEvent, Heartbeat,
           RequestClear, Settles, Broadcast, AnswerDuplicate, RefuseEvent, ClearHistory, ClearFails
  <2> HIDE DEF PolicyTypes
  <2> QED
    BY <2>1, <2>2, <2>3, <2>4, <2>5
<1>4. StoreTypes'
  <2>1. CASE UNCHANGED <<log, history, view, clears>>
    BY <2>1
  <2>2. ASSUME NEW c \in Conns, OnClose(c)
        PROVE  StoreTypes'
    BY <2>2 DEF OnClose, Discard
  <2>3. CASE RequestClear
    BY <2>3 DEF RequestClear
  <2>4. CASE ClearHistory
    BY <2>4 DEF ClearHistory, Settles
  <2>5. CASE Broadcast
    <3>1. Head(waiting) \in Calls /\ Head(waiting).op = "append"
      BY <2>5 DEF Broadcast, Settles
    <3>2. Head(waiting).event \in Events
      BY <3>1 DEF Calls
    <3>3. log' = Append(log, Head(waiting).event) /\ history' = history \cup {Len(log) + 1}
      BY <2>5 DEF Broadcast
    <3>4. log' \in Seq(Events) /\ history' \subseteq DOMAIN log'
      BY <3>2, <3>3
    <3>5. view' \in [Conns -> SUBSET Nat] /\ clears' = clears
      BY <2>5 DEF Broadcast, Settles
    <3> QED
      BY <3>4, <3>5
  <2>6. \/ UNCHANGED <<log, history, view, clears>>
        \/ \E c \in Conns : OnClose(c)
        \/ RequestClear \/ ClearHistory \/ Broadcast
    BY DEF Next, vars, store, Connect, Vanish, Drop, ProofExpires, Pong, RefuseMessage, ApplyPolicy,
           ReceiveEvent, Heartbeat, Settles, AnswerDuplicate, RefuseEvent, ClearFails
  <2> HIDE DEF StoreTypes
  <2> QED
    BY <2>1, <2>2, <2>3, <2>4, <2>5, <2>6
<1> QED
  BY <1>1, <1>2, <1>3, <1>4

(***************************************************************************)
(* Theorems.                                                               *)
(***************************************************************************)

\* What every reachable state of the hub satisfies: its types and the inductive
\* invariant.
THEOREM HubInvariant == Spec => [](TypeOK /\ IInv)
<1>1. Init => TypeOK /\ IInv
  <2> SUFFICES ASSUME Init PROVE TypeOK /\ IInv
    OBVIOUS
  <2> USE HubAssumption DEF Init
  <2>1. TypeOK
    BY DEF TypeOK, Sockets
  <2>2. QueueInv
    <3>1. Appends(waiting) = {}
      BY DEF Appends
    <3>2. Cardinality(Appends(waiting)) = 0
      BY <3>1, FS_EmptySet
    <3>3. queuedEntries = 0 /\ 0 <= MaxQueued
      OBVIOUS
    <3> QED
      BY <3>1, <3>2, <3>3 DEF QueueInv, QueueExact
  <2>3. RegistryInv /\ ViewInv /\ PolicyInv
    BY DEF RegistryInv, RegistryConsistent, DevicesFresh, ViewInv, ClearedIsGone, PolicyInv, Open
  <2> QED
    BY <2>1, <2>2, <2>3 DEF IInv
<1>2. TypeOK /\ IInv /\ [Next]_vars => TypeOK' /\ IInv'
  BY RegistryStep, ViewStep, PolicyStep, QueueStep, TypeStep DEF IInv
<1> QED
  BY <1>1, <1>2, PTL DEF Spec

\* The variables keep their types.
THEOREM TypeCorrect == Spec => []TypeOK
  BY HubInvariant, PTL

\* clientsByDeviceId names exactly the clients, each client knows the devices
\* that are connected, and shows nothing that was cleared.
THEOREM HubSafe == Spec => [](RegistryConsistent /\ DevicesFresh /\ ClearedIsGone)
<1>1. IInv => RegistryConsistent /\ DevicesFresh /\ ClearedIsGone
  BY DEF IInv, RegistryInv, ViewInv
<1> QED
  BY <1>1, HubInvariant, PTL

\* The device lists of the clients are current.
THEOREM ListsStayFresh == Spec => []DevicesFresh
  BY HubSafe, PTL

\* No client shows what was cleared.
THEOREM ClearedStaysGone == Spec => []ClearedIsGone
  BY HubSafe, PTL

\* The admission counter counts the appends that wait, within its limit.
THEOREM QueueCounted == Spec => []QueueExact
<1>1. IInv => QueueExact
  BY DEF IInv, QueueInv
<1> QED
  BY <1>1, HubInvariant, PTL

\* A stale handshake evicts nobody.
THEOREM NewcomersAnswer == Spec => StaleNeverEvicts
<1>1. ASSUME TypeOK, IInv, [Next]_vars, NEW c \in clients \ clients'
      PROVE  socket[c] = "closing" \/ byDevice'[Device[c]] \notin gone'
  <2> USE HubAssumption DEF TypeOK, IInv, RegistryInv, RegistryConsistent
  <2>0. c \in Conns /\ Device[c] \in Devices /\ byDevice[Device[c]] = c /\ c # NoConn
    BY <1>1
  <2>1. ASSUME NEW x \in Conns, Arrives(x), gone' = gone
        PROVE  byDevice'[Device[c]] \notin gone'
    <3>1. Register(x)
      BY <1>1, <2>1, ArrivesCases DEF registry
    <3>2. c = byDevice[Device[x]]
      BY <1>1, <3>1 DEF Register
    <3>3. Device[c] = Device[x]
      BY <2>0, <3>2, <1>1
    <3>4. byDevice'[Device[c]] = x
      <4>1. byDevice' = [byDevice EXCEPT ![Device[x]] = x]
        BY <3>1 DEF Register
      <4>2. byDevice \in [Devices -> Conns \cup {NoConn}]
        BY <1>1
      <4> QED
        BY <2>0, <3>3, <4>1, <4>2
    <3> QED
      BY <2>1, <3>4 DEF Arrives
  <2>2. ASSUME NEW x \in Conns, NEW abandoned \in BOOLEAN, Connect(x, abandoned)
        PROVE  FALSE
    <3>1. Register(x) /\ byDevice[Device[x]] = NoConn
      BY <1>1, <2>2 DEF Connect
    <3> QED
      BY <1>1, <2>0, <3>1 DEF Register
  <2>3. ASSUME NEW x \in Conns, OnClose(x)
        PROVE  socket[c] = "closing"
    BY <1>1, <2>3 DEF OnClose
  <2>4. \/ clients' = clients
        \/ \E x \in Conns : \/ (Arrives(x) /\ gone' = gone)
                           \/ \E abandoned \in BOOLEAN : Connect(x, abandoned)
                           \/ OnClose(x)
    BY <1>1, Zenon DEF Next, vars, registry, Vanish, Drop, ProofExpires, Pong, RefuseMessage, ApplyPolicy,
       ReceiveEvent, Heartbeat, RequestClear, Settles, Broadcast, AnswerDuplicate, RefuseEvent,
       ClearHistory, ClearFails
  <2> QED
    BY <1>1, <2>1, <2>2, <2>3, <2>4
<1>2. TypeOK /\ IInv /\ [Next]_vars =>
         [\A c \in clients \ clients' :
             socket[c] = "closing" \/ byDevice'[Device[c]] \notin gone']_vars
  BY <1>1
<1> QED
  BY <1>2, HubInvariant, PTL DEF Spec, StaleNeverEvicts

\* Only a broadcast shows a connection another event: one stored at that moment,
\* which the connection sent itself or that is meant for it and not refused.
LEMMA ShownEvents ==
  ASSUME TypeOK, IInv, [Next]_vars, NEW c \in Conns, NEW n \in view'[c] \ view[c]
  PROVE  /\ c \in clients /\ n \in history'
         /\ UNCHANGED <<clients, byDevice, policy>>
         /\ \/ log'[n].source = Device[c]
            \/ Device[c] \in log'[n].targets /\ Allows(policy[c], log'[n], Device[c])
<1> USE HubAssumption DEF TypeOK
<1>1. Broadcast
  <2>1. \A x \in Conns : OnClose(x) => view'[c] \subseteq view[c]
    BY DEF OnClose, Discard
  <2>2. ClearHistory => view'[c] \subseteq view[c]
    BY DEF ClearHistory
  <2>3. \/ view' = view \/ Broadcast \/ ClearHistory
        \/ \E x \in Conns : OnClose(x)
    BY Zenon DEF Next, vars, store, Connect, Vanish, Drop, ProofExpires, Pong, RefuseMessage, ApplyPolicy,
       ReceiveEvent, Heartbeat, RequestClear, AnswerDuplicate, RefuseEvent, ClearFails
  <2> QED
    BY <2>1, <2>2, <2>3
<1> DEFINE call == Head(waiting)
           m == Len(log) + 1
<1>2. /\ c \in clients /\ n = m /\ Receives(c, call.event, call.conn)
      /\ history' = history \cup {m} /\ log' = Append(log, call.event)
      /\ UNCHANGED <<clients, byDevice, policy>>
  BY <1>1 DEF Broadcast, Settles, registry
<1>3. call \in Calls /\ call.op = "append" /\ waiting # <<>>
  BY <1>1 DEF Broadcast, Settles
<1>4. log'[n] = call.event
  BY <1>2, <1>3 DEF Calls
<1>5. call.event.source = Device[call.conn]
  <2>1. 1 \in Appends(waiting) /\ call = waiting[1]
    BY <1>3 DEF Appends
  <2> QED
    BY <2>1 DEF IInv, QueueInv
<1> HIDE DEF call, m
<1> QED
  BY <1>2, <1>4, <1>5 DEF Receives

\* No event reaches a connection that refuses its source.
THEOREM RefusalHolds == Spec => RefusedNeverSent
<1>1. ASSUME TypeOK, IInv, [Next]_vars, NEW c \in Conns, NEW n \in view'[c] \ view[c]
      PROVE  log'[n].source = Device[c] \/ log'[n].source \notin granted[c]
  <2>1. granted[c] = policy[c]
    BY <1>1, ShownEvents DEF IInv, PolicyInv
  <2> QED
    BY <1>1, <2>1, ShownEvents DEF Allows
<1>2. TypeOK /\ IInv /\ [Next]_vars =>
         [\A c \in Conns : \A n \in view'[c] \ view[c] :
             log'[n].source = Device[c] \/ log'[n].source \notin granted[c]]_vars
  BY <1>1
<1> QED
  BY <1>2, HubInvariant, PTL DEF Spec, RefusedNeverSent

\* What is sent live is in the history its receiver may read.
THEOREM LiveIsReadable == Spec => LiveIsInHistory
<1>1. ASSUME TypeOK, IInv, [Next]_vars, NEW c \in Conns, NEW n \in view'[c] \ view[c]
      PROVE  n \in HistoryFor(Device[c])'
  <2>1. /\ c \in clients' /\ n \in history' /\ policy' = policy
        /\ \/ log'[n].source = Device[c]
           \/ Device[c] \in log'[n].targets /\ Allows(policy[c], log'[n], Device[c])
    BY <1>1, ShownEvents
  <2>2. byDevice'[Device[c]] = c
    <3>1. byDevice' = byDevice /\ c \in clients
      BY <1>1, ShownEvents
    <3> QED
      BY <1>1, <3>1 DEF IInv, RegistryInv, RegistryConsistent
  <2>3. PolicyFor(Device[c])' = policy[c]
    BY <2>1, <2>2 DEF PolicyFor
  <2>4. Sees(Device[c], log[n], PolicyFor(Device[c]))'
    BY <2>1, <2>3 DEF Sees, Allows
  <2> QED
    BY <2>1, <2>4 DEF HistoryFor
<1>2. TypeOK /\ IInv /\ [Next]_vars =>
         [\A c \in Conns : view'[c] \ view[c] \subseteq HistoryFor(Device[c])']_vars
  BY <1>1
<1> QED
  BY <1>2, HubInvariant, PTL DEF Spec, LiveIsInHistory
=============================================================================
