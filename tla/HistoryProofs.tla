---------------------------- MODULE HistoryProofs ----------------------------
(***************************************************************************)
(* Proofs about the two history lists, for any number of events, clears,    *)
(* lost connections, requests and failures.                                *)
(***************************************************************************)
EXTENDS HistoryClients, SequenceTheorems, TLAPS

(***************************************************************************)
(* What is underway to a client, as constants: a list S becomes the history *)
(* h once the messages f have been applied to it.                          *)
(***************************************************************************)

Messages == [type : {"clipboard.update", "hub.history-cleared"}, event : Nat]

IsClear(m) == m.type = "hub.history-cleared"

HasClear(f) == \E k \in DOMAIN f : IsClear(f[k])

\* The event arrives, and no clear after it.
Arrives(f, x) ==
    \E j \in DOMAIN f :
        f[j] = Event(x) /\ \A k \in DOMAIN f : k > j => ~IsClear(f[k])

Synced(S, f, h) == \A x \in Nat : x \in h <=> Arrives(f, x) \/ (x \in S /\ ~HasClear(f))

\* No event arrives after a clear that has removed it; t is the last that was cleared.
Ordered(f, t) ==
    \A j \in DOMAIN f : ~IsClear(f[j]) =>
        /\ f[j].event > t
        /\ \A i \in DOMAIN f : i < j /\ IsClear(f[i]) => f[i].event < f[j].event

\* Once nothing is underway the list is the history.
LEMMA SyncedAtRest ==
  ASSUME NEW S \in SUBSET Nat, NEW h \in SUBSET Nat, Synced(S, <<>>, h)
  PROVE  S = h
<1>1. DOMAIN <<>> = {}
  OBVIOUS
<1>2. \A x \in Nat : ~Arrives(<<>>, x)
  BY <1>1 DEF Arrives
<1>3. ~HasClear(<<>>)
  BY <1>1 DEF HasClear
<1> QED  BY <1>2, <1>3 DEF Synced

\* What is underway applies to any list if it ends with a clear and what follows.
LEMMA SyncedByClear ==
  ASSUME NEW S, NEW T, NEW f, NEW h, HasClear(f), Synced(T, f, h)
  PROVE  Synced(S, f, h)
BY DEF Synced

\* It never adds what is not there in the end.
LEMMA SyncedItself ==
  ASSUME NEW S, NEW f, NEW h, Synced(S, f, h)
  PROVE  Synced(h, f, h)
BY DEF Synced

\* A list that shares nothing with the history might as well be empty.
LEMMA SyncedEmpty ==
  ASSUME NEW S, NEW f, NEW h, Synced(S, f, h), S \cap h = {}
  PROVE  Synced({}, f, h)
BY DEF Synced

LEMMA Appended ==
  ASSUME NEW f \in Seq(Messages), NEW m \in Messages
  PROVE  /\ Append(f, m) \in Seq(Messages) /\ Len(f) \in Nat
         /\ DOMAIN f = 1..Len(f) /\ DOMAIN Append(f, m) = 1..(Len(f) + 1)
         /\ Append(f, m)[Len(f) + 1] = m
         /\ \A k \in DOMAIN f : Append(f, m)[k] = f[k]
OBVIOUS

LEMMA EventsAreNumbers ==
  ASSUME NEW f \in Seq(Messages), NEW k \in DOMAIN f
  PROVE  f[k].event \in Nat
<1>1. f[k] \in Messages
  OBVIOUS
<1> QED  BY <1>1 DEF Messages

\* An event is stored and sent.
LEMMA StoredSynced ==
  ASSUME NEW f \in Seq(Messages), NEW n \in Nat, NEW S, NEW h, Synced(S, f, h)
  PROVE  Synced(S, Append(f, Event(n)), h \cup {n})
<1> DEFINE m == Event(n)
           g == Append(f, m)
<1>1. m \in Messages /\ ~IsClear(m) /\ \A x \in Nat : m = Event(x) <=> x = n
  BY DEF Event, Messages, IsClear
<1> HIDE DEF m
<1>2. /\ Len(f) \in Nat /\ DOMAIN f = 1..Len(f) /\ DOMAIN g = 1..(Len(f) + 1)
      /\ g[Len(f) + 1] = m /\ \A k \in DOMAIN f : g[k] = f[k]
  BY <1>1, Appended
<1> HIDE DEF g
<1>3. HasClear(g) <=> HasClear(f)
  BY <1>1, <1>2 DEF HasClear
<1>4. ASSUME NEW x \in Nat  PROVE Arrives(g, x) <=> Arrives(f, x) \/ x = n
  <2>1. Arrives(f, x) => Arrives(g, x)
    BY <1>1, <1>2 DEF Arrives
  <2>2. x = n => Arrives(g, x)
    <3>1. Len(f) + 1 \in DOMAIN g /\ \A k \in DOMAIN g : ~(k > Len(f) + 1)
      BY <1>2
    <3> QED  BY <1>1, <1>2, <3>1 DEF Arrives
  <2>3. Arrives(g, x) => Arrives(f, x) \/ x = n
    BY <1>1, <1>2 DEF Arrives
  <2> QED  BY <2>1, <2>2, <2>3
<1> QED  BY <1>3, <1>4 DEF Synced, g, m

\* All is cleared, and the clear is sent.
LEMMA ClearedSynced ==
  ASSUME NEW f \in Seq(Messages), NEW n \in Nat, NEW S
  PROVE  Synced(S, Append(f, Clear(n)), {}) /\ HasClear(Append(f, Clear(n)))
<1> DEFINE m == Clear(n)
           g == Append(f, m)
<1>1. m \in Messages /\ IsClear(m) /\ \A x \in Nat : m # Event(x)
  BY DEF Event, Clear, Messages, IsClear
<1> HIDE DEF m
<1>2. /\ Len(f) \in Nat /\ DOMAIN f = 1..Len(f) /\ DOMAIN g = 1..(Len(f) + 1)
      /\ g[Len(f) + 1] = m
  BY <1>1, Appended
<1> HIDE DEF g
<1>3. HasClear(g)
  BY <1>1, <1>2 DEF HasClear
<1>4. \A x \in Nat : ~Arrives(g, x)
  BY <1>1, <1>2 DEF Arrives
<1> QED  BY <1>3, <1>4 DEF Synced, g, m

LEMMA TailOf ==
  ASSUME NEW f \in Seq(Messages), f # <<>>
  PROVE  /\ Tail(f) \in Seq(Messages) /\ Head(f) = f[1] /\ f[1] \in Messages
         /\ Len(f) \in Nat /\ Len(f) > 0 /\ DOMAIN f = 1..Len(f)
         /\ DOMAIN Tail(f) = 1..(Len(f) - 1)
         /\ \A k \in 1..(Len(f) - 1) : Tail(f)[k] = f[k + 1]
OBVIOUS

\* What arrives in the rest, and what in the first message.
LEMMA TailArrives ==
  ASSUME NEW f \in Seq(Messages), f # <<>>
  PROVE  /\ HasClear(f) <=> IsClear(f[1]) \/ HasClear(Tail(f))
         /\ \A x \in Nat : Arrives(f, x) <=>
               Arrives(Tail(f), x) \/ (f[1] = Event(x) /\ ~HasClear(Tail(f)))
<1> DEFINE g == Tail(f)
<1>1. /\ Len(f) \in Nat /\ Len(f) > 0 /\ DOMAIN f = 1..Len(f)
      /\ DOMAIN g = 1..(Len(f) - 1) /\ \A k \in 1..(Len(f) - 1) : g[k] = f[k + 1]
  BY TailOf
<1> HIDE DEF g
<1>2. \A k \in DOMAIN g : k + 1 \in DOMAIN f /\ g[k] = f[k + 1]
  BY <1>1
<1>3. \A k \in DOMAIN f : k # 1 => k - 1 \in DOMAIN g /\ f[k] = g[k - 1]
  BY <1>1
<1>4. 1 \in DOMAIN f
  BY <1>1
<1>5. HasClear(f) <=> IsClear(f[1]) \/ HasClear(g)
  BY <1>2, <1>3, <1>4 DEF HasClear
<1>6. ASSUME NEW x \in Nat
      PROVE  Arrives(f, x) <=> Arrives(g, x) \/ (f[1] = Event(x) /\ ~HasClear(g))
  <2>1. ASSUME Arrives(g, x)  PROVE Arrives(f, x)
    <3> PICK j \in DOMAIN g :
           g[j] = Event(x) /\ \A k \in DOMAIN g : k > j => ~IsClear(g[k])
      BY <2>1 DEF Arrives
    <3>1. f[j + 1] = Event(x) /\ j + 1 \in DOMAIN f
      BY <1>2
    <3>2. \A k \in DOMAIN f : k > j + 1 => ~IsClear(f[k])
      BY <1>1, <1>3
    <3> QED  BY <3>1, <3>2 DEF Arrives
  <2>2. ASSUME f[1] = Event(x), ~HasClear(g)  PROVE Arrives(f, x)
    <3>1. \A k \in DOMAIN f : k > 1 => ~IsClear(f[k])
      BY <1>1, <1>3, <2>2 DEF HasClear
    <3> QED  BY <1>4, <2>2, <3>1 DEF Arrives
  <2>3. ASSUME Arrives(f, x)
        PROVE  Arrives(g, x) \/ (f[1] = Event(x) /\ ~HasClear(g))
    <3> PICK j \in DOMAIN f :
           f[j] = Event(x) /\ \A k \in DOMAIN f : k > j => ~IsClear(f[k])
      BY <2>3 DEF Arrives
    <3>1. CASE j = 1
      BY <1>1, <1>2, <3>1 DEF HasClear
    <3>2. CASE j # 1
      <4>1. j - 1 \in DOMAIN g /\ g[j - 1] = Event(x)
        BY <1>3, <3>2
      <4>2. \A k \in DOMAIN g : k > j - 1 => ~IsClear(g[k])
        BY <1>1, <1>2
      <4> QED  BY <4>1, <4>2 DEF Arrives
    <3> QED  BY <3>1, <3>2
  <2> QED  BY <2>1, <2>2, <2>3
<1> QED  BY <1>5, <1>6 DEF g

\* An event is heard.
LEMMA EventHeard ==
  ASSUME NEW f \in Seq(Messages), f # <<>>, Head(f).type = "clipboard.update",
         NEW S, NEW h, Synced(S, f, h)
  PROVE  Head(f).event \in Nat /\ Synced(S \cup {Head(f).event}, Tail(f), h)
<1>1. Head(f) = f[1] /\ f[1] \in Messages
  BY TailOf
<1>2. ~IsClear(f[1]) /\ f[1].event \in Nat
      /\ \A x \in Nat : f[1] = Event(x) <=> x = f[1].event
  BY <1>1 DEF IsClear, Messages, Event
<1> QED  BY <1>1, <1>2, TailArrives DEF Synced

\* A clear is heard.
LEMMA ClearHeard ==
  ASSUME NEW f \in Seq(Messages), f # <<>>, Head(f).type = "hub.history-cleared",
         NEW S, NEW h, Synced(S, f, h)
  PROVE  Head(f).event \in Nat /\ Synced({}, Tail(f), h)
<1>1. Head(f) = f[1] /\ f[1] \in Messages
  BY TailOf
<1>2. IsClear(f[1]) /\ f[1].event \in Nat /\ \A x \in Nat : f[1] # Event(x)
  BY <1>1 DEF IsClear, Messages, Event
<1> QED  BY <1>1, <1>2, TailArrives DEF Synced

\* The order, as messages are sent ...
LEMMA SentOrdered ==
  ASSUME NEW f \in Seq(Messages), NEW t \in Nat, Ordered(f, t), NEW n \in Nat,
         NEW m \in {Event(n), Clear(n)}, IsClear(m) \/ t < n,
         \A k \in DOMAIN f : IsClear(f[k]) => f[k].event < n \/ IsClear(m)
  PROVE  Ordered(Append(f, m), t)
<1> DEFINE g == Append(f, m)
<1>1. m \in Messages /\ m.event = n
  BY DEF Event, Clear, Messages
<1>2. /\ Len(f) \in Nat /\ DOMAIN f = 1..Len(f) /\ DOMAIN g = 1..(Len(f) + 1)
      /\ g[Len(f) + 1] = m /\ \A k \in DOMAIN f : g[k] = f[k]
  BY <1>1, Appended
<1> HIDE DEF g
<1> SUFFICES ASSUME NEW j \in DOMAIN g, ~IsClear(g[j])
             PROVE  /\ g[j].event > t
                    /\ \A i \in DOMAIN g : i < j /\ IsClear(g[i]) => g[i].event < g[j].event
  BY DEF Ordered, g
<1>3. \A i \in DOMAIN g : i < j => i \in DOMAIN f /\ g[i] = f[i]
  BY <1>2
<1>4. CASE j \in DOMAIN f
  BY <1>2, <1>3, <1>4 DEF Ordered
<1>5. CASE j = Len(f) + 1
  BY <1>1, <1>2, <1>3, <1>5
<1> QED  BY <1>2, <1>4, <1>5

\* ... and as they are heard; after a clear what it has removed does not arrive.
LEMMA HeardOrdered ==
  ASSUME NEW f \in Seq(Messages), f # <<>>, NEW t \in Nat, Ordered(f, t)
  PROVE  /\ Ordered(Tail(f), t)
         /\ Head(f).type = "clipboard.update" => Head(f).event > t
         /\ Head(f).type = "hub.history-cleared" => Ordered(Tail(f), Head(f).event)
<1>1. /\ Len(f) \in Nat /\ Len(f) > 0 /\ DOMAIN f = 1..Len(f) /\ Head(f) = f[1]
      /\ DOMAIN Tail(f) = 1..(Len(f) - 1) /\ \A k \in 1..(Len(f) - 1) : Tail(f)[k] = f[k + 1]
  BY TailOf
<1>2. \A k \in DOMAIN Tail(f) : k + 1 \in DOMAIN f /\ Tail(f)[k] = f[k + 1] /\ 1 < k + 1
  BY <1>1
<1>3. \A i, k \in DOMAIN Tail(f) : i < k => i + 1 < k + 1
  BY <1>1
<1>4. Ordered(Tail(f), t)
  BY <1>2, <1>3 DEF Ordered
<1>5. Head(f).type = "clipboard.update" => Head(f).event > t
  BY <1>1 DEF Ordered, IsClear
<1>6. Head(f).type = "hub.history-cleared" => Ordered(Tail(f), Head(f).event)
  BY <1>1, <1>2, <1>3 DEF Ordered, IsClear
<1> QED  BY <1>4, <1>5, <1>6

(***************************************************************************)
(* The hub and the connection.                                             *)
(***************************************************************************)

FeedTypeOK ==
    /\ last \in Nat /\ cleared \in Nat
    /\ link \in {"down", "registered", "ready"} /\ feed \in Seq(Messages)

\* What is underway leads to the history, and tells of no clear that is yet to come.
FeedInv ==
    /\ cleared <= last
    /\ link = "down" => feed = <<>>
    /\ Synced(History, feed, History)
    /\ \A j \in DOMAIN feed : IsClear(feed[j]) => feed[j].event <= cleared

\* A clear that is sent, of a history that may be empty.
SendsClear ==
    /\ cleared' = last /\ Broadcast(Clear(last)) /\ UNCHANGED <<last, link, drops>>

LEMMA HistoryOf ==
  ASSUME FeedTypeOK
  PROVE  History \in SUBSET Nat /\ \A x \in Nat : x \in History <=> cleared < x /\ x <= last
BY DEF FeedTypeOK, History

\* A broadcast keeps every list that what is underway leads to the history.
LEMMA Sends ==
  ASSUME FeedTypeOK, FeedInv, HubStores \/ SendsClear
  PROVE  /\ FeedTypeOK' /\ FeedInv' /\ link' = link /\ cleared <= cleared'
         /\ link # "down" =>
              /\ \A S : Synced(S, feed, History) => Synced(S, feed', History')
              /\ HasClear(feed) \/ SendsClear => HasClear(feed')
         /\ \A t \in Nat : t <= cleared /\ Ordered(feed, t) => Ordered(feed', t)
<1>0. /\ last \in Nat /\ cleared \in Nat /\ cleared <= last /\ feed \in Seq(Messages)
      /\ Synced(History, feed, History)
      /\ \A j \in DOMAIN feed : IsClear(feed[j]) => feed[j].event <= cleared
  BY DEF FeedTypeOK, FeedInv
<1>1. CASE HubStores
  <2> DEFINE m == Event(last + 1)
  <2>1. /\ last' = last + 1 /\ cleared' = cleared /\ link' = link
        /\ feed' = IF link = "down" THEN feed ELSE Append(feed, m)
    BY <1>1 DEF HubStores, Broadcast
  <2>2. History' = History \cup {last + 1}
    BY <1>0, <2>1 DEF History
  <2>3. m \in Messages /\ ~IsClear(m) /\ last + 1 \in Nat /\ cleared < last + 1
    BY <1>0 DEF Event, Messages, IsClear
  <2>4. \A S : link # "down" /\ Synced(S, feed, History) => Synced(S, feed', History')
    BY <1>0, <2>1, <2>2, <2>3, StoredSynced
  <2>5. FeedTypeOK'
    BY <2>1, <2>3, Appended DEF FeedTypeOK
  <2>6. Synced(History', feed', History')
    <3>1. CASE link = "down"
      <4>1. feed' = <<>>
        BY <2>1, <3>1 DEF FeedInv
      <4>2. DOMAIN <<>> = {}
        OBVIOUS
      <4> QED  BY <4>1, <4>2 DEF Synced, Arrives, HasClear
    <3>2. CASE link # "down"
      BY <1>0, <2>4, <3>2, SyncedItself
    <3> QED  BY <3>1, <3>2
  <2>7. \A j \in DOMAIN feed' : IsClear(feed'[j]) => feed'[j].event <= cleared
    <3>1. CASE link = "down"
      BY <1>0, <2>1, <3>1
    <3>2. CASE link # "down"
      <4> HIDE DEF m
      <4> QED  BY <1>0, <2>1, <2>3, <3>2, Appended
    <3> QED  BY <3>1, <3>2
  <2>8. FeedInv'
    BY <1>0, <2>1, <2>6, <2>7 DEF FeedInv
  <2>9. link # "down" /\ HasClear(feed) => HasClear(feed')
    <3> HIDE DEF m
    <3> QED  BY <1>0, <2>1, <2>3, Appended DEF HasClear
  <2>10. ASSUME NEW t \in Nat, t <= cleared, Ordered(feed, t)  PROVE Ordered(feed', t)
    <3>1. \A k \in DOMAIN feed : IsClear(feed[k]) => feed[k].event < last + 1
      <4>1. \A k \in DOMAIN feed : feed[k].event \in Nat
        BY <1>0, EventsAreNumbers
      <4> QED  BY <1>0, <4>1
    <3>2. t < last + 1
      BY <1>0, <2>10
    <3>3. Ordered(Append(feed, m), t)
      BY <1>0, <2>3, <2>10, <3>1, <3>2, SentOrdered
    <3> QED  BY <2>1, <2>10, <3>3
  <2>11. ~SendsClear
    BY <1>0, <2>1 DEF SendsClear
  <2> QED  BY <1>0, <2>1, <2>4, <2>5, <2>8, <2>9, <2>10, <2>11
<1>2. CASE SendsClear
  <2> DEFINE m == Clear(last)
  <2>1. /\ last' = last /\ cleared' = last /\ link' = link
        /\ feed' = IF link = "down" THEN feed ELSE Append(feed, m)
    BY <1>2 DEF SendsClear, Broadcast
  <2>2. History' = {}
    BY <1>0, <2>1 DEF History
  <2>3. m \in Messages /\ IsClear(m) /\ m.event = last
    BY <1>0 DEF Clear, Messages, IsClear
  <2>4. link # "down" => HasClear(feed') /\ \A S : Synced(S, feed', History')
    BY <1>0, <2>1, <2>2, ClearedSynced
  <2>5. FeedTypeOK'
    BY <1>0, <2>1, <2>3, Appended DEF FeedTypeOK
  <2>6. Synced(History', feed', History')
    <3>1. CASE link = "down"
      <4>1. feed' = <<>>
        BY <2>1, <3>1 DEF FeedInv
      <4>2. DOMAIN <<>> = {}
        OBVIOUS
      <4> QED  BY <4>1, <4>2 DEF Synced, Arrives, HasClear
    <3> QED  BY <2>4, <3>1
  <2>7. \A j \in DOMAIN feed' : IsClear(feed'[j]) => feed'[j].event <= last
    <3>1. \A k \in DOMAIN feed : IsClear(feed[k]) => feed[k].event <= last
      <4>1. \A k \in DOMAIN feed : feed[k].event \in Nat
        BY <1>0, EventsAreNumbers
      <4> QED  BY <1>0, <4>1
    <3>2. CASE link = "down"
      BY <2>1, <3>1, <3>2
    <3>3. CASE link # "down"
      <4> HIDE DEF m
      <4> QED  BY <1>0, <2>1, <2>3, <3>1, <3>3, Appended
    <3> QED  BY <3>2, <3>3
  <2>8. FeedInv'
    BY <1>0, <2>1, <2>6, <2>7 DEF FeedInv, FeedTypeOK
  <2>9. ASSUME NEW t \in Nat, t <= cleared, Ordered(feed, t)  PROVE Ordered(feed', t)
    <3>1. Ordered(Append(feed, m), t)
      BY <1>0, <2>3, <2>9, SentOrdered
    <3> QED  BY <2>1, <2>9, <3>1
  <2> QED  BY <1>0, <2>1, <2>4, <2>5, <2>8, <2>9
<1> QED  BY <1>1, <1>2

\* A message is heard.
LEMMA Hears ==
  ASSUME FeedTypeOK, FeedInv, feed # <<>>, feed' = Tail(feed), UNCHANGED <<last, cleared, link>>
  PROVE  /\ FeedTypeOK' /\ FeedInv' /\ History' = History
         /\ Head(feed).event \in Nat /\ link # "down"
         /\ Head(feed).type = "hub.history-cleared" => Head(feed).event <= cleared
<1>1. /\ Head(feed) = feed[1] /\ feed[1] \in Messages /\ 1 \in DOMAIN feed
      /\ feed' \in Seq(Messages) /\ Len(feed) \in Nat /\ DOMAIN feed = 1..Len(feed)
      /\ \A k \in DOMAIN feed' : k + 1 \in DOMAIN feed /\ feed'[k] = feed[k + 1]
  BY TailOf DEF FeedTypeOK
<1>2. History' = History /\ link # "down"
  BY DEF History, FeedInv
<1>3. Synced(History, feed, History)
  BY DEF FeedInv
<1>4. Head(feed).type \in {"clipboard.update", "hub.history-cleared"} /\ Head(feed).event \in Nat
  BY <1>1 DEF Messages
<1>5. \E S : Synced(S, Tail(feed), History)
  BY <1>3, <1>4, EventHeard, ClearHeard DEF FeedTypeOK
<1>6. Synced(History, feed', History)
  BY <1>5, SyncedItself
<1>7. \A j \in DOMAIN feed' : IsClear(feed'[j]) => feed'[j].event <= cleared
  BY <1>1 DEF FeedInv
<1>8. Head(feed).type = "hub.history-cleared" => Head(feed).event <= cleared
  BY <1>1 DEF FeedInv, IsClear
<1> QED  BY <1>1, <1>2, <1>4, <1>6, <1>7, <1>8 DEF FeedTypeOK, FeedInv

\* The connection is made, reported or lost.
LEMMA Links ==
  ASSUME FeedTypeOK, FeedInv, UNCHANGED <<last, cleared>>,
         \/ link' \in {"registered", "ready"} /\ feed' = feed
         \/ link' = "down" /\ feed' = <<>>
  PROVE  FeedTypeOK' /\ FeedInv' /\ History' = History
         /\ \A t \in Nat : Ordered(feed, t) => Ordered(feed', t)
<1>1. History' = History
  BY DEF History
<1>2. CASE link' \in {"registered", "ready"} /\ feed' = feed
  BY <1>1, <1>2 DEF FeedTypeOK, FeedInv
<1>3. CASE link' = "down" /\ feed' = <<>>
  <2>1. DOMAIN <<>> = {} /\ <<>> \in Seq(Messages)
    OBVIOUS
  <2>2. Synced(History, <<>>, History) /\ \A t \in Nat : Ordered(<<>>, t)
    BY <2>1 DEF Synced, Arrives, HasClear, Ordered
  <2> QED  BY <1>1, <1>3, <2>1, <2>2 DEF FeedTypeOK, FeedInv
<1> QED  BY <1>2, <1>3

(***************************************************************************)
(* The list of the Electron client.                                        *)
(***************************************************************************)

ViewTypeOK ==
    /\ shown \in SUBSET Nat /\ answer \in SUBSET Nat /\ told \in Nat
    /\ {enabled, stale, followUp, retryTimer, touched} \subseteq BOOLEAN
    /\ pending \in {"none", "asked", "answered", "aborted"}
    /\ clearing \in {"none", "asked", "answered", "aborted"}

\* While no GET is underway or due, what is underway leads from the list to the
\* history; so it does from an answer that is not stale.
ListSound ==
    /\ link = "ready" => enabled
    /\ link = "ready" /\ pending = "none" /\ ~retryTimer => Synced(shown, feed, History)
    /\ link = "ready" /\ pending = "answered" /\ ~stale => Synced(answer, feed, History)

\* Until a client that has cleared hears of it, the clear is underway.
ClearSound == link = "ready" /\ clearing = "answered" /\ ~touched => HasClear(feed)

\* What is not stale is younger than the last clear that was heard of.
ToldSound ==
    /\ told <= cleared /\ Ordered(feed, told) /\ shown \cap 1..told = {}
    /\ pending = "answered" /\ ~stale => answer \cap 1..told = {}

ViewInv == ListSound /\ ClearSound /\ ToldSound

\* The hub broadcasts, and no part of the list but the clear underway moves.
LEMMA ViewSends ==
  ASSUME FeedTypeOK, FeedInv, ViewTypeOK, ViewInv, HubStores \/ SendsClear,
         UNCHANGED <<shown, controller, touched, told>>,
         \/ clearing' = clearing
         \/ clearing' \in {"answered", "aborted"} /\ SendsClear
  PROVE  ViewTypeOK' /\ ViewInv'
<1>1. /\ link' = link /\ told <= cleared' /\ Ordered(feed', told)
      /\ link # "down" =>
            /\ \A S : Synced(S, feed, History) => Synced(S, feed', History')
            /\ HasClear(feed) \/ SendsClear => HasClear(feed')
  BY Sends DEF ViewInv, ToldSound, ViewTypeOK, FeedTypeOK
<1>2. ViewTypeOK'
  BY DEF ViewTypeOK, controller
<1>3. ListSound'
  BY <1>1 DEF ViewInv, ListSound, controller
<1>4. ClearSound'
  BY <1>1 DEF ViewInv, ClearSound
<1>5. ToldSound'
  BY <1>1 DEF ViewInv, ToldSound, controller
<1> QED  BY <1>2, <1>3, <1>4, <1>5 DEF ViewInv

\* The list moves, the hub and the connection do not.
LEMMA ViewMoves ==
  ASSUME FeedTypeOK, FeedInv, ViewTypeOK, ViewInv,
         \/ HubAnswers \/ LoadAnswered \/ LoadFailed \/ RetryFires
         \/ Change \/ RefreshAsked \/ AskClear \/ ClearAnswered \/ ClearFailed
  PROVE  ViewTypeOK' /\ ViewInv'
<1>1. /\ UNCHANGED <<last, cleared, link, feed>> /\ History' = History
      /\ enabled' = enabled /\ told' = told
  BY DEF HubAnswers, LoadAnswered, LoadFailed, RetryFires, Change, RefreshAsked, AskClear,
         ClearAnswered, ClearFailed, feedVars, hub, wire, History, controller
<1>2. ASSUME ViewTypeOK',
             link = "ready" /\ pending' = "none" /\ ~retryTimer' =>
                Synced(shown', feed, History),
             link = "ready" /\ pending' = "answered" /\ ~stale' =>
                Synced(answer', feed, History),
             link = "ready" /\ clearing' = "answered" /\ ~touched' => HasClear(feed),
             shown' \cap 1..told = {},
             pending' = "answered" /\ ~stale' => answer' \cap 1..told = {}
      PROVE  ViewTypeOK' /\ ViewInv'
  BY <1>1, <1>2 DEF ViewInv, ListSound, ClearSound, ToldSound
<1>3. CASE HubAnswers
  <2>1. /\ pending' = "answered" /\ answer' = History
        /\ UNCHANGED <<shown, stale, followUp, retryTimer, clearing, touched>>
    BY <1>3 DEF HubAnswers, clearVars
  <2>2. History \cap 1..told = {}
    BY HistoryOf DEF ViewInv, ToldSound, FeedTypeOK, ViewTypeOK, History
  <2> QED
    BY <1>1, <1>2, <2>1, <2>2, HistoryOf DEF ViewTypeOK, ViewInv, ClearSound, ToldSound, FeedInv
<1>4. CASE LoadAnswered
  <2>1. /\ pending = "answered" /\ pending' = "none" /\ answer' = {}
        /\ shown' = IF ~stale THEN answer ELSE shown
        /\ followUp' = (followUp \/ stale) /\ retryTimer' = (enabled /\ followUp')
        /\ UNCHANGED <<stale, clearing, touched>>
    BY <1>4 DEF LoadAnswered, Loaded, Fresh, clearVars, ViewTypeOK
  <2> QED
    BY <1>1, <1>2, <2>1 DEF ViewTypeOK, ViewInv, ListSound, ClearSound, ToldSound
<1>5. CASE LoadFailed
  <2>1. /\ pending' = "none" /\ answer' = {} /\ followUp' = TRUE /\ retryTimer' = enabled
        /\ UNCHANGED <<shown, stale, clearing, touched>>
    BY <1>5 DEF LoadFailed, Loaded, clearVars, ViewTypeOK
  <2> QED
    BY <1>1, <1>2, <2>1 DEF ViewTypeOK, ViewInv, ListSound, ClearSound, ToldSound
<1>6. CASE RetryFires \/ RefreshAsked
  <2>1. /\ UNCHANGED <<shown, clearing, touched>>
        /\ \/ UNCHANGED <<pending, stale, followUp, retryTimer, answer>>
           \/ /\ followUp' = TRUE /\ pending # "none" /\ retryTimer' \in {FALSE, retryTimer}
              /\ UNCHANGED <<pending, stale, answer>>
           \/ /\ pending' = "asked" /\ stale' = FALSE /\ answer' = {} /\ followUp' = FALSE
              /\ retryTimer' = FALSE
    BY <1>1, <1>6 DEF RetryFires, RefreshAsked, Refresh, clearVars
  <2> QED
    BY <1>1, <1>2, <2>1 DEF ViewTypeOK, ViewInv, ListSound, ClearSound, ToldSound
<1>7. CASE Change
  <2>1. stale' = TRUE /\ touched' = TRUE
        /\ UNCHANGED <<shown, pending, answer, followUp, retryTimer, clearing>>
    BY <1>7 DEF Change, Invalidate
  <2> QED
    BY <1>1, <1>2, <2>1 DEF ViewTypeOK, ViewInv, ListSound, ToldSound
<1>8. CASE AskClear
  <2>1. clearing' = "asked" /\ stale' = TRUE /\ touched' = FALSE
        /\ UNCHANGED <<shown, pending, answer, followUp, retryTimer>>
    BY <1>8 DEF AskClear
  <2> QED
    BY <1>1, <1>2, <2>1 DEF ViewTypeOK, ViewInv, ListSound, ToldSound
<1>9. CASE ClearAnswered /\ Untouched
  <2>1. /\ clearing = "answered" /\ clearing' = "none" /\ ~touched
        /\ shown' = {} /\ stale' = TRUE /\ touched' = TRUE
        /\ UNCHANGED <<pending, answer, followUp, retryTimer>>
    BY <1>9 DEF ClearAnswered, Untouched, Invalidate
  <2>2. link = "ready" => Synced({}, feed, History)
    BY <2>1, SyncedByClear DEF ViewInv, ClearSound, FeedInv
  <2> QED
    BY <1>1, <1>2, <2>1, <2>2 DEF ViewTypeOK
<1>10. CASE ClearAnswered /\ ~Untouched
  <2>1. /\ clearing' = "none" /\ UNCHANGED <<shown, touched>>
        /\ \/ UNCHANGED <<pending, stale, followUp, retryTimer, answer>>
           \/ /\ followUp' = TRUE /\ pending # "none"
              /\ UNCHANGED <<pending, stale, retryTimer, answer>>
           \/ /\ pending' = "asked" /\ stale' = FALSE /\ answer' = {} /\ followUp' = FALSE
              /\ retryTimer' = FALSE
    BY <1>1, <1>10 DEF ClearAnswered, Refresh
  <2> QED
    BY <1>1, <1>2, <2>1 DEF ViewTypeOK, ViewInv, ListSound, ToldSound
<1>11. CASE ClearFailed
  <2>1. clearing' = "none"
        /\ UNCHANGED <<shown, pending, answer, stale, followUp, retryTimer, touched>>
    BY <1>11 DEF ClearFailed, controller
  <2> QED
    BY <1>1, <1>2, <2>1 DEF ViewTypeOK, ViewInv, ListSound, ToldSound
<1> QED  BY <1>3, <1>4, <1>5, <1>6, <1>7, <1>8, <1>9, <1>10, <1>11

\* The connection comes and goes.
LEMMA ViewLinks ==
  ASSUME FeedTypeOK, FeedInv, ViewTypeOK, ViewInv,
         \/ Registers /\ UNCHANGED viewVars
         \/ Connected
         \/ \E reported \in BOOLEAN : Drop(reported)
  PROVE  FeedTypeOK' /\ FeedInv' /\ ViewTypeOK' /\ ViewInv'
<1>1. /\ UNCHANGED <<last, cleared, shown, told>>
      /\ \/ link' \in {"registered", "ready"} /\ feed' = feed
         \/ link' = "down" /\ feed' = <<>>
  BY DEF Registers, Connected, Drop, hub, viewVars
<1>2. /\ FeedTypeOK' /\ FeedInv' /\ Ordered(feed', told)
  BY <1>1, Links DEF ViewInv, ToldSound, ViewTypeOK
<1>3. CASE Registers /\ UNCHANGED viewVars
  BY <1>1, <1>2, <1>3 DEF Registers, viewVars, controller, clearVars, ViewTypeOK, ViewInv,
     ListSound, ClearSound, ToldSound
<1>4. CASE Connected
  <2>1. /\ link' = "ready" /\ enabled' = TRUE /\ touched' = TRUE /\ UNCHANGED clearing
        /\ \/ /\ pending' = "asked" /\ stale' = FALSE /\ answer' = {} /\ followUp' = FALSE
              /\ retryTimer' = FALSE
           \/ /\ pending # "none" /\ stale' = TRUE /\ followUp' = TRUE
              /\ UNCHANGED <<pending, retryTimer, answer>>
    BY <1>4 DEF Connected, InvalidateAndRefresh, Refresh, ViewTypeOK
  <2> QED
    BY <1>1, <1>2, <2>1 DEF ViewTypeOK, ViewInv, ListSound, ClearSound, ToldSound
<1>5. ASSUME NEW reported \in BOOLEAN, Drop(reported)
      PROVE  FeedTypeOK' /\ FeedInv' /\ ViewTypeOK' /\ ViewInv'
  <2>1. /\ link' = "down" /\ answer' = answer
        /\ pending' \in {"none", "aborted"} /\ clearing' \in {"none", "aborted"}
        /\ enabled' \in {FALSE, enabled} /\ retryTimer' \in {FALSE, retryTimer}
        /\ followUp' \in {FALSE, followUp}
        /\ stale' \in {TRUE, stale} /\ touched' \in {TRUE, touched}
    BY <1>5 DEF Drop, Invalidate
  <2> QED
    BY <1>1, <1>2, <2>1 DEF ViewTypeOK, ViewInv, ListSound, ClearSound, ToldSound
<1> QED  BY <1>3, <1>4, <1>5

\* A message is heard, and what is underway beside it becomes stale.
LEMMA ViewHears ==
  ASSUME FeedTypeOK, FeedInv, ViewTypeOK, ViewInv, HearEvent \/ HearClear
  PROVE  FeedTypeOK' /\ FeedInv' /\ ViewTypeOK' /\ ViewInv'
<1>1. /\ feed # <<>> /\ feed' = Tail(feed) /\ UNCHANGED <<last, cleared, link>>
      /\ stale' = TRUE /\ touched' = TRUE
      /\ UNCHANGED <<enabled, pending, answer, followUp, retryTimer, clearing>>
  BY DEF HearEvent, HearClear, hub, Invalidate
<1>2. /\ FeedTypeOK' /\ FeedInv' /\ History' = History /\ Head(feed).event \in Nat
      /\ Head(feed).type = "hub.history-cleared" => Head(feed).event <= cleared
  BY <1>1, Hears
<1>3. /\ Ordered(Tail(feed), told)
      /\ Head(feed).type = "clipboard.update" => Head(feed).event > told
      /\ Head(feed).type = "hub.history-cleared" => Ordered(Tail(feed), Head(feed).event)
  BY <1>1, HeardOrdered DEF FeedTypeOK, ViewTypeOK, ViewInv, ToldSound
<1>4. CASE HearEvent
  <2>1. /\ Head(feed).type = "clipboard.update" /\ shown' = shown \cup {Head(feed).event}
        /\ told' = told
    BY <1>4 DEF HearEvent
  <2>2. Synced(shown, feed, History) => Synced(shown', feed', History)
    BY <1>1, <2>1, EventHeard DEF FeedTypeOK
  <2>3. shown' \cap 1..told = {}
    BY <1>2, <1>3, <2>1 DEF ViewInv, ToldSound, ViewTypeOK
  <2> QED
    BY <1>1, <1>2, <1>3, <2>1, <2>2, <2>3 DEF ViewTypeOK, ViewInv, ListSound, ClearSound, ToldSound
<1>5. CASE HearClear
  <2>1. /\ Head(feed).type = "hub.history-cleared" /\ shown' = {} /\ told' = Head(feed).event
    BY <1>5 DEF HearClear
  <2>2. Synced(shown, feed, History) => Synced(shown', feed', History)
    BY <1>1, <2>1, ClearHeard DEF FeedTypeOK
  <2> QED
    BY <1>1, <1>2, <1>3, <2>1, <2>2 DEF ViewTypeOK, ViewInv, ListSound, ClearSound, ToldSound
<1> QED  BY <1>4, <1>5

LEMMA ViewSound ==
  ASSUME FeedTypeOK, FeedInv, ViewTypeOK, ViewInv, Next
  PROVE  FeedTypeOK' /\ FeedInv' /\ ViewTypeOK' /\ ViewInv'
<1>1. CASE \/ HubAnswers \/ LoadAnswered \/ LoadFailed \/ RetryFires
           \/ Change \/ RefreshAsked \/ AskClear \/ ClearAnswered \/ ClearFailed
  <2>1. UNCHANGED feedVars
    BY <1>1 DEF HubAnswers, LoadAnswered, LoadFailed, RetryFires, Change, RefreshAsked, AskClear,
       ClearAnswered, ClearFailed
  <2>2. FeedTypeOK' /\ FeedInv'
    BY <2>1 DEF feedVars, hub, wire, FeedTypeOK, FeedInv, History
  <2> QED  BY <1>1, <2>2, ViewMoves
<1>2. CASE Connected \/ (Registers /\ UNCHANGED viewVars) \/ \E reported \in BOOLEAN : Drop(reported)
  BY <1>2, ViewLinks
<1>3. CASE HearEvent \/ HearClear
  BY <1>3, ViewHears
<1>4. CASE (HubStores \/ HubClears) /\ UNCHANGED viewVars
  BY <1>4, Sends, ViewSends DEF HubClears, Cleared, SendsClear, viewVars, controller, clearVars
<1>5. CASE HubClearsForUs \/ NothingToClear
  <2>1. /\ SendsClear /\ UNCHANGED <<shown, controller, touched, told>>
        /\ clearing' \in {"answered", "aborted"}
    BY <1>5 DEF HubClearsForUs, NothingToClear, Cleared, SendsClear, hub
  <2> QED  BY <2>1, Sends, ViewSends
<1> QED  BY <1>1, <1>2, <1>3, <1>4, <1>5 DEF Next, Work

(***************************************************************************)
(* The list of the Mac application.                                        *)
(***************************************************************************)

Gets ==
    [answered : BOOLEAN, answer : SUBSET Nat, old : BOOLEAN, stale : BOOLEAN,
     retryOnStale : BOOLEAN]

MacTypeOK ==
    /\ rawHistory \in SUBSET Nat /\ macTold \in Nat /\ missed \in BOOLEAN
    /\ gets \in Seq(Gets) /\ deletes \in Seq({"asked", "answered"})

\* While no GET of this connection is underway, and none was lost, what is underway
\* leads from the list to the history.
MacListSound ==
    link = "ready" /\ ~missed =>
        Synced(rawHistory, feed, History) \/ \E i \in DOMAIN gets : ~gets[i].old

\* It does so from an answer that is neither old nor stale, and this one is younger
\* than the last clear that was heard of.
GetSound(g, l, f, h, t) ==
    g.answered /\ ~g.old /\ ~g.stale =>
        /\ l = "ready" => Synced(g.answer, f, h)
        /\ g.answer \cap 1..t = {}

GetsSound == \A i \in DOMAIN gets : GetSound(gets[i], link, feed, History, macTold)

MacToldSound == macTold <= cleared /\ Ordered(feed, macTold) /\ rawHistory \cap 1..macTold = {}

MacInv == MacListSound /\ GetsSound /\ MacToldSound

\* What is left when one is removed.
LEMMA RemovedAt ==
  ASSUME NEW T, NEW s \in Seq(T), NEW i \in DOMAIN s
  PROVE  /\ RemoveAt(s, i) \in Seq(T)
         /\ \A k \in DOMAIN RemoveAt(s, i) : \E j \in DOMAIN s : RemoveAt(s, i)[k] = s[j]
         /\ \A j \in DOMAIN s : j # i =>
               \E k \in DOMAIN RemoveAt(s, i) : RemoveAt(s, i)[k] = s[j]
<1> DEFINE n == Len(s)
           a == SubSeq(s, 1, i - 1)
           b == SubSeq(s, i + 1, n)
           r == a \o b
<1>1. n \in Nat /\ i \in 1..n /\ DOMAIN s = 1..n /\ i \in Nat
  OBVIOUS
<1>2. /\ a \in Seq(T) /\ Len(a) = i - 1 /\ \A k \in 1..(i - 1) : a[k] = s[k]
      /\ b \in Seq(T) /\ Len(b) = n - i /\ \A k \in 1..(n - i) : b[k] = s[i + k]
  BY <1>1
<1> HIDE DEF a, b, n
<1>3. /\ r \in Seq(T) /\ DOMAIN r = 1..(n - 1)
      /\ \A k \in 1..(i - 1) : r[k] = s[k]
      /\ \A k \in i..(n - 1) : r[k] = b[k - (i - 1)]
  <2>1. /\ r \in Seq(T) /\ Len(r) = (i - 1) + (n - i)
        /\ \A k \in 1..((i - 1) + (n - i)) :
              r[k] = IF k <= i - 1 THEN a[k] ELSE b[k - (i - 1)]
    <3>1. /\ r \in Seq(T) /\ Len(r) = Len(a) + Len(b)
          /\ \A k \in 1 .. Len(a) + Len(b) : r[k] =
                IF k <= Len(a) THEN a[k] ELSE b[k - Len(a)]
      BY <1>2, ConcatProperties, Zenon
    <3> HIDE DEF r
    <3> QED  BY <1>2, <3>1
  <2> HIDE DEF r
  <2>2. (i - 1) + (n - i) = n - 1
    BY <1>1
  <2>3. DOMAIN r = 1..(n - 1)
    BY <2>1, <2>2
  <2>4. \A k \in 1..(i - 1) : k \in 1..((i - 1) + (n - i)) /\ k <= i - 1
    BY <1>1
  <2>5. \A k \in 1..(i - 1) : r[k] = s[k]
    BY <1>2, <2>1, <2>4
  <2>6. \A k \in i..(n - 1) : k \in 1..((i - 1) + (n - i)) /\ ~(k <= i - 1)
    BY <1>1
  <2>7. \A k \in i..(n - 1) : r[k] = b[k - (i - 1)]
    BY <2>1, <2>6
  <2> QED  BY <2>1, <2>3, <2>5, <2>7
<1>4. RemoveAt(s, i) = r
  BY DEF RemoveAt, a, b, n
<1> HIDE DEF r
<1>5. \A k \in i..(n - 1) : r[k] = s[k + 1]
  <2> SUFFICES ASSUME NEW k \in i..(n - 1)  PROVE r[k] = s[k + 1]
    OBVIOUS
  <2>1. k - (i - 1) \in 1..(n - i) /\ i + (k - (i - 1)) = k + 1
    BY <1>1
  <2> QED  BY <1>2, <1>3, <2>1
<1>6. \A k \in 1..(n - 1) : \E j \in 1..n : r[k] = s[j]
  <2> SUFFICES ASSUME NEW k \in 1..(n - 1)  PROVE \E j \in 1..n : r[k] = s[j]
    OBVIOUS
  <2>1. CASE k \in 1..(i - 1)
    BY <1>1, <1>3, <2>1
  <2>2. CASE k \in i..(n - 1)
    <3>1. k + 1 \in 1..n
      BY <1>1, <2>2
    <3> QED  BY <1>5, <2>2, <3>1
  <2> QED  BY <1>1, <2>1, <2>2
<1>7. \A j \in 1..n : j # i => \E k \in 1..(n - 1) : r[k] = s[j]
  <2> SUFFICES ASSUME NEW j \in 1..n, j # i  PROVE \E k \in 1..(n - 1) : r[k] = s[j]
    OBVIOUS
  <2>1. CASE j < i
    <3>1. j \in 1..(i - 1) /\ j \in 1..(n - 1)
      BY <1>1, <2>1
    <3> QED  BY <1>3, <3>1
  <2>2. CASE j > i
    <3>1. j - 1 \in i..(n - 1) /\ j - 1 \in 1..(n - 1) /\ (j - 1) + 1 = j
      BY <1>1, <2>2
    <3> QED  BY <1>5, <3>1
  <2> QED  BY <1>1, <2>1, <2>2
<1> QED  BY <1>1, <1>3, <1>4, <1>6, <1>7

\* The GETs become old, or stale.
LEMMA GetsOutdated ==
  ASSUME MacTypeOK
  PROVE  /\ Outdated("old") \in Seq(Gets) /\ Outdated("stale") \in Seq(Gets)
         /\ DOMAIN Outdated("old") = DOMAIN gets /\ DOMAIN Outdated("stale") = DOMAIN gets
         /\ \A i \in DOMAIN gets :
               /\ Outdated("old")[i].old /\ Outdated("stale")[i].stale
               /\ Outdated("stale")[i].old = gets[i].old
<1>1. /\ DOMAIN gets = 1..Len(gets) /\ Len(gets) \in Nat
      /\ \A i \in DOMAIN gets : gets[i] \in Gets
  BY DEF MacTypeOK
<1>2. ASSUME NEW i \in DOMAIN gets
      PROVE  /\ [gets[i] EXCEPT !["old"] = TRUE] \in Gets
             /\ [gets[i] EXCEPT !["old"] = TRUE].old
             /\ [gets[i] EXCEPT !["stale"] = TRUE] \in Gets
             /\ [gets[i] EXCEPT !["stale"] = TRUE].stale
             /\ [gets[i] EXCEPT !["stale"] = TRUE].old = gets[i].old
  BY <1>1 DEF Gets
<1>3. \A field \in {"old", "stale"} :
        /\ Outdated(field) \in Seq(Gets) /\ DOMAIN Outdated(field) = DOMAIN gets
        /\ \A i \in DOMAIN gets : Outdated(field)[i] = [gets[i] EXCEPT ![field] = TRUE]
  <2> SUFFICES ASSUME NEW field \in {"old", "stale"}
               PROVE  Outdated(field) \in [1..Len(gets) -> Gets]
    BY <1>1 DEF Outdated
  <2> QED  BY <1>1, <1>2 DEF Outdated
<1> QED  BY <1>2, <1>3

\* A step that only moves the feed.
LEMMA MacSends ==
  ASSUME FeedTypeOK, FeedInv, MacTypeOK, MacInv, HubStores \/ SendsClear,
         UNCHANGED <<rawHistory, gets, macTold, missed>>,
         deletes' \in Seq({"asked", "answered"})
  PROVE  FeedTypeOK' /\ FeedInv' /\ MacTypeOK' /\ MacInv'
<1>1. /\ FeedTypeOK' /\ FeedInv'
      /\ link' = link /\ macTold <= cleared' /\ Ordered(feed', macTold)
      /\ link # "down" => \A S : Synced(S, feed, History) => Synced(S, feed', History')
  BY Sends DEF MacInv, MacToldSound, MacTypeOK, FeedTypeOK
<1>2. MacTypeOK'
  BY DEF MacTypeOK
<1>3. MacListSound'
  BY <1>1 DEF MacInv, MacListSound
<1>4. GetsSound'
  BY <1>1 DEF MacInv, GetsSound, GetSound
<1>5. MacToldSound'
  BY <1>1 DEF MacInv, MacToldSound
<1> QED  BY <1>1, <1>2, <1>3, <1>4, <1>5 DEF MacInv

\* A new GET is sound, and not old.
LEMMA AsksSound ==
  ASSUME NEW g \in Seq(Gets), NEW again \in BOOLEAN, Asks(g, again),
         \A i \in DOMAIN g : GetSound(g[i], link', feed', History', macTold')
  PROVE  /\ gets' \in Seq(Gets) /\ GetsSound'
         /\ \A i \in DOMAIN g : i \in DOMAIN gets' /\ gets'[i] = g[i]
         /\ link' = "ready" => \E i \in DOMAIN gets' : ~gets'[i].old
<1> DEFINE n == [answered |-> FALSE, answer |-> {}, old |-> FALSE, stale |-> FALSE,
                 retryOnStale |-> again]
<1>1. n \in Gets /\ ~n.old /\ ~n.answered
  BY DEF Gets
<1>2. gets' = IF link' # "ready" THEN g ELSE Append(g, n)
  BY DEF Asks
<1> HIDE DEF n
<1>3. CASE link' # "ready"
  BY <1>2, <1>3 DEF GetsSound
<1>4. CASE link' = "ready"
  <2>1. /\ gets' \in Seq(Gets) /\ Len(g) \in Nat /\ DOMAIN g = 1..Len(g)
        /\ DOMAIN gets' = 1..(Len(g) + 1) /\ gets'[Len(g) + 1] = n
        /\ \A i \in DOMAIN g : gets'[i] = g[i]
    BY <1>1, <1>2, <1>4
  <2>2. ASSUME NEW i \in DOMAIN gets'  PROVE GetSound(gets'[i], link', feed', History', macTold')
    <3>1. CASE i \in DOMAIN g
      <4>1. gets'[i] = g[i]
        BY <2>1, <3>1
      <4> QED  BY <3>1, <4>1 DEF GetSound
    <3>2. CASE i = Len(g) + 1
      <4>1. gets'[i] = n
        BY <2>1, <3>2
      <4> QED  BY <1>1, <4>1 DEF GetSound
    <3> QED  BY <2>1, <3>1, <3>2
  <2>3. Len(g) + 1 \in DOMAIN gets' /\ ~gets'[Len(g) + 1].old
    BY <1>1, <2>1
  <2> QED  BY <2>1, <2>2, <2>3 DEF GetsSound
<1> QED  BY <1>3, <1>4

\* GETs that are all old or stale are sound whatever happens.
LEMMA OutdatedSound ==
  ASSUME MacTypeOK
  PROVE  \A l, f, h, t : \A i \in DOMAIN gets :
            /\ GetSound(Outdated("old")[i], l, f, h, t)
            /\ GetSound(Outdated("stale")[i], l, f, h, t)
BY GetsOutdated DEF GetSound

\* A GET moves, and the hub and the connection do not.
LEMMA MacGetMoves ==
  ASSUME FeedTypeOK, FeedInv, MacTypeOK, MacInv, NEW i \in DOMAIN gets,
         HubAnswersGet(i) \/ GetAnswered(i) \/ GetFails(i)
  PROVE  FeedTypeOK' /\ FeedInv' /\ MacTypeOK' /\ MacInv'
<1>1. /\ UNCHANGED <<last, cleared, link, feed, macTold, deletes>> /\ History' = History
      /\ FeedTypeOK' /\ FeedInv'
  BY DEF HubAnswersGet, GetAnswered, GetFails, feedVars, hub, wire, History, FeedTypeOK, FeedInv
<1>2. /\ gets \in Seq(Gets) /\ gets[i] \in Gets
      /\ macTold \in Nat /\ macTold <= cleared
  BY DEF MacTypeOK, MacInv, MacToldSound
<1>3. CASE HubAnswersGet(i)
  <2> DEFINE g == [gets[i] EXCEPT !.answered = TRUE, !.answer = History]
  <2>1. gets' = [gets EXCEPT ![i] = g] /\ UNCHANGED <<rawHistory, missed>>
    <3>1. gets' = [gets EXCEPT ![i].answered = TRUE, ![i].answer = History]
      BY <1>3 DEF HubAnswersGet
    <3>2. i \in DOMAIN gets /\ gets' = [gets EXCEPT ![i] = g]
      BY <1>2, <3>1
    <3>3. UNCHANGED <<rawHistory, missed>>
      BY <1>3 DEF HubAnswersGet
    <3> QED  BY <3>2, <3>3
  <2>2. g \in Gets /\ g.answer = History /\ g.old = gets[i].old
    BY <1>2, HistoryOf DEF Gets
  <2> HIDE DEF g
  <2>3. /\ gets' \in Seq(Gets) /\ DOMAIN gets' = DOMAIN gets /\ gets'[i] = g
        /\ \A j \in DOMAIN gets : j # i => gets'[j] = gets[j]
    BY <1>2, <2>1, <2>2
  <2>4. History \cap 1..macTold = {}
    BY <1>2 DEF FeedTypeOK, History
  <2>5. GetsSound'
    BY <1>1, <2>2, <2>3, <2>4 DEF MacInv, GetsSound, GetSound, FeedInv
  <2>6. MacListSound'
    BY <1>1, <2>1, <2>2, <2>3 DEF MacInv, MacListSound
  <2> QED
    BY <1>1, <2>1, <2>3, <2>5, <2>6 DEF MacTypeOK, MacInv, MacToldSound
<1>4. DEFINE rest == RemoveAt(gets, i)
<1>5. /\ rest \in Seq(Gets)
      /\ \A k \in DOMAIN rest : \E j \in DOMAIN gets : rest[k] = gets[j]
      /\ \A j \in DOMAIN gets : j # i => \E k \in DOMAIN rest : rest[k] = gets[j]
  BY <1>2, RemovedAt
<1> HIDE DEF rest
<1>6. \A k \in DOMAIN rest : GetSound(rest[k], link, feed, History, macTold)
  BY <1>5 DEF MacInv, GetsSound
<1>7. gets[i].old /\ (\E j \in DOMAIN gets : ~gets[j].old) => \E k \in DOMAIN rest : ~rest[k].old
  BY <1>5
<1>8. CASE GetFails(i)
  <2>1. gets' = rest /\ missed' = (missed \/ ~gets[i].old) /\ UNCHANGED rawHistory
    BY <1>8 DEF GetFails, rest
  <2>2. GetsSound'
    BY <1>1, <1>6, <2>1 DEF GetsSound
  <2>3. MacListSound'
    BY <1>1, <1>7, <2>1 DEF MacInv, MacListSound
  <2>4. missed' \in BOOLEAN
    BY <2>1
  <2> QED
    BY <1>1, <1>5, <2>1, <2>2, <2>3, <2>4 DEF MacTypeOK, MacInv, MacToldSound
<1>9. CASE GetAnswered(i) /\ Current(gets[i])
  <2>1. /\ rawHistory' = gets[i].answer /\ gets' = rest /\ missed' = FALSE
        /\ gets[i].answered /\ ~gets[i].old /\ ~gets[i].stale
    BY <1>9 DEF GetAnswered, Current, rest
  <2>2. /\ link = "ready" => Synced(rawHistory', feed, History)
        /\ rawHistory' \cap 1..macTold = {} /\ rawHistory' \in SUBSET Nat
    BY <1>2, <2>1 DEF MacInv, GetsSound, GetSound, Gets
  <2>3. GetsSound'
    BY <1>1, <1>6, <2>1 DEF GetsSound
  <2> QED
    BY <1>1, <1>5, <2>1, <2>2, <2>3 DEF MacTypeOK, MacInv, MacListSound, MacToldSound
<1>10. CASE GetAnswered(i) /\ ~Current(gets[i]) /\ gets[i].old
  <2>1. gets' = rest /\ UNCHANGED <<rawHistory, missed>>
    BY <1>10 DEF GetAnswered, rest
  <2>2. GetsSound'
    BY <1>1, <1>6, <2>1 DEF GetsSound
  <2>3. MacListSound'
    BY <1>1, <1>7, <1>10, <2>1 DEF MacInv, MacListSound
  <2> QED
    BY <1>1, <1>5, <2>1, <2>2, <2>3 DEF MacTypeOK, MacInv, MacToldSound
<1>11. CASE GetAnswered(i) /\ ~Current(gets[i]) /\ ~gets[i].old
  <2>1. /\ IF gets[i].retryOnStale THEN Asks(rest, FALSE) ELSE gets' = rest
        /\ missed' = (missed \/ ~gets[i].retryOnStale) /\ UNCHANGED rawHistory
    BY <1>11 DEF GetAnswered, rest
  <2>2. CASE gets[i].retryOnStale
    <3>1. /\ gets' \in Seq(Gets) /\ GetsSound'
          /\ link' = "ready" => \E k \in DOMAIN gets' : ~gets'[k].old
      BY <1>1, <1>5, <1>6, <2>1, <2>2, AsksSound
    <3>2. MacListSound'
      BY <3>1 DEF MacListSound
    <3>3. missed' = missed
      BY <2>1, <2>2 DEF MacTypeOK
    <3> QED
      BY <1>1, <2>1, <3>1, <3>2, <3>3 DEF MacTypeOK, MacInv, MacToldSound
  <2>3. CASE ~gets[i].retryOnStale
    <3>1. gets' = rest /\ missed' = TRUE
      BY <2>1, <2>3
    <3>2. GetsSound'
      BY <1>1, <1>6, <3>1 DEF GetsSound
    <3> QED
      BY <1>1, <1>5, <2>1, <3>1, <3>2 DEF MacTypeOK, MacInv, MacListSound, MacToldSound
  <2> QED  BY <2>2, <2>3
<1> QED  BY <1>3, <1>8, <1>9, <1>10, <1>11

\* What the application asks for, and its clears.
LEMMA MacAsksSound ==
  ASSUME FeedTypeOK, FeedInv, MacTypeOK, MacInv,
         \/ MacRefresh \/ MacUpdateRule \/ MacAskClear
         \/ \E i \in DOMAIN deletes : DeleteAnswered(i) \/ DeleteFails(i)
  PROVE  FeedTypeOK' /\ FeedInv' /\ MacTypeOK' /\ MacInv'
<1>1. /\ UNCHANGED <<last, cleared, link, feed, macTold>> /\ History' = History
      /\ FeedTypeOK' /\ FeedInv'
  BY DEF MacRefresh, MacUpdateRule, MacAskClear, DeleteAnswered, DeleteFails,
         feedVars, hub, wire, History, FeedTypeOK, FeedInv
<1>2. CASE MacRefresh
  <2>1. Asks(gets, TRUE) /\ UNCHANGED <<rawHistory, deletes, missed>>
    BY <1>2 DEF MacRefresh
  <2>2. /\ gets' \in Seq(Gets) /\ GetsSound'
        /\ link' = "ready" => \E k \in DOMAIN gets' : ~gets'[k].old
    BY <1>1, <2>1, AsksSound DEF MacTypeOK, MacInv, GetsSound
  <2> QED
    BY <1>1, <2>1, <2>2 DEF MacTypeOK, MacInv, MacListSound, MacToldSound
<1>3. CASE MacUpdateRule
  <2>1. Asks(Outdated("stale"), TRUE) /\ UNCHANGED <<rawHistory, deletes, missed>>
    BY <1>3 DEF MacUpdateRule
  <2>2. /\ gets' \in Seq(Gets) /\ GetsSound'
        /\ link' = "ready" => \E k \in DOMAIN gets' : ~gets'[k].old
    BY <2>1, AsksSound, GetsOutdated, OutdatedSound
  <2> QED
    BY <1>1, <2>1, <2>2 DEF MacTypeOK, MacInv, MacListSound, MacToldSound
<1>4. CASE MacAskClear
  <2>1. deletes' = Append(deletes, "asked") /\ UNCHANGED <<rawHistory, gets, missed>>
    BY <1>4 DEF MacAskClear
  <2>2. deletes' \in Seq({"asked", "answered"})
    BY <2>1 DEF MacTypeOK
  <2> QED
    BY <1>1, <2>1, <2>2 DEF MacTypeOK, MacInv, MacListSound, GetsSound, MacToldSound
<1>5. ASSUME NEW i \in DOMAIN deletes, DeleteAnswered(i)
      PROVE  MacTypeOK' /\ MacInv'
  <2>1. /\ deletes' = RemoveAt(deletes, i) /\ rawHistory' = {} /\ gets' = Outdated("stale")
        /\ missed' = (missed \/ rawHistory \cap History # {})
    BY <1>5 DEF DeleteAnswered
  <2>2. deletes' \in Seq({"asked", "answered"}) /\ missed' \in BOOLEAN
    BY <2>1, RemovedAt DEF MacTypeOK
  <2>3. gets' \in Seq(Gets) /\ GetsSound'
    BY <2>1, GetsOutdated, OutdatedSound DEF GetsSound
  <2>4. MacListSound'
    <3>1. SUFFICES ASSUME link = "ready", ~missed, rawHistory \cap History = {}
                   PROVE  Synced({}, feed, History) \/ \E k \in DOMAIN gets' : ~gets'[k].old
      BY <1>1, <2>1 DEF MacListSound
    <3>2. CASE Synced(rawHistory, feed, History)
      BY <3>1, <3>2, SyncedEmpty
    <3>3. CASE \E k \in DOMAIN gets : ~gets[k].old
      BY <2>1, <3>3, GetsOutdated
    <3> QED  BY <3>1, <3>2, <3>3 DEF MacInv, MacListSound
  <2> QED
    BY <1>1, <2>1, <2>2, <2>3, <2>4 DEF MacTypeOK, MacInv, MacToldSound
<1>6. ASSUME NEW i \in DOMAIN deletes, DeleteFails(i)
      PROVE  MacTypeOK' /\ MacInv'
  <2>1. deletes' = RemoveAt(deletes, i) /\ UNCHANGED <<rawHistory, gets, missed>>
    BY <1>6 DEF DeleteFails
  <2>2. deletes' \in Seq({"asked", "answered"})
    BY <2>1, RemovedAt DEF MacTypeOK
  <2> QED
    BY <1>1, <2>1, <2>2 DEF MacTypeOK, MacInv, MacListSound, GetsSound, MacToldSound
<1> QED  BY <1>1, <1>2, <1>3, <1>4, <1>5, <1>6

\* The connection comes and goes.
LEMMA MacLinks ==
  ASSUME FeedTypeOK, FeedInv, MacTypeOK, MacInv,
         \/ Registers /\ UNCHANGED macVars
         \/ MacConnected \/ MacRestart
         \/ \E reported \in BOOLEAN : MacDrop(reported)
  PROVE  FeedTypeOK' /\ FeedInv' /\ MacTypeOK' /\ MacInv'
<1>1. /\ UNCHANGED <<last, cleared, macTold, deletes, missed>>
      /\ \/ link' \in {"registered", "ready"} /\ feed' = feed
         \/ link' = "down" /\ feed' = <<>>
  BY DEF Registers, MacConnected, MacRestart, MacDrop, hub, macVars
<1>2. /\ FeedTypeOK' /\ FeedInv' /\ Ordered(feed', macTold)
  BY <1>1, Links DEF MacInv, MacToldSound, MacTypeOK
<1>3. CASE MacConnected
  <2>1. Asks(Outdated("old"), TRUE) /\ UNCHANGED rawHistory
    BY <1>3 DEF MacConnected
  <2>2. /\ gets' \in Seq(Gets) /\ GetsSound'
        /\ link' = "ready" => \E k \in DOMAIN gets' : ~gets'[k].old
    BY <2>1, AsksSound, GetsOutdated, OutdatedSound
  <2> QED
    BY <1>1, <1>2, <2>1, <2>2 DEF MacTypeOK, MacInv, MacListSound, MacToldSound
<1>4. ASSUME link' # "ready", rawHistory' \in {{}, rawHistory},
             gets' \in Seq(Gets), DOMAIN gets' = DOMAIN gets,
             \A i \in DOMAIN gets : gets'[i] = gets[i] \/ gets'[i].old
      PROVE  MacTypeOK' /\ MacInv'
  <2>1. GetsSound'
    BY <1>4, <1>1 DEF MacInv, GetsSound, GetSound
  <2> QED
    BY <1>1, <1>2, <1>4, <2>1 DEF MacTypeOK, MacInv, MacListSound, MacToldSound
<1>5. CASE Registers /\ UNCHANGED macVars
  BY <1>2, <1>4, <1>5 DEF Registers, macVars, MacTypeOK
<1>6. CASE \E reported \in BOOLEAN : MacDrop(reported)
  <2>1. link' = "down" /\ UNCHANGED rawHistory /\ gets' \in {gets, Outdated("old")}
    BY <1>6 DEF MacDrop
  <2> QED  BY <1>2, <1>4, <2>1, GetsOutdated DEF MacTypeOK
<1>7. CASE MacRestart
  <2>1. /\ link' = "down" /\ rawHistory' = {}
        /\ gets' = [i \in DOMAIN gets |-> [gets[i] EXCEPT !.old = TRUE, !.stale = TRUE]]
    BY <1>7 DEF MacRestart
  <2>2. /\ DOMAIN gets = 1..Len(gets) /\ Len(gets) \in Nat
        /\ \A i \in DOMAIN gets : gets[i] \in Gets
    BY DEF MacTypeOK
  <2>3. \A i \in DOMAIN gets :
          /\ [gets[i] EXCEPT !.old = TRUE, !.stale = TRUE] \in Gets
          /\ [gets[i] EXCEPT !.old = TRUE, !.stale = TRUE].old
    BY <2>2 DEF Gets
  <2>4. /\ gets' \in [1..Len(gets) -> Gets] /\ DOMAIN gets' = DOMAIN gets
        /\ \A i \in DOMAIN gets : gets'[i].old
    BY <2>1, <2>2, <2>3
  <2>5. gets' \in Seq(Gets)
    BY <2>2, <2>4
  <2> QED  BY <1>2, <1>4, <2>1, <2>4, <2>5
<1> QED  BY <1>2, <1>3, <1>5, <1>6, <1>7

\* A message is heard, and every GET underway becomes stale.
LEMMA MacHears ==
  ASSUME FeedTypeOK, FeedInv, MacTypeOK, MacInv, MacHearEvent \/ MacHearClear
  PROVE  FeedTypeOK' /\ FeedInv' /\ MacTypeOK' /\ MacInv'
<1>1. /\ feed # <<>> /\ feed' = Tail(feed) /\ UNCHANGED <<last, cleared, link, deletes, missed>>
      /\ gets' = Outdated("stale")
  BY DEF MacHearEvent, MacHearClear, hub
<1>2. /\ FeedTypeOK' /\ FeedInv' /\ History' = History /\ Head(feed).event \in Nat
      /\ Head(feed).type = "hub.history-cleared" => Head(feed).event <= cleared
  BY <1>1, Hears
<1>3. /\ Ordered(Tail(feed), macTold)
      /\ Head(feed).type = "clipboard.update" => Head(feed).event > macTold
      /\ Head(feed).type = "hub.history-cleared" => Ordered(Tail(feed), Head(feed).event)
  BY <1>1, HeardOrdered DEF FeedTypeOK, MacTypeOK, MacInv, MacToldSound
<1>4. /\ gets' \in Seq(Gets) /\ GetsSound'
      /\ (\E k \in DOMAIN gets : ~gets[k].old) => \E k \in DOMAIN gets' : ~gets'[k].old
  BY <1>1, GetsOutdated, OutdatedSound DEF GetsSound
<1>5. CASE MacHearEvent
  <2>1. /\ Head(feed).type = "clipboard.update" /\ macTold' = macTold
        /\ rawHistory' = rawHistory \cup {Head(feed).event}
    BY <1>5 DEF MacHearEvent
  <2>2. Synced(rawHistory, feed, History) => Synced(rawHistory', feed', History)
    BY <1>1, <2>1, EventHeard DEF FeedTypeOK
  <2>3. rawHistory' \cap 1..macTold = {}
    BY <1>2, <1>3, <2>1 DEF MacInv, MacToldSound, MacTypeOK
  <2> QED
    BY <1>1, <1>2, <1>3, <1>4, <2>1, <2>2, <2>3 DEF MacTypeOK, MacInv, MacListSound, MacToldSound
<1>6. CASE MacHearClear
  <2>1. /\ Head(feed).type = "hub.history-cleared" /\ macTold' = Head(feed).event
        /\ rawHistory' = {}
    BY <1>6 DEF MacHearClear
  <2>2. Synced(rawHistory, feed, History) => Synced(rawHistory', feed', History)
    BY <1>1, <2>1, ClearHeard DEF FeedTypeOK
  <2> QED
    BY <1>1, <1>2, <1>3, <1>4, <2>1, <2>2 DEF MacTypeOK, MacInv, MacListSound, MacToldSound
<1> QED  BY <1>5, <1>6

LEMMA MacSound ==
  ASSUME FeedTypeOK, FeedInv, MacTypeOK, MacInv, MacNext
  PROVE  FeedTypeOK' /\ FeedInv' /\ MacTypeOK' /\ MacInv'
<1>1. CASE (HubStores \/ HubClears) /\ UNCHANGED macVars
  BY <1>1, MacSends DEF HubClears, Cleared, SendsClear, macVars, MacTypeOK
<1>2. ASSUME NEW i \in DOMAIN deletes, HubDeletes(i)
      PROVE  FeedTypeOK' /\ FeedInv' /\ MacTypeOK' /\ MacInv'
  <2>1. /\ SendsClear /\ UNCHANGED <<rawHistory, gets, macTold, missed>>
        /\ deletes' = [deletes EXCEPT ![i] = "answered"]
    BY <1>2 DEF HubDeletes, Cleared, SendsClear
  <2>2. deletes' \in Seq({"asked", "answered"})
    BY <2>1 DEF MacTypeOK
  <2> QED  BY <2>1, <2>2, MacSends
<1> QED
  BY <1>1, <1>2, MacGetMoves, MacAsksSound, MacLinks, MacHears DEF MacNext, MacWork

(***************************************************************************)
(* The theorems.                                                           *)
(***************************************************************************)

ListsTypeOK == FeedTypeOK /\ ViewTypeOK /\ MacTypeOK

\* Of the two lists only that of the client at hand moves.
ListsInv ==
    /\ FeedInv /\ client \in {"electron", "mac"}
    /\ client = "electron" => ViewInv /\ macTold = 0
    /\ client = "mac" => MacInv /\ told = 0

LEMMA ListsInit == ClientsInit => ListsTypeOK /\ ListsInv
<1> SUFFICES ASSUME ClientsInit  PROVE ListsTypeOK /\ ListsInv
  OBVIOUS
<1>1. /\ last \in Nat /\ cleared = 0 /\ cleared <= last /\ link = "down" /\ feed = <<>>
  BY DEF ClientsInit, Init, FeedInit
<1>2. DOMAIN <<>> = {} /\ <<>> \in Seq(Messages) /\ <<>> \in Seq(Gets)
      /\ <<>> \in Seq({"asked", "answered"})
  OBVIOUS
<1>3. Synced(History, <<>>, History) /\ Ordered(<<>>, 0)
  BY <1>2 DEF Synced, Arrives, HasClear, Ordered
<1>4. FeedTypeOK /\ FeedInv
  BY <1>1, <1>2, <1>3 DEF FeedTypeOK, FeedInv
<1>5. ViewTypeOK /\ ViewInv
  <2>1. /\ shown = {} /\ answer = {} /\ told = 0 /\ pending = "none" /\ clearing = "none"
        /\ enabled = TRUE /\ stale = FALSE /\ followUp = FALSE /\ retryTimer = FALSE
        /\ touched = FALSE
    BY DEF ClientsInit, Init
  <2>2. ViewTypeOK
    BY <2>1 DEF ViewTypeOK
  <2>3. ToldSound
    BY <1>1, <1>3, <2>1 DEF ToldSound
  <2> QED  BY <1>1, <2>2, <2>3 DEF ViewInv, ListSound, ClearSound
<1>6. MacTypeOK /\ MacInv
  <2>1. /\ rawHistory = {} /\ gets = <<>> /\ deletes = <<>> /\ macTold = 0
        /\ missed = FALSE
    BY DEF ClientsInit, MacInit
  <2>2. MacTypeOK
    BY <1>2, <2>1 DEF MacTypeOK
  <2>3. MacToldSound
    BY <1>1, <1>3, <2>1 DEF MacToldSound
  <2> QED  BY <1>1, <1>2, <2>1, <2>2, <2>3 DEF MacInv, MacListSound, GetsSound
<1> QED  BY <1>4, <1>5, <1>6 DEF ClientsInit, Init, MacInit, ListsTypeOK, ListsInv

LEMMA ListsNext ==
  ASSUME ListsTypeOK, ListsInv, [ClientsNext]_allVars
  PROVE  ListsTypeOK' /\ ListsInv'
<1>1. CASE client = "electron" /\ Next /\ UNCHANGED <<macVars, client>>
  <2>1. FeedTypeOK' /\ FeedInv' /\ ViewTypeOK' /\ ViewInv'
    BY <1>1, ViewSound DEF ListsTypeOK, ListsInv
  <2> QED
    BY <1>1, <2>1 DEF ListsTypeOK, ListsInv, macVars, MacTypeOK
<1>2. CASE client = "mac" /\ MacNext /\ UNCHANGED <<viewVars, client>>
  <2>1. FeedTypeOK' /\ FeedInv' /\ MacTypeOK' /\ MacInv'
    BY <1>2, MacSound DEF ListsTypeOK, ListsInv
  <2> QED
    BY <1>2, <2>1 DEF ListsTypeOK, ListsInv, viewVars, controller, clearVars, ViewTypeOK
<1>3. CASE UNCHANGED allVars
  BY <1>3 DEF allVars, feedVars, hub, wire, viewVars, controller, clearVars, macVars,
     ListsTypeOK, FeedTypeOK, ViewTypeOK, MacTypeOK, ListsInv, FeedInv, History,
     ViewInv, ListSound, ClearSound, ToldSound, MacInv, MacListSound, GetsSound, MacToldSound
<1> QED  BY <1>1, <1>2, <1>3 DEF ClientsNext, ElectronStep, MacStep

\* The invariant holds at the start and is kept by every step.
THEOREM ListsInvariant == ClientsSpec => [](ListsTypeOK /\ ListsInv)
<1>1. ListsTypeOK /\ ListsInv /\ [ClientsNext]_allVars => (ListsTypeOK /\ ListsInv)'
  BY ListsNext
<1> QED  BY <1>1, ListsInit, PTL DEF ClientsSpec

\* A connected client that waits for nothing shows exactly the hub's history, but on
\* the Mac for what it has missed.
THEOREM ListStaysCurrent == ClientsSpec => []ListIsCurrent
<1>1. ASSUME ListsTypeOK, ListsInv  PROVE ListIsCurrent
  <2>1. History \in SUBSET Nat
    BY <1>1, HistoryOf DEF ListsTypeOK
  <2>2. CASE client = "electron"
    <3>1. Quiet => Synced(shown, <<>>, History)
      BY <1>1, <2>2 DEF ListsInv, ViewInv, ListSound, Quiet
    <3> QED  BY <1>1, <2>1, <2>2, <3>1, SyncedAtRest
             DEF ListIsCurrent, QuietIsCurrent, ListsTypeOK, ViewTypeOK
  <2>3. CASE client = "mac"
    <3>1. DOMAIN <<>> = {}
      OBVIOUS
    <3>2. MacQuiet /\ ~missed => Synced(rawHistory, <<>>, History)
      BY <1>1, <2>3, <3>1 DEF ListsInv, MacInv, MacListSound, MacQuiet
    <3> QED  BY <1>1, <2>1, <2>3, <3>2, SyncedAtRest
             DEF ListIsCurrent, MacQuietIsCurrent, ListsTypeOK, MacTypeOK
  <2> QED  BY <1>1, <2>2, <2>3 DEF ListsInv
<1> QED  BY <1>1, ListsInvariant, PTL

\* Nothing that a clear has removed is shown again once the client has heard of it.
THEOREM ClearsStay == ClientsSpec => []ClearsHold
<1>1. ASSUME ListsTypeOK, ListsInv  PROVE ClearsHold
  BY <1>1 DEF ListsInv, ViewInv, ToldSound, MacInv, MacToldSound, ClearsHold, ToldClearHolds,
     MacToldClearHolds
<1> QED  BY <1>1, ListsInvariant, PTL
=============================================================================
