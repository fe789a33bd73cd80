---------------------------- MODULE HubClientProofs ----------------------------
(***************************************************************************)
(* The policy handshake of HubClient, for every number of connections, of   *)
(* policies and of faults: a client that says it is connected and waits for *)
(* no answer has the hub filter with the policy its settings ask for.       *)
(***************************************************************************)
EXTENDS HubClient, SequenceTheorems, TLAPS

PolicyMessages == [policy : Policies, revision : Nat \ {0}]

Messages ==
    [type : {"hub.config"}]
    \cup [type : {"hub.devices"}, devices : SUBSET Peers]
    \cup [type : {"hub.receiver-policy-updated"}, revision : Nat]
    \cup [type : {"clipboard.update"}, filtered : Policies \cup {NoPolicy}]

PendingPolicies ==
    [kind : {"pending"}, policy : Policies, revision : Nat \ {0}, attempts : Nat]

Links == {"none", "opening", "accepted", "open", "dead", "cut", "replaced"}

Typed ==
    /\ ws \in Sockets \cup {NoSocket} /\ opened \in BOOLEAN /\ stopped \in BOOLEAN
    /\ wanted \in Policies /\ desired \in Policies \cup {NoPolicy}
    /\ acknowledged \in Policies \cup {NoPolicy}
    /\ pending \in PendingPolicies \cup {None}
    /\ revision \in Nat /\ supported \in {"unknown", "yes", "no"}
    /\ link \in [Sockets -> Links]
    /\ up \in [Sockets -> Seq(PolicyMessages)]
    /\ down \in [Sockets -> Seq(Messages)]
    /\ hubPolicy \in [Sockets -> Policies \cup {NoPolicy}]
    /\ online \in SUBSET Peers /\ revisions \in BOOLEAN

IsAck(m) == m.type = "hub.receiver-policy-updated"
IsUpdate(m) == m.type = "clipboard.update"

\* An acknowledgement of the latest policy, the one numbered r.
IsLatest(m, r, revs) == IsAck(m) /\ (revs => m.revision = r)

\* A connection the client has left, or not opened yet, carries no policy.
Connected ==
    /\ opened => ws \in Sockets /\ link[ws] \in {"open", "dead", "cut", "replaced"}
    /\ ~opened => pending = None /\ acknowledged = NoPolicy
    /\ stopped => ws = NoSocket
    /\ \A s \in Sockets : link[s] = "none" => up[s] = <<>> /\ down[s] = <<>>
    /\ (ws \in Sockets /\ ~opened) =>
         /\ up[ws] = <<>>
         /\ \A i \in 1 .. Len(down[ws]) : ~IsAck(down[ws][i])
    /\ supported = "yes" => revisions

\* The policy of the latest revision.
Latest == IF pending = None THEN acknowledged ELSE pending.policy

\* On an open connection the settings' policy is desired, and the pending one
\* carries the latest revision; with none pending the desired one was taken.
Numbered ==
    /\ opened => desired = wanted
    /\ (opened /\ pending = None) => acknowledged = wanted
    /\ pending # None => pending.revision = revision

\* The policy messages u underway to the hub carry at most the latest revision
\* r, in order, and that one the latest policy p.
SoundUp(u, p, r) ==
    /\ \A i \in 1 .. Len(u) :
         u[i].revision <= r /\ (u[i].revision = r => u[i].policy = p)
    /\ \A i, j \in 1 .. Len(u) : i <= j => u[i].revision <= u[j].revision

\* The acknowledgements underway to the client number policies sent already.
SoundAcks(d, r, revs) ==
    \A i \in 1 .. Len(d) :
        IsAck(d[i]) => IF revs THEN d[i].revision \in 1 .. r ELSE d[i].revision = 0

\* What follows an acknowledgement of the latest policy; with none pending it
\* has arrived, and everything underway follows it.
Follows(d, i, r, k, revs) == IF i = 0 THEN k = None ELSE IsLatest(d[i], r, revs)

\* The hub has then taken the latest policy for good, and filters with it.
SoundTaken(u, d, h, p, r, k, revs) ==
    \A i \in 0 .. Len(d) :
        Follows(d, i, r, k, revs) =>
            /\ h = p
            /\ \A j \in 1 .. Len(u) : u[j].revision = r
            /\ \A j \in i + 1 .. Len(d) : IsUpdate(d[j]) => d[j].filtered = p

\* With a hub that sends no revisions back no policy is sent twice: there is
\* one message or one acknowledgement underway, and neither with none pending.
SoundPlain(u, d, r, k) ==
    /\ Len(u) <= 1
    /\ Len(u) = 1 => /\ u[1].revision = r /\ k # None
                     /\ \A i \in 1 .. Len(d) : ~IsAck(d[i])
    /\ k = None => \A i \in 1 .. Len(d) : ~IsAck(d[i])
    /\ \A i, j \in 1 .. Len(d) : IsAck(d[i]) /\ IsAck(d[j]) => i = j

Sound(u, d, h, p, r, k, revs) ==
    /\ SoundUp(u, p, r) /\ SoundAcks(d, r, revs)
    /\ SoundTaken(u, d, h, p, r, k, revs)
    /\ ~revs => SoundPlain(u, d, r, k)

Underway ==
    opened => Sound(up[ws], down[ws], hubPolicy[ws], Latest, revision, pending, revisions)

IInv == Typed /\ Connected /\ Numbered /\ Underway
-----------------------------------------------------------------------------
(* What is underway: each way the client, the hub or the network changes it. *)

LEMMA NoneIsNotPending ==
    ASSUME NEW k \in PendingPolicies
    PROVE  k # None
BY DEF PendingPolicies, None

LEMMA PendingIsPending ==
    ASSUME NEW p \in Policies, NEW n \in Nat \ {0}, NEW a \in Nat
    PROVE  /\ Pending(p, n, a) \in PendingPolicies /\ Pending(p, n, a) # None
           /\ Pending(p, n, a).policy = p /\ Pending(p, n, a).revision = n
BY DEF Pending, PendingPolicies, None

\* The indices of a sequence that loses its head or gets another one behind it.
LEMMA TailAt ==
    ASSUME NEW S, NEW q \in Seq(S), q # <<>>
    PROVE  /\ Tail(q) \in Seq(S) /\ Len(Tail(q)) = Len(q) - 1 /\ Len(q) \in Nat \ {0}
           /\ \A i \in 1 .. Len(q) - 1 : i + 1 \in 1 .. Len(q) /\ Tail(q)[i] = q[i + 1]
           /\ Head(q) = q[1] /\ Head(q) \in S
<1>1. Len(q) \in Nat \ {0}
    OBVIOUS
<1> QED  BY <1>1

LEMMA JoinAt ==
    ASSUME NEW S, NEW q \in Seq(S), NEW t \in Seq(S)
    PROVE  /\ q \o t \in Seq(S) /\ Len(q \o t) = Len(q) + Len(t)
           /\ Len(q) \in Nat /\ Len(t) \in Nat
           /\ \A i \in 1 .. Len(q) : (q \o t)[i] = q[i]
           /\ \A i \in Len(q) + 1 .. Len(q) + Len(t) :
                  i - Len(q) \in 1 .. Len(t) /\ (q \o t)[i] = t[i - Len(q)]
OBVIOUS

LEMMA AppendAt ==
    ASSUME NEW S, NEW q \in Seq(S), NEW m \in S
    PROVE  /\ Append(q, m) \in Seq(S) /\ Len(Append(q, m)) = Len(q) + 1 /\ Len(q) \in Nat
           /\ \A i \in 1 .. Len(q) : Append(q, m)[i] = q[i]
           /\ Append(q, m)[Len(q) + 1] = m
OBVIOUS

\* The policies underway to the hub are numbered from 1.
LEMMA RevisionAt ==
    ASSUME NEW u \in Seq(PolicyMessages), NEW i \in 1 .. Len(u)
    PROVE  u[i].revision \in Nat \ {0} /\ u[i].policy \in Policies
<1>1. u[i] \in PolicyMessages
    BY ElementOfSeq
<1> QED  BY <1>1 DEF PolicyMessages

Quiet(t) == \A i \in 1 .. Len(t) : ~IsAck(t[i]) /\ ~IsUpdate(t[i])

\* The hub says something else.
LEMMA SaysOther ==
    ASSUME NEW u \in Seq(PolicyMessages), NEW d \in Seq(Messages), NEW h, NEW p,
           NEW r \in Nat, NEW k, NEW revs \in BOOLEAN, Sound(u, d, h, p, r, k, revs),
           NEW t \in Seq(Messages), Quiet(t)
    PROVE  Sound(u, d \o t, h, p, r, k, revs)
<1> DEFINE e == d \o t
<1>1. /\ e \in Seq(Messages) /\ Len(e) = Len(d) + Len(t) /\ Len(d) \in Nat /\ Len(t) \in Nat
      /\ \A i \in 1 .. Len(d) : e[i] = d[i]
      /\ \A i \in Len(d) + 1 .. Len(d) + Len(t) :
             i - Len(d) \in 1 .. Len(t) /\ e[i] = t[i - Len(d)]
    BY JoinAt
<1> HIDE DEF e
<1>2. \A i \in 1 .. Len(e) : IsAck(e[i]) \/ IsUpdate(e[i]) => i \in 1 .. Len(d) /\ e[i] = d[i]
    <2> SUFFICES ASSUME NEW i \in 1 .. Len(e), IsAck(e[i]) \/ IsUpdate(e[i])
                 PROVE  i \in 1 .. Len(d) /\ e[i] = d[i]
        OBVIOUS
    <2>1. CASE i \in 1 .. Len(d)
        BY <1>1, <2>1
    <2>2. CASE i \in Len(d) + 1 .. Len(d) + Len(t)
        <3>1. i - Len(d) \in 1 .. Len(t) /\ e[i] = t[i - Len(d)]
            BY <1>1, <2>2
        <3>2. ~IsAck(t[i - Len(d)]) /\ ~IsUpdate(t[i - Len(d)])
            BY <3>1 DEF Quiet
        <3> QED  BY <3>1, <3>2
    <2> QED  BY <1>1, <2>1, <2>2
<1>3. SoundUp(u, p, r) /\ SoundAcks(e, r, revs)
    BY <1>2 DEF Sound, SoundAcks
<1>4. SoundTaken(u, e, h, p, r, k, revs)
    <2> SUFFICES ASSUME NEW i \in 0 .. Len(e), Follows(e, i, r, k, revs)
                 PROVE  /\ h = p /\ \A j \in 1 .. Len(u) : u[j].revision = r
                        /\ \A j \in i + 1 .. Len(e) : IsUpdate(e[j]) => e[j].filtered = p
        BY DEF SoundTaken
    <2>1. i \in 0 .. Len(d) /\ Follows(d, i, r, k, revs)
        BY <1>1, <1>2 DEF Follows, IsLatest
    <2>2. /\ h = p /\ \A j \in 1 .. Len(u) : u[j].revision = r
          /\ \A j \in i + 1 .. Len(d) : IsUpdate(d[j]) => d[j].filtered = p
        BY <2>1 DEF Sound, SoundTaken
    <2> QED  BY <1>1, <1>2, <2>1, <2>2
<1>5. ~revs => SoundPlain(u, e, r, k)
    BY <1>2 DEF Sound, SoundPlain
<1> QED  BY <1>3, <1>4, <1>5 DEF Sound, e

\* The hub sends a clipboard event.
LEMMA SendsUpdate ==
    ASSUME NEW u \in Seq(PolicyMessages), NEW d \in Seq(Messages),
           NEW h \in Policies \cup {NoPolicy}, NEW p,
           NEW r \in Nat, NEW k, NEW revs \in BOOLEAN, Sound(u, d, h, p, r, k, revs)
    PROVE  Sound(u, Append(d, UpdateMessage(h)), h, p, r, k, revs)
<1> DEFINE m == UpdateMessage(h)
           e == Append(d, m)
<1>0. m \in Messages /\ ~IsAck(m) /\ m.filtered = h
    BY DEF UpdateMessage, Messages, IsAck
<1>1. /\ e \in Seq(Messages) /\ Len(e) = Len(d) + 1 /\ Len(d) \in Nat
      /\ \A i \in 1 .. Len(d) : e[i] = d[i]
      /\ e[Len(d) + 1] = m
    BY <1>0, AppendAt
<1> HIDE DEF e, m
<1>2. \A i \in 1 .. Len(e) : IsAck(e[i]) => i \in 1 .. Len(d) /\ e[i] = d[i]
    BY <1>0, <1>1
<1>3. SoundUp(u, p, r) /\ SoundAcks(e, r, revs)
    BY <1>2 DEF Sound, SoundAcks
<1>4. SoundTaken(u, e, h, p, r, k, revs)
    <2> SUFFICES ASSUME NEW i \in 0 .. Len(e), Follows(e, i, r, k, revs)
                 PROVE  /\ h = p /\ \A j \in 1 .. Len(u) : u[j].revision = r
                        /\ \A j \in i + 1 .. Len(e) : IsUpdate(e[j]) => e[j].filtered = p
        BY DEF SoundTaken
    <2>1. i \in 0 .. Len(d) /\ Follows(d, i, r, k, revs)
        BY <1>1, <1>2 DEF Follows, IsLatest
    <2>2. /\ h = p /\ \A j \in 1 .. Len(u) : u[j].revision = r
          /\ \A j \in i + 1 .. Len(d) : IsUpdate(d[j]) => d[j].filtered = p
        BY <2>1 DEF Sound, SoundTaken
    <2> QED  BY <1>0, <1>1, <2>1, <2>2
<1>5. ~revs => SoundPlain(u, e, r, k)
    BY <1>2 DEF Sound, SoundPlain
<1> QED  BY <1>3, <1>4, <1>5 DEF Sound, e, m

\* The connection fails: nothing more reaches the hub ...
LEMMA LosesUp ==
    ASSUME NEW u \in Seq(PolicyMessages), NEW d \in Seq(Messages), NEW h, NEW p,
           NEW r \in Nat, NEW k, NEW revs \in BOOLEAN, Sound(u, d, h, p, r, k, revs)
    PROVE  Sound(<<>>, d, h, p, r, k, revs)
BY DEF Sound, SoundUp, SoundAcks, SoundTaken, SoundPlain

\* ... nor the client.
LEMMA LosesBoth ==
    ASSUME NEW u \in Seq(PolicyMessages), NEW d \in Seq(Messages), NEW h, NEW p,
           NEW r \in Nat, NEW k, NEW revs \in BOOLEAN, Sound(u, d, h, p, r, k, revs)
    PROVE  Sound(<<>>, <<>>, h, p, r, k, revs)
<1>1. k = None => h = p
    BY DEF Sound, SoundTaken, Follows
<1> QED  BY <1>1 DEF Sound, SoundUp, SoundAcks, SoundTaken, SoundPlain, Follows

LEMMA TailOfUp ==
    ASSUME NEW u \in Seq(PolicyMessages), u # <<>>, NEW p, NEW r \in Nat, SoundUp(u, p, r)
    PROVE  SoundUp(Tail(u), p, r)
<1>1. /\ Len(Tail(u)) = Len(u) - 1 /\ Len(u) \in Nat \ {0}
      /\ \A i \in 1 .. Len(u) - 1 : i + 1 \in 1 .. Len(u) /\ Tail(u)[i] = u[i + 1]
    BY TailAt
<1> QED  BY <1>1 DEF SoundUp

\* The hub refuses a policy message.
LEMMA HubRefuses ==
    ASSUME NEW u \in Seq(PolicyMessages), u # <<>>, NEW d \in Seq(Messages), NEW h, NEW p,
           NEW r \in Nat, NEW k, NEW revs \in BOOLEAN, Sound(u, d, h, p, r, k, revs)
    PROVE  Sound(Tail(u), d, h, p, r, k, revs)
<1>1. /\ Len(Tail(u)) = Len(u) - 1 /\ Len(u) \in Nat \ {0}
      /\ \A i \in 1 .. Len(u) - 1 : i + 1 \in 1 .. Len(u) /\ Tail(u)[i] = u[i + 1]
    BY TailAt
<1>2. SoundUp(Tail(u), p, r)
    BY TailOfUp DEF Sound
<1>3. SoundTaken(Tail(u), d, h, p, r, k, revs)
    BY <1>1 DEF Sound, SoundTaken
<1>4. ~revs => SoundPlain(Tail(u), d, r, k)
    BY <1>1 DEF Sound, SoundPlain
<1> QED  BY <1>2, <1>3, <1>4 DEF Sound

\* The hub takes a policy message and acknowledges it.
LEMMA HubTakes ==
    ASSUME NEW u \in Seq(PolicyMessages), u # <<>>, NEW d \in Seq(Messages), NEW h, NEW p,
           NEW r \in Nat, NEW k, NEW revs \in BOOLEAN, Sound(u, d, h, p, r, k, revs)
    PROVE  Sound(Tail(u),
                 Append(d, AckMessage(IF revs THEN Head(u).revision ELSE 0)),
                 Head(u).policy, p, r, k, revs)
<1> DEFINE n == IF revs THEN Head(u).revision ELSE 0
           m == AckMessage(n)
           e == Append(d, m)
<1>1. /\ Len(Tail(u)) = Len(u) - 1 /\ Len(u) \in Nat \ {0} /\ Head(u) = u[1]
      /\ Head(u) \in PolicyMessages
      /\ \A i \in 1 .. Len(u) - 1 : i + 1 \in 1 .. Len(u) /\ Tail(u)[i] = u[i + 1]
    BY TailAt
<1>2. Head(u).revision \in Nat \ {0} /\ n \in Nat
    BY <1>1 DEF PolicyMessages
<1>3. m \in Messages /\ IsAck(m) /\ ~IsUpdate(m) /\ m.revision = n
    BY <1>2 DEF AckMessage, Messages, IsAck, IsUpdate
<1>4. /\ e \in Seq(Messages) /\ Len(e) = Len(d) + 1 /\ Len(d) \in Nat
      /\ \A i \in 1 .. Len(d) : e[i] = d[i]
      /\ e[Len(d) + 1] = m
    BY <1>3, AppendAt
<1>5. n = IF revs THEN Head(u).revision ELSE 0
    OBVIOUS
<1> HIDE DEF e, m, n
<1>6. SoundUp(Tail(u), p, r)
    BY TailOfUp DEF Sound
<1>7. /\ Head(u).revision <= r /\ (Head(u).revision = r => Head(u).policy = p)
      /\ \A j \in 1 .. Len(u) : Head(u).revision <= u[j].revision /\ u[j].revision <= r
    BY <1>1 DEF Sound, SoundUp
<1>8. SoundAcks(e, r, revs)
    BY <1>2, <1>3, <1>4, <1>5, <1>7 DEF Sound, SoundAcks
<1>9. SoundTaken(Tail(u), e, Head(u).policy, p, r, k, revs)
    <2> SUFFICES ASSUME NEW i \in 0 .. Len(e), Follows(e, i, r, k, revs)
                 PROVE  /\ Head(u).policy = p
                        /\ \A j \in 1 .. Len(Tail(u)) : Tail(u)[j].revision = r
                        /\ \A j \in i + 1 .. Len(e) : IsUpdate(e[j]) => e[j].filtered = p
        BY DEF SoundTaken
    <2>1. CASE i = Len(d) + 1
        <3>1. revs => Head(u).revision = r
            BY <1>3, <1>4, <1>5, <2>1 DEF Follows, IsLatest
        <3>2. ~revs => Head(u).revision = r /\ Len(u) = 1
            BY <1>1 DEF Sound, SoundPlain
        <3>3. \A j \in 1 .. Len(u) : u[j].revision = r
            <4> SUFFICES ASSUME NEW j \in 1 .. Len(u)  PROVE u[j].revision = r
                OBVIOUS
            <4>1. u[j].revision \in Nat
                BY RevisionAt
            <4> QED  BY <1>7, <3>1, <3>2, <4>1
        <3> QED  BY <1>1, <1>4, <1>7, <2>1, <3>1, <3>2, <3>3
    <2>2. CASE i \in 0 .. Len(d)
        <3>1. Follows(d, i, r, k, revs)
            BY <1>4, <2>2 DEF Follows
        <3>2. /\ \A j \in 1 .. Len(u) : u[j].revision = r
              /\ \A j \in i + 1 .. Len(d) : IsUpdate(d[j]) => d[j].filtered = p
            BY <2>2, <3>1 DEF Sound, SoundTaken
        <3> QED  BY <1>1, <1>3, <1>4, <1>7, <2>2, <3>2
    <2> QED  BY <1>4, <2>1, <2>2
<1>10. ~revs => SoundPlain(Tail(u), e, r, k)
    BY <1>1, <1>3, <1>4 DEF Sound, SoundPlain
<1> QED  BY <1>6, <1>8, <1>9, <1>10 DEF Sound, e, m, n

LEMMA TailOfAcks ==
    ASSUME NEW d \in Seq(Messages), d # <<>>, NEW r \in Nat, NEW revs \in BOOLEAN,
           SoundAcks(d, r, revs)
    PROVE  SoundAcks(Tail(d), r, revs)
<1>1. /\ Len(Tail(d)) = Len(d) - 1 /\ Len(d) \in Nat \ {0}
      /\ \A i \in 1 .. Len(d) - 1 : i + 1 \in 1 .. Len(d) /\ Tail(d)[i] = d[i + 1]
    BY TailAt
<1> QED  BY <1>1 DEF SoundAcks

\* The client hears something else than the answer it waits for.
LEMMA HearsOther ==
    ASSUME NEW u \in Seq(PolicyMessages), NEW d \in Seq(Messages), d # <<>>, NEW h, NEW p,
           NEW r \in Nat, NEW k, NEW revs \in BOOLEAN, Sound(u, d, h, p, r, k, revs),
           k = None \/ ~IsLatest(Head(d), r, revs)
    PROVE  Sound(u, Tail(d), h, p, r, k, revs)
<1>1. /\ Len(Tail(d)) = Len(d) - 1 /\ Len(d) \in Nat \ {0} /\ Head(d) = d[1]
      /\ \A i \in 1 .. Len(d) - 1 : i + 1 \in 1 .. Len(d) /\ Tail(d)[i] = d[i + 1]
    BY TailAt
<1>2. SoundUp(u, p, r) /\ SoundAcks(Tail(d), r, revs)
    BY TailOfAcks DEF Sound
<1>3. SoundTaken(u, Tail(d), h, p, r, k, revs)
    <2> SUFFICES ASSUME NEW i \in 0 .. Len(Tail(d)), Follows(Tail(d), i, r, k, revs)
                 PROVE  /\ h = p /\ \A j \in 1 .. Len(u) : u[j].revision = r
                        /\ \A j \in i + 1 .. Len(Tail(d)) :
                               IsUpdate(Tail(d)[j]) => Tail(d)[j].filtered = p
        BY DEF SoundTaken
    <2>1. PICK n \in 0 .. Len(d) : n <= i + 1 /\ Follows(d, n, r, k, revs)
        <3>1. CASE i = 0
            BY <1>1, <3>1 DEF Follows
        <3>2. CASE i # 0
            <4>1. i + 1 \in 1 .. Len(d) /\ Follows(d, i + 1, r, k, revs)
                BY <1>1, <3>2 DEF Follows
            <4> QED  BY <4>1
        <3> QED  BY <3>1, <3>2
    <2>2. /\ h = p /\ \A j \in 1 .. Len(u) : u[j].revision = r
          /\ \A j \in n + 1 .. Len(d) : IsUpdate(d[j]) => d[j].filtered = p
        BY <2>1 DEF Sound, SoundTaken
    <2> QED  BY <1>1, <2>1, <2>2
<1>4. ~revs => SoundPlain(u, Tail(d), r, k)
    BY <1>1 DEF Sound, SoundPlain
<1> QED  BY <1>2, <1>3, <1>4 DEF Sound

\* The client hears the answer: no policy is pending then.
LEMMA HearsAnswer ==
    ASSUME NEW u \in Seq(PolicyMessages), NEW d \in Seq(Messages), d # <<>>, NEW h, NEW p,
           NEW r \in Nat, NEW k, NEW revs \in BOOLEAN, Sound(u, d, h, p, r, k, revs),
           IsLatest(Head(d), r, revs)
    PROVE  Sound(u, Tail(d), h, p, r, None, revs)
<1>1. /\ Len(Tail(d)) = Len(d) - 1 /\ Len(d) \in Nat \ {0} /\ Head(d) = d[1]
      /\ \A i \in 1 .. Len(d) - 1 : i + 1 \in 1 .. Len(d) /\ Tail(d)[i] = d[i + 1]
    BY TailAt
<1>2. SoundUp(u, p, r) /\ SoundAcks(Tail(d), r, revs)
    BY TailOfAcks DEF Sound
<1>3. Follows(d, 1, r, k, revs)
    BY <1>1 DEF Follows
<1>4. /\ h = p /\ \A j \in 1 .. Len(u) : u[j].revision = r
      /\ \A j \in 2 .. Len(d) : IsUpdate(d[j]) => d[j].filtered = p
    BY <1>1, <1>3 DEF Sound, SoundTaken
<1>5. SoundTaken(u, Tail(d), h, p, r, None, revs)
    BY <1>1, <1>4 DEF SoundTaken
<1>6. ~revs => SoundPlain(u, Tail(d), r, None)
    BY <1>1 DEF Sound, SoundPlain, IsLatest
<1> QED  BY <1>2, <1>5, <1>6 DEF Sound

\* Without revisions, nothing is underway when no policy is pending.
LEMMA NothingUnderway ==
    ASSUME NEW u \in Seq(PolicyMessages), NEW d, NEW r, SoundPlain(u, d, r, None)
    PROVE  Len(u) = 0 /\ \A i \in 1 .. Len(d) : ~IsAck(d[i])
<1>1. Len(u) \in Nat /\ Len(u) <= 1 /\ Len(u) # 1
    BY DEF SoundPlain
<1>2. Len(u) = 0
    <2>1. \A n \in Nat : n <= 1 /\ n # 1 => n = 0
        OBVIOUS
    <2> QED  BY <1>1, <2>1
<1>3. \A i \in 1 .. Len(d) : ~IsAck(d[i])
    BY DEF SoundPlain
<1> QED  BY <1>2, <1>3

\* With no policy pending the next one is numbered, and sent or not.
LEMMA SendsNext ==
    ASSUME NEW u \in Seq(PolicyMessages), NEW d \in Seq(Messages), NEW h, NEW p,
           NEW r \in Nat, NEW revs \in BOOLEAN, Sound(u, d, h, p, r, None, revs),
           NEW q \in Policies, NEW v \in {u, Append(u, PolicyMessage(q, r + 1))}
    PROVE  Sound(v, d, h, q, r + 1, Pending(q, r + 1, 1), revs)
<1> DEFINE m == PolicyMessage(q, r + 1)
           w == Append(u, m)
           k == Pending(q, r + 1, 1)
<1>1. m \in PolicyMessages /\ m.revision = r + 1 /\ m.policy = q
    BY DEF PolicyMessage, PolicyMessages
<1>2. /\ w \in Seq(PolicyMessages) /\ Len(w) = Len(u) + 1 /\ Len(u) \in Nat
      /\ \A i \in 1 .. Len(u) : w[i] = u[i]
      /\ w[Len(u) + 1] = m
    BY <1>1, AppendAt
<1>3. k # None
    BY PendingIsPending
<1>4. v \in {u, w}
    OBVIOUS
<1> HIDE DEF m, w, k
<1>5. \A i \in 1 .. Len(u) : u[i].revision \in Nat /\ u[i].revision <= r
    BY RevisionAt DEF Sound, SoundUp
<1>6. SoundUp(v, q, r + 1)
    <2>0. \A i, j \in 1 .. Len(u) : i <= j => u[i].revision <= u[j].revision
        BY DEF Sound, SoundUp
    <2>1. CASE v = u
        <3>1. \A i \in 1 .. Len(u) : u[i].revision <= r + 1 /\ u[i].revision # r + 1
            BY <1>5
        <3> QED  BY <2>0, <2>1, <3>1 DEF SoundUp
    <2>2. CASE v = w
        <3>1. \A i \in 1 .. Len(w) :
                  (i \in 1 .. Len(u) /\ w[i] = u[i]) \/ (i = Len(u) + 1 /\ w[i] = m)
            BY <1>2
        <3>2. \A i \in 1 .. Len(w) :
                  w[i].revision <= r + 1 /\ (w[i].revision = r + 1 => w[i].policy = q)
            BY <1>1, <1>5, <3>1
        <3>3. \A i, j \in 1 .. Len(w) : i <= j => w[i].revision <= w[j].revision
            <4> SUFFICES ASSUME NEW i \in 1 .. Len(w), NEW j \in 1 .. Len(w), i <= j
                         PROVE  w[i].revision <= w[j].revision
                OBVIOUS
            <4>1. CASE j \in 1 .. Len(u)
                <5>1. i \in 1 .. Len(u)
                    BY <1>2, <4>1
                <5> QED  BY <1>2, <2>0, <4>1, <5>1
            <4>2. CASE w[j] = m
                BY <1>1, <3>2, <4>2
            <4> QED  BY <3>1, <4>1, <4>2
        <3> QED  BY <2>2, <3>2, <3>3 DEF SoundUp
    <2> QED  BY <1>4, <2>1, <2>2
<1>7. SoundAcks(d, r + 1, revs)
    BY DEF Sound, SoundAcks
<1>8. ~revs => SoundPlain(v, d, r + 1, k)
    <2> SUFFICES ASSUME ~revs  PROVE SoundPlain(v, d, r + 1, k)
        OBVIOUS
    <2>0. Len(u) = 0 /\ \A i \in 1 .. Len(d) : ~IsAck(d[i])
        BY NothingUnderway DEF Sound
    <2>1. CASE v = u
        BY <2>0, <2>1 DEF SoundPlain
    <2>2. CASE v = w
        <3>1. Len(v) = 1 /\ v[1].revision = r + 1
            BY <1>1, <1>2, <2>0, <2>2
        <3> QED  BY <1>3, <2>0, <3>1 DEF SoundPlain
    <2> QED  BY <1>4, <2>1, <2>2
<1>9. \A i \in 0 .. Len(d) : ~Follows(d, i, r + 1, k, revs)
    BY <1>3 DEF Sound, SoundAcks, SoundPlain, Follows, IsLatest
<1>10. SoundTaken(v, d, h, q, r + 1, k, revs)
    BY <1>9 DEF SoundTaken
<1> QED  BY <1>6, <1>7, <1>8, <1>10 DEF Sound, k

\* A pending policy is sent once more, to a hub that sends revisions back.
LEMMA SendsAgain ==
    ASSUME NEW u \in Seq(PolicyMessages), NEW d \in Seq(Messages), NEW h, NEW p \in Policies,
           NEW r \in Nat \ {0}, NEW k \in PendingPolicies, NEW l \in PendingPolicies,
           Sound(u, d, h, p, r, k, TRUE)
    PROVE  Sound(Append(u, PolicyMessage(p, r)), d, h, p, r, l, TRUE)
<1> DEFINE m == PolicyMessage(p, r)
           w == Append(u, m)
<1>1. m \in PolicyMessages /\ m.revision = r /\ m.policy = p
    BY DEF PolicyMessage, PolicyMessages
<1>2. /\ w \in Seq(PolicyMessages) /\ Len(w) = Len(u) + 1 /\ Len(u) \in Nat
      /\ \A i \in 1 .. Len(u) : w[i] = u[i]
      /\ w[Len(u) + 1] = m
    BY <1>1, AppendAt
<1>3. k # None /\ l # None
    BY NoneIsNotPending
<1> HIDE DEF m, w
<1>4. SoundUp(w, p, r)
    BY <1>1, <1>2 DEF Sound, SoundUp
<1>5. SoundTaken(w, d, h, p, r, l, TRUE)
    <2> SUFFICES ASSUME NEW i \in 0 .. Len(d), Follows(d, i, r, l, TRUE)
                 PROVE  /\ h = p /\ \A j \in 1 .. Len(w) : w[j].revision = r
                        /\ \A j \in i + 1 .. Len(d) : IsUpdate(d[j]) => d[j].filtered = p
        BY DEF SoundTaken
    <2>1. Follows(d, i, r, k, TRUE)
        BY <1>3 DEF Follows
    <2>2. /\ h = p /\ \A j \in 1 .. Len(u) : u[j].revision = r
          /\ \A j \in i + 1 .. Len(d) : IsUpdate(d[j]) => d[j].filtered = p
        BY <2>1 DEF Sound, SoundTaken
    <2>3. \A j \in 1 .. Len(w) : j \in 1 .. Len(u) \/ j = Len(u) + 1
        BY <1>2
    <2> QED  BY <1>1, <1>2, <2>2, <2>3
<1> QED  BY <1>4, <1>5 DEF Sound, w, m

\* A connection on which nothing is underway but what the hub says first.
LEMMA StartsSound ==
    ASSUME NEW d \in Seq(Messages), NEW h, NEW p \in Policies, NEW r \in Nat,
           NEW revs \in BOOLEAN, \A i \in 1 .. Len(d) : ~IsAck(d[i])
    PROVE  Sound(<<PolicyMessage(p, r + 1)>>, d, h, p, r + 1, Pending(p, r + 1, 1), revs)
<1> DEFINE m == PolicyMessage(p, r + 1)
           k == Pending(p, r + 1, 1)
<1>1. m.revision = r + 1 /\ m.policy = p
    BY DEF PolicyMessage
<1>2. k # None
    BY PendingIsPending
<1> HIDE DEF m, k
<1>3. \A i \in 0 .. Len(d) : ~Follows(d, i, r + 1, k, revs)
    BY <1>2 DEF Follows, IsLatest
<1> QED  BY <1>1, <1>2, <1>3 DEF Sound, SoundUp, SoundAcks, SoundTaken, SoundPlain, m, k
-----------------------------------------------------------------------------
(* The invariant, action by action.                                          *)

\* The client has left the connection, or begins another.
LEMMA Leaves ==
    ASSUME IInv, Typed', ~opened', pending' = None, acknowledged' = NoPolicy,
           stopped' => ws' = NoSocket,
           \A s \in Sockets : link'[s] = "none" => up'[s] = <<>> /\ down'[s] = <<>>,
           ws' \in Sockets => up'[ws'] = <<>> /\ down'[ws'] = <<>>,
           supported' = "unknown"
    PROVE  IInv'
BY DEF IInv, Connected, Numbered, Underway

LEMMA InitIInv == Init => IInv
<1> SUFFICES ASSUME Init PROVE IInv
    OBVIOUS
<1>1. Typed
    BY EmptySeq DEF Init, Typed, Links, None
<1> QED  BY <1>1 DEF Init, IInv, Connected, Numbered, Underway

LEMMA DroppedTyped ==
    ASSUME Typed
    PROVE  /\ Dropped \in [Sockets -> Links] /\ UpDropped \in [Sockets -> Seq(PolicyMessages)]
           /\ \A s \in Sockets : Dropped[s] = "none" => link[s] = "none"
           /\ \A s \in Sockets : up[s] = <<>> => UpDropped[s] = <<>>
           /\ ws \in Sockets => Dropped[ws] # "none" /\ UpDropped[ws] = <<>>
<1>1. ws \in Sockets \cup {NoSocket} /\ NoSocket \notin Sockets
    BY HubClientAssumption DEF Typed
<1>2. CASE ws = NoSocket
    BY <1>1, <1>2 DEF Dropped, UpDropped, Typed
<1>3. CASE ws \in Sockets
    BY <1>1, <1>3, EmptySeq DEF Dropped, UpDropped, Typed, Links
<1> QED  BY <1>1, <1>2, <1>3

\* connect(), from the reconnect timer or after a wake-up.
LEMMA ConnectIInv ==
    ASSUME IInv, Connect, UNCHANGED stopped
    PROVE  IInv'
<1> USE DroppedTyped DEF IInv
<1>1. /\ ~opened' /\ opened' \in BOOLEAN /\ pending' = None /\ acknowledged' = NoPolicy
      /\ desired' = NoPolicy /\ supported' = "unknown"
      /\ UNCHANGED <<wanted, revision, hubPolicy, online, revisions, down>>
      /\ up' = UpDropped
    BY DEF Connect, Retire
<1>2. CASE stopped
    <2>1. ws' = NoSocket /\ link' = Dropped
        BY <1>2 DEF Connect
    <2>2. Typed'
        BY <1>1, <2>1 DEF Typed
    <2>3. ws' \notin Sockets
        BY <2>1, HubClientAssumption
    <2>4. \A s \in Sockets : link'[s] = "none" => up'[s] = <<>> /\ down'[s] = <<>>
        BY <1>1, <2>1 DEF Connected
    <2> QED  BY <1>1, <2>1, <2>2, <2>3, <2>4, Leaves
<1>3. CASE ~stopped
    <2>1. PICK s \in Sockets : /\ link[s] = "none" /\ ws' = s
                               /\ link' = [Dropped EXCEPT ![s] = "opening"]
        BY <1>3 DEF Connect
    <2>2. Typed'
        BY <1>1, <2>1 DEF Typed, Links
    <2>3. \A t \in Sockets : link'[t] = "none" => up'[t] = <<>> /\ down'[t] = <<>>
        BY <1>1, <2>1 DEF Connected
    <2>4. up'[s] = <<>> /\ down'[s] = <<>>
        BY <1>1, <2>1 DEF Connected
    <2> QED  BY <1>1, <1>3, <2>1, <2>2, <2>3, <2>4, Leaves DEF Typed
<1> QED  BY <1>2, <1>3

LEMMA StartIInv == IInv /\ Start => IInv'
<1> SUFFICES ASSUME IInv, Start PROVE IInv'
    OBVIOUS
<1> USE DEF IInv
<1>1. /\ ~opened' /\ opened' \in BOOLEAN /\ pending' = None /\ acknowledged' = NoPolicy
      /\ desired' = NoPolicy /\ supported' = "unknown" /\ stopped' = FALSE
      /\ UNCHANGED <<wanted, revision, hubPolicy, online, revisions, up, down>>
    BY DEF Start, Retire
<1>2. PICK s \in Sockets : link[s] = "none" /\ ws' = s /\ link' = [link EXCEPT ![s] = "opening"]
    BY DEF Start
<1>3. Typed'
    BY <1>1, <1>2 DEF Typed, Links
<1>4. \A t \in Sockets : link'[t] = "none" => up'[t] = <<>> /\ down'[t] = <<>>
    BY <1>1, <1>2 DEF Connected, Typed
<1>5. up'[s] = <<>> /\ down'[s] = <<>>
    BY <1>1, <1>2 DEF Connected
<1> QED  BY <1>1, <1>2, <1>3, <1>4, <1>5, Leaves

LEMMA StopIInv == IInv /\ Stop => IInv'
<1> SUFFICES ASSUME IInv, Stop PROVE IInv'
    OBVIOUS
<1> USE DroppedTyped DEF IInv
<1>1. /\ ~opened' /\ opened' \in BOOLEAN /\ pending' = None /\ acknowledged' = NoPolicy
      /\ desired' = NoPolicy /\ supported' = "unknown" /\ stopped' = TRUE
      /\ ws' = NoSocket /\ link' = Dropped /\ up' = UpDropped
      /\ UNCHANGED <<wanted, revision, hubPolicy, online, revisions, down>>
    BY DEF Stop, Retire
<1>2. Typed'
    BY <1>1 DEF Typed
<1>3. ws' \notin Sockets
    BY <1>1, HubClientAssumption
<1>4. \A s \in Sockets : link'[s] = "none" => up'[s] = <<>> /\ down'[s] = <<>>
    BY <1>1 DEF Connected
<1> QED  BY <1>1, <1>2, <1>3, <1>4, Leaves

\* The close event: the client notices that of its own connection only.
LEMMA ClosedIInv ==
    ASSUME IInv, NEW s \in Sockets, Closed(s)
    PROVE  IInv'
<1> USE DEF IInv
<1>1. /\ link' = [link EXCEPT ![s] = "none"]
      /\ up' = [up EXCEPT ![s] = <<>>] /\ down' = [down EXCEPT ![s] = <<>>]
      /\ hubPolicy' = [hubPolicy EXCEPT ![s] = NoPolicy]
      /\ UNCHANGED <<stopped, wanted, revision, online, revisions>>
    BY DEF Closed
<1>2. /\ link' \in [Sockets -> Links] /\ up' \in [Sockets -> Seq(PolicyMessages)]
      /\ down' \in [Sockets -> Seq(Messages)]
      /\ hubPolicy' \in [Sockets -> Policies \cup {NoPolicy}]
    BY <1>1, EmptySeq DEF Typed, Links
<1>3. \A t \in Sockets : link'[t] = "none" => up'[t] = <<>> /\ down'[t] = <<>>
    BY <1>1 DEF Connected, Typed
<1>4. CASE s = ws
    <2>1. ~stopped
        BY <1>4, HubClientAssumption DEF Connected
    <2>2. /\ ~opened' /\ opened' \in BOOLEAN /\ pending' = None /\ acknowledged' = NoPolicy
          /\ desired' = NoPolicy /\ supported' = "unknown" /\ ws' = NoSocket
        BY <1>4, <2>1 DEF Closed
    <2>3. Typed'
        BY <1>1, <1>2, <2>2 DEF Typed
    <2> QED  BY <1>1, <1>3, <2>1, <2>2, <2>3, Leaves, HubClientAssumption
<1>5. CASE s # ws
    <2>1. UNCHANGED <<desired, pending, acknowledged, supported, opened, ws>>
        BY <1>5 DEF Closed
    <2>2. Typed'
        BY <1>1, <1>2, <2>1 DEF Typed
    <2>3. ws \in Sockets => /\ link'[ws] = link[ws] /\ up'[ws] = up[ws]
                            /\ down'[ws] = down[ws] /\ hubPolicy'[ws] = hubPolicy[ws]
        BY <1>1, <1>5 DEF Typed
    <2>4. Connected'
        BY <1>1, <1>3, <2>1, <2>3 DEF Connected
    <2>5. Numbered'
        BY <1>1, <2>1 DEF Numbered
    <2>6. Underway'
        BY <1>1, <2>1, <2>3 DEF Underway, Latest, Connected
    <2> QED  BY <2>2, <2>4, <2>5, <2>6
<1> QED  BY <1>4, <1>5

\* sendReceiverPolicy, for a policy p that is none yet or the settings' new one.
LEMMA FlushTyped ==
    ASSUME Typed, NEW p \in Policies, NEW busy \in PendingPolicies \cup {None}, NEW known,
           NEW s \in Sockets, Flush(p, busy, known, s), link' \in [Sockets -> Links]
    PROVE  /\ desired' \in Policies \cup {NoPolicy} /\ pending' \in PendingPolicies \cup {None}
           /\ revision' \in Nat /\ up' \in [Sockets -> Seq(PolicyMessages)]
           /\ \A t \in Sockets : t # s => up'[t] = up[t]
           /\ up'[s] # up[s] => link'[s] = "open"
<1>1. CASE busy # None \/ p = known
    BY <1>1 DEF Flush, Typed
<1>2. CASE ~(busy # None \/ p = known)
    <2>1. /\ desired' = p /\ revision' = revision + 1
          /\ pending' = Pending(p, revision + 1, 1)
          /\ Send(s, PolicyMessage(p, revision + 1))
        BY <1>2 DEF Flush
    <2>2. PolicyMessage(p, revision + 1) \in PolicyMessages
        BY DEF Typed, PolicyMessage, PolicyMessages
    <2>3. pending' \in PendingPolicies
        BY <2>1, PendingIsPending DEF Typed
    <2>4. Append(up[s], PolicyMessage(p, revision + 1)) \in Seq(PolicyMessages)
        BY <2>2, AppendAt DEF Typed
    <2>5. /\ up' \in [Sockets -> Seq(PolicyMessages)]
          /\ \A t \in Sockets : t # s => up'[t] = up[t]
          /\ up'[s] # up[s] => link'[s] = "open"
        BY <2>1, <2>4 DEF Typed, Send
    <2> QED  BY <2>1, <2>3, <2>5 DEF Typed
<1> QED  BY <1>1, <1>2

\* When one was pending already, or the policy is known, nothing is sent.
LEMMA FlushWaits ==
    ASSUME NEW p, NEW busy, NEW known, NEW s, Flush(p, busy, known, s),
           busy # None \/ p = known
    PROVE  desired' = p /\ pending' = busy /\ UNCHANGED <<revision, up>>
BY DEF Flush

\* Else the next is pending, and sent if the connection is open.
LEMMA FlushSends ==
    ASSUME Typed, NEW p \in Policies, NEW known, NEW s \in Sockets,
           Flush(p, None, known, s), p # known
    PROVE  /\ desired' = p /\ revision' = revision + 1
           /\ pending' = Pending(p, revision + 1, 1)
           /\ pending'.policy = p /\ pending'.revision = revision' /\ pending' # None
           /\ up'[s] \in {up[s], Append(up[s], PolicyMessage(p, revision + 1))}
           /\ link'[s] = "open" => up'[s] = Append(up[s], PolicyMessage(p, revision + 1))
<1>1. /\ desired' = p /\ revision' = revision + 1
      /\ pending' = Pending(p, revision + 1, 1)
      /\ Send(s, PolicyMessage(p, revision + 1))
    BY DEF Flush
<1>2. pending'.policy = p /\ pending'.revision = revision' /\ pending' # None
    BY <1>1, PendingIsPending DEF Typed
<1>3. up' = IF link'[s] = "open"
            THEN [up EXCEPT ![s] = Append(up[s], PolicyMessage(p, revision + 1))] ELSE up
    BY <1>1 DEF Send
<1> QED  BY <1>1, <1>2, <1>3 DEF Typed

\* The open event.
LEMMA OpensIInv ==
    ASSUME IInv, NEW s \in Sockets, Opens(s)
    PROVE  IInv'
<1> USE DEF IInv
<1>1. /\ s = ws /\ link[s] = "accepted" /\ link' = [link EXCEPT ![s] = "open"]
      /\ opened' = TRUE /\ Flush(wanted, pending, acknowledged, s)
      /\ UNCHANGED <<ws, stopped, wanted, acknowledged, supported, down, hubPolicy,
                     online, revisions>>
    BY DEF Opens, hubVars
<1>2. ~opened /\ pending = None /\ acknowledged = NoPolicy /\ wanted # acknowledged
    BY <1>1, HubClientAssumption DEF Connected, Typed
<1>3. link' \in [Sockets -> Links] /\ link'[s] = "open"
    BY <1>1 DEF Typed, Links
<1>4. /\ desired' = wanted /\ revision' = revision + 1
      /\ pending' = Pending(wanted, revision + 1, 1)
      /\ pending'.policy = wanted /\ pending'.revision = revision' /\ pending' # None
      /\ up'[s] = Append(up[s], PolicyMessage(wanted, revision + 1))
    BY <1>1, <1>2, <1>3, FlushSends DEF Typed
<1>5. /\ desired' \in Policies \cup {NoPolicy} /\ pending' \in PendingPolicies \cup {None}
      /\ revision' \in Nat /\ up' \in [Sockets -> Seq(PolicyMessages)]
      /\ \A t \in Sockets : t # s => up'[t] = up[t]
    BY <1>1, <1>2, <1>3, FlushTyped DEF Typed
<1>6. Typed'
    BY <1>1, <1>3, <1>5 DEF Typed
<1>7. up'[s] = <<PolicyMessage(wanted, revision + 1)>>
    <2>1. up[s] = <<>>
        BY <1>1, <1>2 DEF Connected
    <2> QED  BY <1>4, <2>1
<1>8. \A t \in Sockets : link'[t] = "none" => up'[t] = <<>> /\ down'[t] = <<>>
    BY <1>1, <1>3, <1>5 DEF Connected, Typed
<1>9. Connected'
    BY <1>1, <1>3, <1>8, HubClientAssumption DEF Connected
<1>10. Numbered'
    BY <1>1, <1>4 DEF Numbered
<1>11. Sound(<<PolicyMessage(wanted, revision + 1)>>, down[s], hubPolicy[s], wanted,
             revision + 1, Pending(wanted, revision + 1, 1), revisions)
    <2>1. \A i \in 1 .. Len(down[s]) : ~IsAck(down[s][i])
        BY <1>1, <1>2 DEF Connected
    <2> QED  BY <2>1, StartsSound DEF Typed
<1>12. Underway'
    BY <1>1, <1>4, <1>7, <1>11 DEF Underway, Latest
<1> QED  BY <1>6, <1>9, <1>10, <1>12

\* The settings change.
LEMMA ChangeSettingsIInv ==
    ASSUME IInv, NEW p \in Policies, ChangeSettings(p)
    PROVE  IInv'
<1> USE DEF IInv
<1>1. /\ p # wanted /\ wanted' = p
      /\ UNCHANGED <<link, ws, opened, stopped, acknowledged, supported, down, hubPolicy,
                     online, revisions>>
    BY DEF ChangeSettings, connVars, hubVars
<1>2. CASE ~opened
    <2>1. UNCHANGED <<desired, pending, revision, up>>
        BY <1>2 DEF ChangeSettings
    <2> QED  BY <1>1, <1>2, <2>1 DEF Typed, Connected, Numbered, Underway
<1>3. CASE opened
    <2>1. ws \in Sockets /\ Flush(p, pending, acknowledged, ws)
        BY <1>3 DEF Connected, ChangeSettings
    <2>2. /\ desired' \in Policies \cup {NoPolicy} /\ pending' \in PendingPolicies \cup {None}
          /\ revision' \in Nat /\ up' \in [Sockets -> Seq(PolicyMessages)]
          /\ \A t \in Sockets : t # ws => up'[t] = up[t]
          /\ up'[ws] # up[ws] => link'[ws] = "open"
        BY <1>1, <2>1, FlushTyped DEF Typed
    <2>3. Typed'
        BY <1>1, <2>2 DEF Typed
    <2>4. \A t \in Sockets : link'[t] = "none" => up'[t] = <<>> /\ down'[t] = <<>>
        BY <1>1, <2>2 DEF Connected
    <2>5. Connected'
        BY <1>1, <1>3, <2>1, <2>4 DEF Connected
    <2>6. CASE pending # None
        <3>1. desired' = p /\ UNCHANGED <<pending, revision, up>>
            BY <2>1, <2>6, FlushWaits
        <3>2. Numbered'
            BY <1>1, <2>6, <3>1 DEF Numbered
        <3>3. Underway'
            BY <1>1, <3>1 DEF Underway, Latest
        <3> QED  BY <2>3, <2>5, <3>2, <3>3
    <2>7. CASE pending = None
        <3>1. acknowledged = wanted
            BY <1>3, <2>7 DEF Numbered
        <3>2. /\ desired' = p /\ revision' = revision + 1
              /\ pending' = Pending(p, revision + 1, 1)
              /\ pending'.policy = p /\ pending'.revision = revision' /\ pending' # None
              /\ up'[ws] \in {up[ws], Append(up[ws], PolicyMessage(p, revision + 1))}
            BY <1>1, <2>1, <2>7, <3>1, FlushSends
        <3>3. Numbered'
            BY <1>1, <3>2 DEF Numbered
        <3>4. Sound(up[ws], down[ws], hubPolicy[ws], acknowledged, revision, None, revisions)
            BY <1>3, <2>7 DEF Underway, Latest
        <3>5. Sound(up'[ws], down[ws], hubPolicy[ws], p, revision + 1,
                    Pending(p, revision + 1, 1), revisions)
            <4>1. /\ up[ws] \in Seq(PolicyMessages) /\ down[ws] \in Seq(Messages)
                  /\ revision \in Nat /\ revisions \in BOOLEAN
                BY <2>1 DEF Typed
            <4> QED  BY <3>2, <3>4, <4>1, SendsNext
        <3>6. Underway'
            BY <1>1, <3>2, <3>5 DEF Underway, Latest
        <3> QED  BY <2>3, <2>5, <3>3, <3>6
    <2> QED  BY <2>6, <2>7
<1> QED  BY <1>2, <1>3

\* A step that leaves the client's side of the handshake as it is.
LEMMA ClientRests ==
    ASSUME IInv, Typed',
           UNCHANGED <<ws, opened, stopped, wanted, desired, pending, acknowledged, revision,
                       revisions>>,
           supported' = supported \/ (supported' = "yes" => revisions),
           opened => link'[ws] \in {"open", "dead", "cut", "replaced"},
           \A s \in Sockets : link'[s] = "none" => up'[s] = <<>> /\ down'[s] = <<>>,
           (ws \in Sockets /\ ~opened) =>
               /\ up'[ws] = <<>>
               /\ \A i \in 1 .. Len(down'[ws]) : ~IsAck(down'[ws][i]),
           opened => Sound(up'[ws], down'[ws], hubPolicy'[ws], Latest, revision, pending,
                           revisions)
    PROVE  IInv'
BY DEF IInv, Connected, Numbered, Underway, Latest

\* policyTimer: sent once more only to a hub that sends revisions back.
LEMMA PolicyTimeoutIInv == IInv /\ PolicyTimeout => IInv'
<1> SUFFICES ASSUME IInv, PolicyTimeout PROVE IInv'
    OBVIOUS
<1> USE DEF IInv
<1>1. /\ pending # None
      /\ UNCHANGED <<ws, opened, stopped, wanted, desired, acknowledged, revision, supported,
                     down, hubPolicy, online, revisions>>
    BY DEF PolicyTimeout, hubVars
<1>2. opened /\ ws \in Sockets /\ link[ws] \in {"open", "dead"}
    BY <1>1 DEF PolicyTimeout, Connected
<1>3. CASE Exhausted
    <2>1. link' = [link EXCEPT ![ws] = "cut"] /\ UNCHANGED <<pending, up>>
        BY <1>3 DEF PolicyTimeout
    <2>2. Typed'
        BY <1>1, <2>1 DEF Typed, Links
    <2>3. \A s \in Sockets : link'[s] = "none" => up'[s] = <<>> /\ down'[s] = <<>>
        BY <1>1, <2>1 DEF Typed, Connected
    <2>4. link'[ws] = "cut"
        BY <1>2, <2>1 DEF Typed
    <2> QED  BY <1>1, <1>2, <2>1, <2>2, <2>3, <2>4, ClientRests DEF Underway
<1>4. CASE ~Exhausted
    <2>1. /\ revisions /\ UNCHANGED link
          /\ pending' = [pending EXCEPT !.attempts = @ + 1]
          /\ up' = IF link[ws] = "open"
                   THEN [up EXCEPT ![ws] = Append(up[ws], PolicyMessage(pending.policy,
                                                                       pending.revision))]
                   ELSE up
        BY <1>4 DEF PolicyTimeout, Exhausted, Connected, Send
    <2>2. /\ pending \in PendingPolicies /\ pending' \in PendingPolicies
          /\ pending'.policy = pending.policy /\ pending'.revision = pending.revision
          /\ pending.policy \in Policies /\ pending.revision \in Nat \ {0}
        BY <1>1, <2>1 DEF Typed, PendingPolicies
    <2>3. pending' # None /\ pending.revision = revision /\ Latest = pending.policy
        BY <1>1, <2>2, NoneIsNotPending DEF Numbered, Latest
    <2>4. PolicyMessage(pending.policy, pending.revision) \in PolicyMessages
        BY <2>2 DEF PolicyMessage, PolicyMessages
    <2>5. Append(up[ws], PolicyMessage(pending.policy, pending.revision)) \in Seq(PolicyMessages)
        BY <1>2, <2>4, AppendAt DEF Typed
    <2>6. up' \in [Sockets -> Seq(PolicyMessages)]
        BY <2>1, <2>5 DEF Typed
    <2>7. Typed'
        BY <1>1, <2>1, <2>2, <2>6 DEF Typed
    <2>8. \A s \in Sockets : link'[s] = "none" => up'[s] = <<>> /\ down'[s] = <<>>
        BY <1>1, <1>2, <2>1 DEF Connected, Typed
    <2>9. Connected'
        BY <1>1, <1>2, <2>1, <2>8 DEF Connected
    <2>10. Numbered'
        BY <1>1, <2>2, <2>3 DEF Numbered
    <2>11. /\ up[ws] \in Seq(PolicyMessages) /\ down[ws] \in Seq(Messages)
           /\ revision \in Nat \ {0} /\ revisions = TRUE
        BY <1>2, <2>1, <2>2, <2>3 DEF Typed
    <2>12. Sound(up[ws], down[ws], hubPolicy[ws], pending.policy, revision, pending, TRUE)
        BY <1>2, <2>3, <2>11 DEF Underway
    <2>13. Sound(Append(up[ws], PolicyMessage(pending.policy, revision)), down[ws],
                 hubPolicy[ws], pending.policy, revision, pending', TRUE)
        BY <2>2, <2>11, <2>12, SendsAgain
    <2>14. Sound(up[ws], down[ws], hubPolicy[ws], pending.policy, revision, pending', TRUE)
        BY <1>1, <2>3, <2>12 DEF Sound, SoundTaken, Follows
    <2>15. up'[ws] \in {up[ws], Append(up[ws], PolicyMessage(pending.policy, revision))}
        BY <1>2, <2>1, <2>3 DEF Typed
    <2>16. Latest' = pending.policy
        BY <2>2, <2>3 DEF Latest
    <2>17. Sound(up'[ws], down[ws], hubPolicy[ws], pending.policy, revision, pending', TRUE)
        BY <2>13, <2>14, <2>15
    <2>18. Underway'
        BY <1>1, <2>11, <2>16, <2>17 DEF Underway
    <2> QED  BY <2>7, <2>9, <2>10, <2>18
<1> QED  BY <1>3, <1>4

LEMMA HeartbeatIInv == IInv /\ Heartbeat => IInv'
<1> SUFFICES ASSUME IInv, Heartbeat PROVE IInv'
    OBVIOUS
<1> USE DEF IInv
<1>1. /\ UNCHANGED <<ws, opened, stopped, wanted, desired, pending, acknowledged, revision,
                     supported, up, down, hubPolicy, online, revisions>>
      /\ opened /\ link' \in {link, [link EXCEPT ![ws] = "cut"]}
    BY DEF Heartbeat, policyVars, hubVars
<1>2. ws \in Sockets
    BY <1>1 DEF Connected
<1>3. Typed'
    BY <1>1, <1>2 DEF Typed, Links
<1>4. /\ \A s \in Sockets : link'[s] = "none" => up'[s] = <<>> /\ down'[s] = <<>>
      /\ link'[ws] \in {"open", "dead", "cut", "replaced"}
    BY <1>1, <1>2 DEF Connected, Typed
<1> QED  BY <1>1, <1>2, <1>3, <1>4, ClientRests DEF Underway

\* register(), on the current connection or on another.
LEMMA RegisteredQuiet ==
    ASSUME Typed, NEW s \in Sockets, NEW t \in Seq(Messages), Quiet(t), Registered(s, t)
    PROVE  \E q \in Seq(Messages) : Quiet(q) /\ down' = [down EXCEPT ![s] = down[s] \o q]
<1>1. /\ <<>> \in Seq(Messages) /\ Quiet(<<>>)
      /\ <<DevicesMessage(online)>> \in Seq(Messages) /\ Quiet(<<DevicesMessage(online)>>)
    BY DEF Typed, DevicesMessage, Messages, Quiet, IsAck, IsUpdate
<1>2. PICK b \in Seq(Messages) : Quiet(b) /\ down' = [down EXCEPT ![s] = down[s] \o t \o b]
    BY <1>1 DEF Registered
<1>3. t \o b \in Seq(Messages) /\ Quiet(t \o b)
    BY <1>2, JoinAt DEF Quiet
<1>4. down[s] \in Seq(Messages)
    BY DEF Typed
<1>5. down[s] \o t \o b = down[s] \o (t \o b)
    <2>1. \A d \in Seq(Messages) : d \o t \o b = d \o (t \o b)
        BY ConcatAssociative
    <2> QED  BY <1>4, <2>1
<1> QED  BY <1>2, <1>3, <1>5

\* What the hub says but acknowledgements and events leaves the client's view alone.
LEMMA SaysQuietly ==
    ASSUME IInv, NEW s \in Sockets, NEW q \in Seq(Messages), Quiet(q),
           down' = [down EXCEPT ![s] = down[s] \o q], link[s] # "none",
           link' = link \/ (link[s] = "opening" /\ link' = [link EXCEPT ![s] = "accepted"]),
           UNCHANGED <<ws, opened, stopped, wanted, desired, pending, acknowledged, revision,
                       supported, up, hubPolicy, online, revisions>>
    PROVE  IInv'
<1> USE DEF IInv
<1>1. down[s] \in Seq(Messages) /\ down[s] \o q \in Seq(Messages)
    BY JoinAt DEF Typed
<1>2. Typed'
    BY <1>1 DEF Typed, Links
<1>3. \A t \in Sockets : link'[t] = "none" => up'[t] = <<>> /\ down'[t] = <<>>
    BY DEF Connected, Typed
<1>4. opened => link'[ws] \in {"open", "dead", "cut", "replaced"}
    BY DEF Connected, Typed
<1>5. ASSUME ws \in Sockets, ~opened
      PROVE  up'[ws] = <<>> /\ \A i \in 1 .. Len(down'[ws]) : ~IsAck(down'[ws][i])
    <2>1. up[ws] = <<>> /\ \A i \in 1 .. Len(down[ws]) : ~IsAck(down[ws][i])
        BY <1>5 DEF Connected
    <2>2. CASE ws = s
        <3>1. down'[s] = down[s] \o q
            BY DEF Typed
        <3> QED  BY <1>1, <2>1, <2>2, <3>1, JoinAt DEF Quiet
    <2>3. CASE ws # s
        BY <1>5, <2>1, <2>3 DEF Typed
    <2> QED  BY <2>2, <2>3
<1>6. ASSUME opened
      PROVE  Sound(up'[ws], down'[ws], hubPolicy'[ws], Latest, revision, pending, revisions)
    <2>1. ws \in Sockets
        BY <1>6 DEF Connected
    <2>2. Sound(up[ws], down[ws], hubPolicy[ws], Latest, revision, pending, revisions)
        BY <1>6 DEF Underway
    <2>3. CASE ws = s
        <3>1. down'[s] = down[s] \o q
            BY DEF Typed
        <3>2. /\ up[s] \in Seq(PolicyMessages) /\ revision \in Nat /\ revisions \in BOOLEAN
            BY DEF Typed
        <3>3. Sound(up[s], down[s] \o q, hubPolicy[s], Latest, revision, pending, revisions)
            BY <1>1, <2>2, <2>3, <3>2, SaysOther
        <3> QED  BY <2>3, <3>1, <3>3
    <2>4. CASE ws # s
        <3>1. down'[ws] = down[ws]
            BY <2>1, <2>4 DEF Typed
        <3> QED  BY <2>2, <3>1
    <2> QED  BY <2>3, <2>4
<1> QED  BY <1>2, <1>3, <1>4, <1>5, <1>6, ClientRests

LEMMA AcceptIInv ==
    ASSUME IInv, NEW s \in Sockets, NEW atOnce \in BOOLEAN, Accept(s, atOnce)
    PROVE  IInv'
<1>1. /\ link[s] = "opening" /\ link' = [link EXCEPT ![s] = "accepted"]
      /\ UNCHANGED <<ws, opened, stopped, wanted, desired, pending, acknowledged, revision,
                     supported, up, hubPolicy, online, revisions>>
    BY DEF Accept, connVars, policyVars
<1>2. <<ConfigMessage>> \in Seq(Messages) /\ Quiet(<<ConfigMessage>>)
    BY DEF ConfigMessage, Messages, Quiet, IsAck, IsUpdate
<1>3. PICK q \in Seq(Messages) : Quiet(q) /\ down' = [down EXCEPT ![s] = down[s] \o q]
    <2>1. CASE atOnce
        BY <1>2, <2>1, RegisteredQuiet DEF Accept, IInv
    <2>2. CASE ~atOnce
        <3>1. down' = [down EXCEPT ![s] = Append(down[s], ConfigMessage)]
            BY <2>2 DEF Accept
        <3>2. \A d \in Seq(Messages) : Append(d, ConfigMessage) = d \o <<ConfigMessage>>
            BY <1>2
        <3>3. down[s] \in Seq(Messages)
            BY DEF IInv, Typed
        <3> QED  BY <1>2, <3>1, <3>2, <3>3
    <2> QED  BY <2>1, <2>2
<1> QED  BY <1>1, <1>3, SaysQuietly

LEMMA ProveIInv ==
    ASSUME IInv, NEW s \in Sockets, Prove(s)
    PROVE  IInv'
<1>1. /\ link[s] = "open"
      /\ UNCHANGED <<link, ws, opened, stopped, wanted, desired, pending, acknowledged,
                     revision, supported, up, hubPolicy, online, revisions>>
    BY DEF Prove, connVars, policyVars
<1>2. <<>> \in Seq(Messages) /\ Quiet(<<>>)
    BY DEF Quiet
<1>3. PICK q \in Seq(Messages) : Quiet(q) /\ down' = [down EXCEPT ![s] = down[s] \o q]
    BY <1>2, RegisteredQuiet DEF Prove, IInv
<1> QED  BY <1>1, <1>3, SaysQuietly

\* A policy message of the current connection, or of another.
LEMMA TakePolicyIInv ==
    ASSUME IInv, NEW s \in Sockets, TakePolicy(s)
    PROVE  IInv'
<1> USE DEF IInv
<1> DEFINE u == up[s]
           m == Head(up[s])
           a == AckMessage(IF revisions THEN m.revision ELSE 0)
<1>1. /\ u # <<>> /\ up' = [up EXCEPT ![s] = Tail(u)]
      /\ UNCHANGED <<ws, opened, stopped, link, wanted, desired, pending, acknowledged,
                     revision, supported, online, revisions>>
    BY DEF TakePolicy, connVars, policyVars
<1>2. /\ u \in Seq(PolicyMessages) /\ Tail(u) \in Seq(PolicyMessages) /\ m \in PolicyMessages
      /\ m.policy \in Policies /\ m.revision \in Nat
    <2>1. u \in Seq(PolicyMessages)
        BY DEF Typed
    <2>2. Tail(u) \in Seq(PolicyMessages) /\ m \in PolicyMessages
        BY <1>1, <2>1, TailAt
    <2> QED  BY <2>1, <2>2 DEF PolicyMessages
<1>3. a \in Messages
    BY <1>2 DEF AckMessage, Messages, Typed
<1>4. PICK q \in Seq(Messages) :
        /\ Quiet(q)
        /\ \/ /\ hubPolicy' = [hubPolicy EXCEPT ![s] = m.policy]
              /\ down' = [down EXCEPT ![s] = Append(down[s] \o q, a)]
           \/ /\ UNCHANGED hubPolicy
              /\ down' = [down EXCEPT ![s] = down[s] \o q]
    <2>1. <<>> \in Seq(Messages) /\ Quiet(<<>>)
        BY DEF Quiet
    <2>2. /\ <<DevicesMessage(online)>> \in Seq(Messages)
          /\ Quiet(<<DevicesMessage(online)>>)
        BY DEF Typed, DevicesMessage, Messages, Quiet, IsAck, IsUpdate
    <2>3. CASE UNCHANGED hubPolicy /\ Registered(s, <<>>)
        BY <2>1, <2>3, RegisteredQuiet
    <2>4. CASE /\ hubPolicy' = [hubPolicy EXCEPT ![s] = m.policy]
               /\ down' = [down EXCEPT ![s] =
                    down[s] \o (IF s \in registered THEN <<>> ELSE <<DevicesMessage(online)>>)
                      \o <<a>>]
        <3>1. PICK q \in Seq(Messages) :
                Quiet(q) /\ down' = [down EXCEPT ![s] = down[s] \o q \o <<a>>]
            BY <2>1, <2>2, <2>4
        <3>2. \A d \in Seq(Messages) : d \o <<a>> = Append(d, a)
            BY <1>3
        <3>3. down[s] \o q \in Seq(Messages)
            BY JoinAt DEF Typed
        <3> QED  BY <2>4, <3>1, <3>2, <3>3
    <2> QED  BY <2>3, <2>4 DEF TakePolicy
<1>5. /\ down[s] \in Seq(Messages) /\ down[s] \o q \in Seq(Messages)
      /\ Append(down[s] \o q, a) \in Seq(Messages)
    BY <1>3, JoinAt, AppendAt DEF Typed
<1> HIDE DEF u, m, a
<1>6. Typed'
    BY <1>1, <1>2, <1>4, <1>5 DEF Typed
<1>7. \A t \in Sockets : link'[t] = "none" => up'[t] = <<>> /\ down'[t] = <<>>
    <2>1. link[s] # "none"
        BY <1>1 DEF Connected, u
    <2> QED  BY <1>1, <1>4, <2>1 DEF Connected, Typed
<1>8. CASE s # ws
    <2>1. ws \in Sockets => /\ up'[ws] = up[ws] /\ down'[ws] = down[ws]
                            /\ hubPolicy'[ws] = hubPolicy[ws]
        BY <1>1, <1>4, <1>8 DEF Typed
    <2> QED  BY <1>1, <1>6, <1>7, <2>1, ClientRests DEF Connected, Underway
<1>9. CASE s = ws
    <2>1. opened
        BY <1>1, <1>9 DEF Connected, u
    <2>2. /\ revision \in Nat /\ revisions \in BOOLEAN
          /\ up'[s] = Tail(u)
        BY <1>1 DEF Typed
    <2>3. Sound(u, down[s], hubPolicy[s], Latest, revision, pending, revisions)
        BY <1>9, <2>1 DEF Underway, u
    <2>4. Sound(u, down[s] \o q, hubPolicy[s], Latest, revision, pending, revisions)
        BY <1>2, <1>4, <1>5, <2>2, <2>3, SaysOther
    <2>5. Sound(up'[s], down'[s], hubPolicy'[s], Latest, revision, pending, revisions)
        <3>1. CASE UNCHANGED hubPolicy /\ down' = [down EXCEPT ![s] = down[s] \o q]
            <4>1. Sound(Tail(u), down[s] \o q, hubPolicy[s], Latest, revision, pending, revisions)
                BY <1>1, <1>2, <1>5, <2>2, <2>4, HubRefuses
            <4>2. down'[s] = down[s] \o q
                BY <3>1 DEF Typed
            <4> QED  BY <2>2, <3>1, <4>1, <4>2
        <3>2. CASE /\ hubPolicy' = [hubPolicy EXCEPT ![s] = m.policy]
                   /\ down' = [down EXCEPT ![s] = Append(down[s] \o q, a)]
            <4>1. Sound(Tail(u), Append(down[s] \o q, a), m.policy, Latest, revision, pending,
                        revisions)
                BY <1>1, <1>2, <1>5, <2>2, <2>4, HubTakes DEF a, m, u
            <4>2. down'[s] = Append(down[s] \o q, a) /\ hubPolicy'[s] = m.policy
                BY <3>2 DEF Typed
            <4> QED  BY <2>2, <4>1, <4>2
        <3> QED  BY <1>4, <3>1, <3>2
    <2> QED  BY <1>1, <1>6, <1>7, <1>9, <2>1, <2>5, ClientRests DEF Connected
<1> QED  BY <1>8, <1>9

LEMMA SendEventIInv ==
    ASSUME IInv, NEW s \in Sockets, SendEvent(s)
    PROVE  IInv'
<1> USE DEF IInv
<1> DEFINE m == UpdateMessage(hubPolicy[s])
<1>1. /\ link[s] \in {"accepted", "open"} /\ down' = [down EXCEPT ![s] = Append(down[s], m)]
      /\ UNCHANGED <<ws, opened, stopped, link, wanted, desired, pending, acknowledged,
                     revision, supported, up, hubPolicy, online, revisions>>
    BY DEF SendEvent, Live, connVars, policyVars, hubVars
<1>2. hubPolicy[s] \in Policies \cup {NoPolicy} /\ down[s] \in Seq(Messages)
    BY DEF Typed
<1>3. m \in Messages /\ ~IsAck(m)
    BY <1>2 DEF UpdateMessage, Messages, IsAck
<1>4. /\ Append(down[s], m) \in Seq(Messages) /\ Len(Append(down[s], m)) = Len(down[s]) + 1
      /\ Len(down[s]) \in Nat
      /\ \A i \in 1 .. Len(down[s]) : Append(down[s], m)[i] = down[s][i]
      /\ Append(down[s], m)[Len(down[s]) + 1] = m
    BY <1>2, <1>3, AppendAt
<1>5. down'[s] = Append(down[s], m)
    BY <1>1 DEF Typed
<1> HIDE DEF m
<1>6. Typed'
    BY <1>1, <1>4 DEF Typed
<1>7. \A t \in Sockets : link'[t] = "none" => up'[t] = <<>> /\ down'[t] = <<>>
    BY <1>1 DEF Connected, Typed
<1>8. CASE s # ws
    <2>1. ws \in Sockets => down'[ws] = down[ws]
        BY <1>1, <1>8 DEF Typed
    <2> QED  BY <1>1, <1>6, <1>7, <2>1, ClientRests DEF Connected, Underway
<1>9. CASE s = ws
    <2>1. ~opened => up'[ws] = <<>> /\ \A i \in 1 .. Len(down'[ws]) : ~IsAck(down'[ws][i])
        <3>1. ~opened => up[s] = <<>> /\ \A i \in 1 .. Len(down[s]) : ~IsAck(down[s][i])
            BY <1>9 DEF Connected
        <3> QED  BY <1>1, <1>3, <1>4, <1>5, <1>9, <3>1
    <2>2. opened => Sound(up'[ws], down'[ws], hubPolicy'[ws], Latest, revision, pending,
                          revisions)
        <3> SUFFICES ASSUME opened
                     PROVE  Sound(up[s], Append(down[s], m), hubPolicy[s], Latest, revision,
                                  pending, revisions)
            BY <1>1, <1>5, <1>9
        <3>1. up[s] \in Seq(PolicyMessages) /\ revision \in Nat /\ revisions \in BOOLEAN
            BY DEF Typed
        <3>2. Sound(up[s], down[s], hubPolicy[s], Latest, revision, pending, revisions)
            BY <1>9 DEF Underway
        <3> QED  BY <1>2, <3>1, <3>2, SendsUpdate DEF m
    <2>3. opened => link'[ws] \in {"open", "dead", "cut", "replaced"}
        BY <1>1 DEF Connected
    <2> QED  BY <1>1, <1>6, <1>7, <2>1, <2>2, <2>3, ClientRests
<1> QED  BY <1>8, <1>9

LEMMA MoveIInv ==
    ASSUME IInv, NEW x \in Peers, Move(x)
    PROVE  IInv'
<1> USE DEF IInv
<1> DEFINE q(s) == IF s \in registered /\ Live(s) THEN <<DevicesMessage(online')>> ELSE <<>>
<1>1. /\ online' \in SUBSET Peers
      /\ UNCHANGED <<ws, opened, stopped, link, wanted, desired, pending, acknowledged,
                     revision, supported, up, hubPolicy, revisions>>
    BY DEF Move, connVars, policyVars, Typed
<1>2. \A s \in Sockets : q(s) \in Seq(Messages) /\ Quiet(q(s))
    <2>1. /\ <<DevicesMessage(online')>> \in Seq(Messages)
          /\ Quiet(<<DevicesMessage(online')>>)
        BY <1>1 DEF DevicesMessage, Messages, Quiet, IsAck, IsUpdate
    <2>2. <<>> \in Seq(Messages) /\ Quiet(<<>>)
        BY DEF Quiet
    <2> QED  BY <2>1, <2>2
<1>3. \A s \in Sockets : /\ down[s] \in Seq(Messages) /\ down[s] \o q(s) \in Seq(Messages)
                         /\ down'[s] = down[s] \o q(s)
    <2> SUFFICES ASSUME NEW s \in Sockets
                 PROVE  /\ down[s] \in Seq(Messages) /\ down[s] \o q(s) \in Seq(Messages)
                        /\ down'[s] = down[s] \o q(s)
        OBVIOUS
    <2>1. down[s] \in Seq(Messages) /\ down[s] \o q(s) \in Seq(Messages)
        BY <1>2, JoinAt DEF Typed
    <2>2. DevicesMessage(online') \in Messages
        BY <1>1 DEF DevicesMessage, Messages
    <2>3. \A d \in Seq(Messages) : /\ Append(d, DevicesMessage(online'))
                                        = d \o <<DevicesMessage(online')>>
                                   /\ d = d \o <<>>
        BY <2>2
    <2>4. down'[s] = IF s \in registered /\ Live(s)
                     THEN Append(down[s], DevicesMessage(online')) ELSE down[s]
        BY DEF Move
    <2> QED  BY <2>1, <2>3, <2>4
<1>4. down' \in [Sockets -> Seq(Messages)]
    <2>1. down' = [s \in Sockets |-> down'[s]]
        BY DEF Move
    <2> QED  BY <1>3, <2>1
<1>5. Typed'
    BY <1>1, <1>4 DEF Typed
<1>6. \A t \in Sockets : link'[t] = "none" => up'[t] = <<>> /\ down'[t] = <<>>
    BY <1>1 DEF Move, Connected, Live
<1> HIDE DEF q
<1>7. ASSUME ws \in Sockets, ~opened
      PROVE  up'[ws] = <<>> /\ \A i \in 1 .. Len(down'[ws]) : ~IsAck(down'[ws][i])
    <2>1. up[ws] = <<>> /\ \A i \in 1 .. Len(down[ws]) : ~IsAck(down[ws][i])
        BY <1>7 DEF Connected
    <2>2. /\ down[ws] \in Seq(Messages) /\ q(ws) \in Seq(Messages) /\ Quiet(q(ws))
          /\ down'[ws] = down[ws] \o q(ws)
        BY <1>2, <1>3, <1>7
    <2> QED  BY <1>1, <2>1, <2>2, JoinAt DEF Quiet
<1>8. ASSUME opened
      PROVE  Sound(up'[ws], down'[ws], hubPolicy'[ws], Latest, revision, pending, revisions)
    <2>1. ws \in Sockets
        BY <1>8 DEF Connected
    <2>2. /\ down[ws] \in Seq(Messages) /\ q(ws) \in Seq(Messages) /\ Quiet(q(ws))
          /\ down'[ws] = down[ws] \o q(ws)
        BY <1>2, <1>3, <2>1
    <2>3. up[ws] \in Seq(PolicyMessages) /\ revision \in Nat /\ revisions \in BOOLEAN
        BY <2>1 DEF Typed
    <2>4. Sound(up[ws], down[ws], hubPolicy[ws], Latest, revision, pending, revisions)
        BY <1>8 DEF Underway
    <2>5. Sound(up[ws], down[ws] \o q(ws), hubPolicy[ws], Latest, revision, pending, revisions)
        BY <2>2, <2>3, <2>4, SaysOther
    <2> QED  BY <1>1, <2>2, <2>5
<1> QED  BY <1>1, <1>5, <1>6, <1>7, <1>8, ClientRests DEF Connected

LEMMA FailIInv ==
    ASSUME IInv, NEW s \in Sockets, Fail(s)
    PROVE  IInv'
<1> USE DEF IInv
<1>1. /\ UNCHANGED <<ws, opened, stopped, wanted, desired, pending, acknowledged, revision,
                     supported, hubPolicy, online, revisions>>
      /\ up' = [up EXCEPT ![s] = <<>>]
      /\ \E l \in {"cut", "replaced", "dead"} : link' = [link EXCEPT ![s] = l]
      /\ down' \in {down, [down EXCEPT ![s] = <<>>]}
    BY DEF Fail, connVars, policyVars, hubVars
<1>2. Typed'
    <2>1. link' \in [Sockets -> Links]
        BY <1>1 DEF Typed, Links
    <2>2. up' \in [Sockets -> Seq(PolicyMessages)]
        BY <1>1, EmptySeq DEF Typed
    <2>3. down' \in [Sockets -> Seq(Messages)]
        BY <1>1, EmptySeq DEF Typed
    <2> QED  BY <1>1, <2>1, <2>2, <2>3 DEF Typed
<1>3. \A t \in Sockets : link'[t] = "none" => up'[t] = <<>> /\ down'[t] = <<>>
    BY <1>1 DEF Connected, Typed
<1>4. opened => link'[ws] \in {"open", "dead", "cut", "replaced"}
    BY <1>1 DEF Connected, Typed
<1>5. ws \in Sockets => /\ up'[ws] \in {up[ws], <<>>} /\ down'[ws] \in {down[ws], <<>>}
                        /\ down'[ws] # down[ws] => up'[ws] = <<>>
    BY <1>1 DEF Typed
<1>6. (ws \in Sockets /\ ~opened) =>
          up'[ws] = <<>> /\ \A i \in 1 .. Len(down'[ws]) : ~IsAck(down'[ws][i])
    BY <1>5 DEF Connected
<1>7. ASSUME opened
      PROVE  Sound(up'[ws], down'[ws], hubPolicy'[ws], Latest, revision, pending, revisions)
    <2>1. /\ ws \in Sockets /\ up[ws] \in Seq(PolicyMessages) /\ down[ws] \in Seq(Messages)
          /\ revision \in Nat /\ revisions \in BOOLEAN
        BY <1>7 DEF Connected, Typed
    <2>2. Sound(up[ws], down[ws], hubPolicy[ws], Latest, revision, pending, revisions)
        BY <1>7 DEF Underway
    <2>3. Sound(<<>>, down[ws], hubPolicy[ws], Latest, revision, pending, revisions)
        BY <2>1, <2>2, LosesUp
    <2>4. Sound(<<>>, <<>>, hubPolicy[ws], Latest, revision, pending, revisions)
        BY <2>1, <2>2, LosesBoth
    <2> QED  BY <1>1, <1>5, <2>1, <2>2, <2>3, <2>4
<1> QED  BY <1>1, <1>2, <1>3, <1>4, <1>6, <1>7, ClientRests

\* The list of devices has no part in it.
LEMMA DevicesIInv == IInv /\ (AnswerDevices \/ DevicesAnswered) => IInv'
BY DEF IInv, Typed, Connected, Numbered, Underway, Latest, AnswerDevices, DevicesAnswered,
       connVars, policyVars, netVars, hubVars

\* The answer the client waits for: no policy is pending, or the next one is.
LEMMA AcknowledgedIInv ==
    ASSUME IInv, NEW n \in Nat, opened, pending # None, Acknowledged(n),
           n # 0 => revisions, down[ws] # <<>>,
           down' = [down EXCEPT ![ws] = Tail(down[ws])],
           IsLatest(Head(down[ws]), revision, revisions),
           UNCHANGED <<ws, opened, stopped, link, wanted, hubPolicy, online, revisions>>
    PROVE  IInv'
<1> USE DEF IInv
<1> DEFINE u == up[ws]
           d == Tail(down[ws])
<1>1. /\ ws \in Sockets /\ pending \in PendingPolicies /\ pending.policy \in Policies
      /\ desired \in Policies /\ desired = wanted /\ Latest = pending.policy
    BY DEF Connected, Numbered, Latest, Typed, PendingPolicies
<1>2. /\ u \in Seq(PolicyMessages) /\ down[ws] \in Seq(Messages) /\ d \in Seq(Messages)
      /\ revision \in Nat /\ revisions \in BOOLEAN /\ hubPolicy[ws] \in Policies \cup {NoPolicy}
    BY <1>1, TailAt DEF Typed
<1>3. /\ acknowledged' = pending.policy /\ Flush(desired, None, pending.policy, ws)
      /\ supported' = IF n = 0 THEN supported ELSE "yes"
    BY DEF Acknowledged
<1>4. Sound(u, d, hubPolicy[ws], pending.policy, revision, None, revisions)
    <2>1. Sound(u, down[ws], hubPolicy[ws], pending.policy, revision, pending, revisions)
        BY <1>1 DEF Underway
    <2> QED  BY <1>2, <2>1, HearsAnswer
<1>5. down' \in [Sockets -> Seq(Messages)] /\ down'[ws] = d
    BY <1>1, <1>2 DEF Typed
<1> HIDE DEF u, d
<1>6. /\ desired' \in Policies \cup {NoPolicy} /\ pending' \in PendingPolicies \cup {None}
      /\ revision' \in Nat /\ up' \in [Sockets -> Seq(PolicyMessages)]
      /\ \A t \in Sockets : t # ws => up'[t] = up[t]
    BY <1>1, <1>3, FlushTyped DEF Typed
<1>7. Typed'
    BY <1>1, <1>3, <1>5, <1>6 DEF Typed
<1>8. \A t \in Sockets : link'[t] = "none" => up'[t] = <<>> /\ down'[t] = <<>>
    BY <1>6 DEF Connected, Typed
<1>9. Connected'
    BY <1>3, <1>8 DEF Connected
<1>10. CASE desired = pending.policy
    <2>1. desired' = desired /\ pending' = None /\ UNCHANGED <<revision, up>>
        BY <1>3, <1>10, FlushWaits
    <2>2. Numbered'
        BY <1>1, <1>3, <1>10, <2>1 DEF Numbered
    <2>3. Underway'
        BY <1>3, <1>4, <1>5, <2>1 DEF Underway, Latest, u
    <2> QED  BY <1>7, <1>9, <2>2, <2>3
<1>11. CASE desired # pending.policy
    <2>1. /\ desired' = desired /\ revision' = revision + 1
          /\ pending' = Pending(desired, revision + 1, 1)
          /\ pending'.policy = desired /\ pending'.revision = revision' /\ pending' # None
          /\ up'[ws] \in {u, Append(u, PolicyMessage(desired, revision + 1))}
        BY <1>1, <1>3, <1>11, FlushSends DEF u
    <2>2. Numbered'
        BY <1>1, <2>1 DEF Numbered
    <2>3. Sound(up'[ws], d, hubPolicy[ws], desired, revision + 1,
                Pending(desired, revision + 1, 1), revisions)
        <3>1. \A v \in {u, Append(u, PolicyMessage(desired, revision + 1))} :
                  Sound(v, d, hubPolicy[ws], desired, revision + 1,
                        Pending(desired, revision + 1, 1), revisions)
            <4>1. \A p \in Policies : \A v \in {u, Append(u, PolicyMessage(p, revision + 1))} :
                      Sound(v, d, hubPolicy[ws], p, revision + 1,
                            Pending(p, revision + 1, 1), revisions)
                BY <1>2, <1>4, SendsNext
            <4> QED  BY <1>1, <4>1
        <3> QED  BY <2>1, <3>1
    <2>4. Underway'
        BY <1>5, <2>1, <2>3 DEF Underway, Latest
    <2> QED  BY <1>7, <1>9, <2>2, <2>4
<1> QED  BY <1>10, <1>11

\* The latest acknowledgement is the one the client waits for.
LEMMA LatestAnswers ==
    ASSUME IInv, opened, NEW m \in Messages, IsAck(m),
           IF revisions THEN m.revision \in 1 .. revision ELSE m.revision = 0
    PROVE  /\ pending # None => (Answers(m.revision) <=> IsLatest(m, revision, revisions))
           /\ pending = None => ~Answers(m.revision)
           /\ m.revision \in Nat /\ (m.revision # 0 => revisions)
<1> USE DEF IInv
<1>1. revision \in Nat /\ revisions \in BOOLEAN
    BY DEF Typed
<1>2. m.revision \in Nat /\ (m.revision # 0 => revisions) /\ (revisions => m.revision # 0)
    BY <1>1
<1>3. pending # None => (Answers(m.revision) <=> IsLatest(m, revision, revisions))
    BY <1>1, <1>2 DEF Answers, IsLatest, Numbered, Connected
<1>4. pending = None => ~Answers(m.revision)
    BY DEF Answers
<1> QED  BY <1>2, <1>3, <1>4

\* The message event.
LEMMA ReceiveIInv ==
    ASSUME IInv, NEW s \in Sockets, Receive(s)
    PROVE  IInv'
<1> USE DEF IInv
<1> DEFINE m == Head(down[s])
           Taken == /\ s = ws /\ m.type = "hub.receiver-policy-updated"
                    /\ Answers(m.revision)
<1>1. /\ down[s] # <<>> /\ down' = [down EXCEPT ![s] = Tail(down[s])]
      /\ UNCHANGED <<link, ws, opened, stopped, hubPolicy, online, revisions>>
    BY DEF Receive, hubVars
<1>2. /\ down[s] \in Seq(Messages) /\ Tail(down[s]) \in Seq(Messages) /\ m \in Messages
      /\ m = down[s][1] /\ Len(down[s]) \in Nat \ {0}
      /\ Len(Tail(down[s])) = Len(down[s]) - 1
      /\ \A i \in 1 .. Len(down[s]) - 1 :
             i + 1 \in 1 .. Len(down[s]) /\ Tail(down[s])[i] = down[s][i + 1]
    <2>1. down[s] \in Seq(Messages)
        BY DEF Typed
    <2> QED  BY <1>1, <2>1, TailAt
<1>3. down' \in [Sockets -> Seq(Messages)] /\ down'[s] = Tail(down[s])
    BY <1>1, <1>2 DEF Typed
<1>4. CASE Taken
    <2>1. Acknowledged(m.revision) /\ UNCHANGED wanted
        BY <1>4 DEF Receive, Heard
    <2>2. pending # None /\ opened /\ IsAck(m)
        BY <1>4 DEF Answers, Connected, IsAck
    <2>3. IF revisions THEN m.revision \in 1 .. revision ELSE m.revision = 0
        BY <1>2, <1>4, <2>2 DEF Underway, Sound, SoundAcks
    <2>4. /\ IsLatest(m, revision, revisions) /\ m.revision \in Nat
          /\ m.revision # 0 => revisions
        BY <1>2, <1>4, <2>2, <2>3, LatestAnswers
    <2> QED  BY <1>1, <1>4, <2>1, <2>2, <2>4, AcknowledgedIInv
<1>5. CASE ~Taken
    <2>1. /\ UNCHANGED <<wanted, desired, pending, acknowledged, revision, up>>
          /\ supported' = supported \/ supported' = (IF revisions THEN "yes" ELSE "no")
        BY <1>5 DEF Receive, policyVars, Heard
    <2>2. Typed'
        BY <1>1, <1>3, <2>1 DEF Typed
    <2>3. \A t \in Sockets : link'[t] = "none" => up'[t] = <<>> /\ down'[t] = <<>>
        BY <1>1, <1>3, <2>1 DEF Connected, Typed
    <2>4. opened => link'[ws] \in {"open", "dead", "cut", "replaced"}
        BY <1>1 DEF Connected
    <2>5. supported' = supported \/ (supported' = "yes" => revisions)
        BY <2>1
    <2>6. CASE s # ws
        <3>1. ws \in Sockets => down'[ws] = down[ws]
            BY <1>1, <2>6 DEF Typed
        <3> QED  BY <1>1, <2>1, <2>2, <2>3, <2>4, <2>5, <3>1, ClientRests
                 DEF Connected, Underway
    <2>7. CASE s = ws
        <3>1. ~opened => up'[ws] = <<>> /\ \A i \in 1 .. Len(down'[ws]) : ~IsAck(down'[ws][i])
            <4>1. ~opened => up[s] = <<>> /\ \A i \in 1 .. Len(down[s]) : ~IsAck(down[s][i])
                BY <2>7 DEF Connected
            <4> QED  BY <1>2, <1>3, <2>1, <2>7, <4>1
        <3>2. ASSUME opened
              PROVE  Sound(up[s], Tail(down[s]), hubPolicy[s], Latest, revision, pending,
                           revisions)
            <4>1. Sound(up[s], down[s], hubPolicy[s], Latest, revision, pending, revisions)
                BY <2>7, <3>2 DEF Underway
            <4>2. pending = None \/ ~IsLatest(m, revision, revisions)
                <5>1. CASE ~IsAck(m)
                    BY <5>1 DEF IsLatest
                <5>2. CASE IsAck(m)
                    <6>1. IF revisions THEN m.revision \in 1 .. revision ELSE m.revision = 0
                        BY <1>2, <4>1, <5>2 DEF Sound, SoundAcks
                    <6>2. ~Answers(m.revision)
                        BY <1>5, <2>7, <5>2 DEF IsAck
                    <6> QED  BY <1>2, <3>2, <5>2, <6>1, <6>2, LatestAnswers
                <5> QED  BY <5>1, <5>2
            <4>3. up[s] \in Seq(PolicyMessages) /\ revision \in Nat /\ revisions \in BOOLEAN
                BY DEF Typed
            <4> QED  BY <1>1, <1>2, <4>1, <4>2, <4>3, HearsOther
        <3>3. opened => Sound(up'[ws], down'[ws], hubPolicy'[ws], Latest, revision, pending,
                              revisions)
            BY <1>1, <1>3, <2>1, <2>7, <3>2
        <3> QED  BY <1>1, <2>1, <2>2, <2>3, <2>4, <2>5, <3>1, <3>3, ClientRests
    <2> QED  BY <2>6, <2>7
<1> QED  BY <1>4, <1>5

LEMMA NextIInv == IInv /\ [Next]_vars => IInv'
<1> SUFFICES ASSUME IInv, [Next]_vars PROVE IInv'
    OBVIOUS
<1>1. CASE Work
    <2>1. CASE Start
        BY <2>1, StartIInv
    <2>2. CASE Reconnect
        BY <2>2, ConnectIInv DEF Reconnect
    <2>3. CASE PolicyTimeout
        BY <2>3, PolicyTimeoutIInv
    <2>4. CASE Heartbeat
        BY <2>4, HeartbeatIInv
    <2>5. CASE AnswerDevices \/ DevicesAnswered
        BY <2>5, DevicesIInv
    <2>6. ASSUME NEW s \in Sockets, Closed(s) PROVE IInv'
        BY <2>6, ClosedIInv
    <2>7. ASSUME NEW s \in Sockets, Opens(s) PROVE IInv'
        BY <2>7, OpensIInv
    <2>8. ASSUME NEW s \in Sockets, Receive(s) PROVE IInv'
        BY <2>8, ReceiveIInv
    <2>9. ASSUME NEW s \in Sockets, Prove(s) PROVE IInv'
        BY <2>9, ProveIInv
    <2>10. ASSUME NEW s \in Sockets, TakePolicy(s) PROVE IInv'
        BY <2>10, TakePolicyIInv
    <2>11. ASSUME NEW s \in Sockets, NEW atOnce \in BOOLEAN, Accept(s, atOnce) PROVE IInv'
        BY <2>11, AcceptIInv
    <2> QED  BY <1>1, <2>1, <2>2, <2>3, <2>4, <2>5, <2>6, <2>7, <2>8, <2>9, <2>10, <2>11
             DEF Work
<1>2. CASE Stop
    BY <1>2, StopIInv
<1>3. CASE ReconnectNow
    BY <1>3, ConnectIInv DEF ReconnectNow
<1>4. ASSUME NEW p \in Policies, ChangeSettings(p) PROVE IInv'
    BY <1>4, ChangeSettingsIInv
<1>5. ASSUME NEW x \in Peers, Move(x) PROVE IInv'
    BY <1>5, MoveIInv
<1>6. ASSUME NEW s \in Sockets, SendEvent(s) PROVE IInv'
    BY <1>6, SendEventIInv
<1>7. ASSUME NEW s \in Sockets, Fail(s) PROVE IInv'
    BY <1>7, FailIInv
<1>8. CASE UNCHANGED vars
    BY <1>8 DEF vars, connVars, policyVars, netVars, hubVars, IInv, Typed, Connected,
               Numbered, Underway, Latest
<1> QED  BY <1>1, <1>2, <1>3, <1>4, <1>5, <1>6, <1>7, <1>8 DEF Next

-----------------------------------------------------------------------------
(* The theorems.                                                             *)

\* The invariant: what is underway in both directions, against the policy that
\* carries the latest revision (flushReceiverPolicy, handleReceiverPolicyUpdated).
THEOREM HandshakeInvariant == Spec => []IInv
<1>1. Init => IInv
    BY InitIInv
<1>2. IInv /\ [Next]_vars => IInv'
    BY NextIInv
<1> QED  BY <1>1, <1>2, PTL DEF Spec

\* When no policy is pending on an open connection, the hub has taken the
\* settings' policy, and what is still to arrive was filtered with it.
LEMMA NothingPending ==
    ASSUME IInv, opened, pending = None
    PROVE  /\ hubPolicy[ws] = wanted
           /\ \A i \in 1 .. Len(down[ws]) :
                  IsUpdate(down[ws][i]) => down[ws][i].filtered = wanted
<1>1. Latest = wanted
    BY DEF IInv, Numbered, Latest
<1>2. SoundTaken(up[ws], down[ws], hubPolicy[ws], wanted, revision, pending, revisions)
    BY <1>1 DEF IInv, Underway, Sound
<1>3. Len(down[ws]) \in Nat
    BY DEF IInv, Connected, Typed
<1>4. Follows(down[ws], 0, revision, pending, revisions) /\ 0 \in 0 .. Len(down[ws])
    BY <1>3 DEF Follows
<1> QED  BY <1>2, <1>4 DEF SoundTaken

\* A client that is settled has the hub filter with the policy the settings ask
\* for (handleReceiverPolicyUpdated sets receiverPolicyReady).
THEOREM PolicyIsEnforced == Spec => []EnforcedWhenReady
<1>1. IInv => EnforcedWhenReady
    BY NothingPending DEF EnforcedWhenReady, Settled
<1> QED  BY <1>1, HandshakeInvariant, PTL

\* And no event that an earlier policy let through is still to arrive.
THEOREM EventsAreFiltered == Spec => []FilteredOnceSettled
<1>1. IInv => FilteredOnceSettled
    <2> SUFFICES ASSUME IInv, Settled, NEW i \in DOMAIN down[ws],
                        down[ws][i].type = "clipboard.update"
                 PROVE  down[ws][i].filtered = wanted
        BY DEF FilteredOnceSettled
    <2>1. opened /\ pending = None
        BY DEF Settled
    <2>2. down[ws] \in Seq(Messages)
        BY <2>1 DEF IInv, Connected, Typed
    <2>3. i \in 1 .. Len(down[ws])
        BY <2>2
    <2> QED  BY <2>1, <2>3, NothingPending DEF IsUpdate
<1> QED  BY <1>1, HandshakeInvariant, PTL
=============================================================================
