-------------------------- MODULE SyncEngineProofs --------------------------
(***************************************************************************)
(* Proofs about SyncEngine, for any contents, any numbers of attempts, of   *)
(* the user's acts, of other devices' events and of mishaps: no echo is     *)
(* sent, a copy is stored once, the pasteboards converge and the copies are *)
(* delivered.                                                               *)
(*                                                                         *)
(* Each of the three invariants stands on the one before: EngineInv (the    *)
(* engine, the pasteboard and the numbered messages fit), ConvergeInv (what *)
(* is due is on the pasteboard or on its way), DeliverInv (what is owed is  *)
(* in the hub, or the engine still waits for an answer or a mishap's end).  *)
(* For each, what the engine's methods do to it comes first, then one lemma *)
(* for every action; the theorems are at the end.                           *)
(***************************************************************************)
EXTENDS SyncEngine, TLAPS

(***************************************************************************)
(* The engine, the pasteboard and the messages fit.                        *)
(***************************************************************************)

\* What a pasteboard shows.
Shown == Contents \cup {Nothing}

\* The types of the state: a copy in hand, the engine, the pasteboard, what is sent and
\* what comes back.
Pendings ==
    [kind : {"local"}, count : Nat, content : Contents, act : Nat, id : Nat \ {0},
     route : {"none", "all", "some"}, state : {"unsent", "sent", "deferred"}, attempts : Nat]

Engines ==
    [seen : Nat, own : Nat, observed : Shown, submitted : Nat,
     pending : Pendings \cup {None}, ids : Nat]

Boards == [count : Nat, content : Shown, act : Nat]

Messages == [id : Nat, content : Contents, act : Nat, route : {"all", "some"}]

Acks == [type : {"ack"}, id : Nat]
Events == [type : {"event"}, own : BOOLEAN, id : Nat, content : Contents, act : Nat]

\* The elements of a sequence.
Elems(s) == {s[i] : i \in DOMAIN s}

\* Every message of this device that has left it.
Sent == Elems(up) \cup stored

\* The order of the change counts; what is on the pasteboard and was never seen is an act.
Counted(e, b, n) ==
    /\ e.own <= e.seen /\ e.seen <= b.count /\ b.act <= n
    /\ (b.act = 0 /\ b.count # e.seen) => b.content = Nothing

\* The copy in hand.
InHand(e, b, n) ==
    e.pending # None =>
        /\ e.pending.count = e.seen /\ e.pending.id = e.ids /\ e.pending.act \in 1 .. n
        /\ e.pending.content # Nothing
        /\ b.count = e.pending.count =>
             b.content = e.pending.content /\ b.act = e.pending.act

\* What the engine finds next is no copy that was sent.
Fresh(e, b, M) ==
    (b.count # e.seen /\ b.content # e.observed) => \A m \in M : m.act # b.act

\* The messages have numbers the engine has given out; a number is that of one message,
\* and two messages of one copy with numbers next to each other are for different devices.
Numbered(e, n, M) ==
    /\ \A m \in M : m.act \in 1 .. n /\ m.id \in 1 .. e.ids
    /\ \A m, k \in M : /\ m.id = k.id => m = k
                       /\ (m.act = k.act /\ k.id = m.id + 1) => m.route # k.route

\* The copy in hand and the messages of it.
Matched(e, M) ==
    e.pending # None => \A m \in M :
        /\ m.id = e.pending.id =>
             m.act = e.pending.act /\ m.content = e.pending.content /\ m.route = e.pending.route
        /\ (m.act = e.pending.act /\ m.id + 1 = e.pending.id) =>
             e.pending.route # "none" /\ m.route # e.pending.route

\* All this, for the messages M that were sent and the user's n acts.
Fit(e, b, n, M) ==
    /\ e \in Engines /\ b \in Boards /\ n \in Nat /\ M \subseteq Messages
    /\ Counted(e, b, n) /\ InHand(e, b, n) /\ Fresh(e, b, M) /\ Numbered(e, n, M)
    /\ Matched(e, M)

\* What a step comes to.
Keeps(s, n, M) == s.sent \in Seq(Messages) /\ Fit(s.engine, s.board, n, M \cup Elems(s.sent))

\* No copy in hand is not a copy.
LEMMA NoneIsNone == \A p \in Pendings : p # None
  BY DEF Pendings, None

\* The copy in hand is let go of, nothing else.
LEMMA DroppedType ==
    ASSUME NEW e \in Engines
    PROVE  /\ Dropped(e) \in Engines /\ Dropped(e).pending = None
           /\ Dropped(e).seen = e.seen /\ Dropped(e).own = e.own
           /\ Dropped(e).observed = e.observed /\ Dropped(e).submitted = e.submitted
           /\ Dropped(e).ids = e.ids
  BY DEF Engines, Dropped

\* Elements of short sequences.
LEMMA ElemsEmpty == Elems(<<>>) = {} /\ \A S : <<>> \in Seq(S)
  BY DEF Elems

LEMMA ElemsOne == ASSUME NEW S, NEW m \in S PROVE <<m>> \in Seq(S) /\ Elems(<<m>>) = {m}
  BY DEF Elems

\* Routed: a copy for other devices gets the next id, which no message has.
LEMMA RoutedFits ==
    ASSUME NEW e, NEW b, NEW n, NEW M, Fit(e, b, n, M), e.pending # None,
           NEW x \in {"all", "some"}
    PROVE  LET q == Routed(e, x) IN
           /\ Fit(q, b, n, M) /\ q.pending \in Pendings /\ q.pending.route = x
           /\ q.pending.act = e.pending.act /\ q.pending.content = e.pending.content
           /\ q.pending.count = e.pending.count
  <1> DEFINE q == Routed(e, x)
  <1>1. e \in Engines /\ e.pending \in Pendings /\ b \in Boards
    BY DEF Fit, Engines
  <1>2. CASE e.pending.route \in {"none", x}
    <2>1. q = [e EXCEPT !.pending.route = x]
      BY <1>2 DEF Routed
    <2>2. /\ q \in Engines /\ q.pending = [e.pending EXCEPT !.route = x]
          /\ q.seen = e.seen /\ q.own = e.own /\ q.observed = e.observed
          /\ q.submitted = e.submitted /\ q.ids = e.ids
      BY <1>1, <2>1 DEF Engines, Pendings
    <2>3. /\ q.pending \in Pendings
          /\ q.pending.route = x /\ q.pending.count = e.pending.count
          /\ q.pending.content = e.pending.content /\ q.pending.act = e.pending.act
          /\ q.pending.id = e.pending.id
      BY <1>1, <2>2 DEF Pendings
    <2>4. Counted(q, b, n) /\ InHand(q, b, n) /\ Fresh(q, b, M) /\ Numbered(q, n, M)
      BY <2>2, <2>3, NoneIsNone DEF Fit, Counted, InHand, Fresh, Numbered
    <2>5. Matched(q, M)
      BY <2>2, <2>3, <1>1, <1>2, NoneIsNone DEF Fit, Matched, Messages
    <2> HIDE DEF q
    <2> QED BY <2>2, <2>3, <2>4, <2>5 DEF Fit, q
  <1>3. CASE e.pending.route \notin {"none", x}
    <2>1. q = [e EXCEPT !.pending.id = e.ids + 1, !.pending.route = x,
                        !.pending.attempts = 0, !.ids = e.ids + 1]
      BY <1>3 DEF Routed
    <2> DEFINE p == [e.pending EXCEPT !.id = e.ids + 1, !.route = x, !.attempts = 0]
    <2>a. e.ids \in Nat /\ e.ids + 1 \in Nat \ {0}
      BY <1>1 DEF Engines
    <2>b. /\ p \in Pendings /\ p.route = x /\ p.count = e.pending.count
          /\ p.content = e.pending.content /\ p.act = e.pending.act /\ p.id = e.ids + 1
      BY <1>1, <2>a DEF Pendings
    <2>c. q = [e EXCEPT !.pending = p, !.ids = e.ids + 1]
      BY <1>1, <2>1 DEF Engines, Pendings
    <2> HIDE DEF p
    <2>2. /\ q \in Engines /\ q.pending = p
          /\ q.seen = e.seen /\ q.own = e.own /\ q.observed = e.observed
          /\ q.submitted = e.submitted /\ q.ids = e.ids + 1
      BY <1>1, <2>a, <2>b, <2>c DEF Engines
    <2>3. /\ q.pending \in Pendings
          /\ q.pending.route = x /\ q.pending.count = e.pending.count
          /\ q.pending.content = e.pending.content /\ q.pending.act = e.pending.act
          /\ q.pending.id = e.ids + 1
      BY <2>b, <2>2
    <2>4. Counted(q, b, n) /\ InHand(q, b, n) /\ Fresh(q, b, M) /\ Numbered(q, n, M)
      BY <2>2, <2>3, NoneIsNone DEF Fit, Counted, InHand, Fresh, Numbered, Engines, Messages
    <2>5. Matched(q, M)
      BY <2>2, <2>3, <1>1, <1>3, NoneIsNone
      DEF Fit, Matched, Numbered, InHand, Engines, Messages
    <2> HIDE DEF q
    <2> QED BY <2>2, <2>3, <2>4, <2>5 DEF Fit, q
  <1> QED BY <1>2, <1>3

\* Without the copy in hand, or as it is, the engine still fits.
LEMMA DroppedFits ==
    ASSUME NEW e, NEW b, NEW n, NEW M, Fit(e, b, n, M)
    PROVE  Fit(Dropped(e), b, n, M) /\ Keeps(Step(Dropped(e), b, <<>>), n, M)
  <1>1. e \in Engines
    BY DEF Fit
  <1>2. Fit(Dropped(e), b, n, M)
    BY <1>1, DroppedType DEF Fit, Counted, InHand, Fresh, Numbered, Matched
  <1> QED BY <1>2, ElemsEmpty DEF Keeps, Step

LEMMA StaysFits ==
    ASSUME NEW e, NEW b, NEW n, NEW M, Fit(e, b, n, M)
    PROVE  Keeps(Step(e, b, <<>>), n, M)
  BY ElemsEmpty DEF Keeps, Step

\* Only the state of the copy in hand changes.
LEMMA MarkedFits ==
    ASSUME NEW e, NEW b, NEW n, NEW M, Fit(e, b, n, M), e.pending # None,
           NEW st \in {"unsent", "sent", "deferred"}
    PROVE  Fit([e EXCEPT !.pending.state = st], b, n, M)
  <1> DEFINE q == [e EXCEPT !.pending.state = st]
  <1>1. e \in Engines /\ e.pending \in Pendings
    BY DEF Fit, Engines
  <1>2. /\ q \in Engines /\ q.pending = [e.pending EXCEPT !.state = st]
        /\ q.seen = e.seen /\ q.own = e.own /\ q.observed = e.observed
        /\ q.submitted = e.submitted /\ q.ids = e.ids
    BY <1>1 DEF Engines, Pendings
  <1>3. /\ q.pending \in Pendings /\ q.pending.route = e.pending.route
        /\ q.pending.count = e.pending.count /\ q.pending.id = e.pending.id
        /\ q.pending.content = e.pending.content /\ q.pending.act = e.pending.act
    BY <1>1, <1>2 DEF Pendings
  <1> HIDE DEF q
  <1>4. Fit(q, b, n, M)
    BY <1>1, <1>2, <1>3, NoneIsNone DEF Fit, Counted, InHand, Fresh, Numbered, Matched
  <1> QED BY <1>4 DEF q

\* trySendPending: what it sends is numbered and matched with the copy it keeps in hand.
LEMMA TrySendFits ==
    ASSUME NEW e, NEW b, NEW n, NEW M, Fit(e, b, n, M),
           NEW x \in Sending, NEW accepted \in BOOLEAN
    PROVE  Keeps(TrySend(e, b, x, accepted), n, M)
  <1> DEFINE s == TrySend(e, b, x, accepted)
  <1>1. CASE e.pending = None
    BY <1>1, StaysFits DEF TrySend
  <1>2. CASE e.pending # None /\ (~Current(e, b) \/ x \in {"paused", "nobody"})
    BY <1>2, DroppedFits DEF TrySend
  <1>3. CASE e.pending # None /\ Current(e, b) /\ x = "deferred"
    <2>1. s = Step([e EXCEPT !.pending.state = "deferred"], b, <<>>)
      BY <1>3 DEF TrySend
    <2> QED BY <1>3, <2>1, MarkedFits, StaysFits
  <1>4. CASE e.pending # None /\ Current(e, b) /\ x \in {"all", "some"}
    <2> DEFINE q == Routed(e, x)
               m == [id |-> q.pending.id, content |-> q.pending.content,
                     act |-> q.pending.act, route |-> q.pending.route]
               r == [q EXCEPT !.pending.state = "sent", !.pending.attempts = @ + 1,
                              !.submitted = q.pending.id]
    <2>1. /\ Fit(q, b, n, M) /\ q.pending \in Pendings /\ q.pending.route = x
          /\ q.pending.act = e.pending.act /\ q.pending.content = e.pending.content
          /\ q.pending.count = e.pending.count /\ q.pending # None
      BY <1>4, RoutedFits, NoneIsNone
    <2>2. \/ s = Step(Dropped(q), b, <<>>)
          \/ s = Step([q EXCEPT !.pending.state = "unsent"], b, <<>>)
          \/ s = Step(r, b, <<m>>)
      BY <1>4 DEF TrySend
    <2> HIDE DEF q
    <2>3. CASE s = Step(Dropped(q), b, <<>>)
      BY <2>1, <2>3, DroppedFits
    <2>4. CASE s = Step([q EXCEPT !.pending.state = "unsent"], b, <<>>)
      <3> DEFINE u == [q EXCEPT !.pending.state = "unsent"]
      <3>1. Fit(u, b, n, M)
        BY <2>1, MarkedFits
      <3> HIDE DEF u
      <3>2. Keeps(Step(u, b, <<>>), n, M)
        BY <3>1, StaysFits
      <3>3. s = Step(u, b, <<>>)
        BY <2>4 DEF u
      <3> QED BY <3>2, <3>3
    <2>5. CASE s = Step(r, b, <<m>>)
      <3>1. m \in Messages /\ <<m>> \in Seq(Messages) /\ Elems(<<m>>) = {m}
        <4>1. m \in Messages
          BY <1>4, <2>1 DEF Messages, Pendings
        <4> QED BY <4>1, ElemsOne
      <3>2. q \in Engines /\ b \in Boards
        BY <2>1 DEF Fit
      <3> DEFINE p == [q.pending EXCEPT !.state = "sent", !.attempts = q.pending.attempts + 1]
      <3>d. q.pending.attempts + 1 \in Nat
        BY <2>1 DEF Pendings
      <3>a. /\ p \in Pendings /\ p.route = q.pending.route
            /\ p.count = q.pending.count /\ p.id = q.pending.id
            /\ p.content = q.pending.content /\ p.act = q.pending.act
        BY <2>1, <3>d DEF Pendings
      <3>b. r = [q EXCEPT !.pending = p, !.submitted = q.pending.id]
        BY <2>1, <3>2 DEF Engines, Pendings
      <3>c. q.pending.id \in Nat
        BY <2>1 DEF Pendings
      <3> HIDE DEF p
      <3>3. /\ r \in Engines /\ r.pending = p
            /\ r.seen = q.seen /\ r.own = q.own /\ r.observed = q.observed /\ r.ids = q.ids
        <4> HIDE DEF r
        <4> QED BY <3>2, <3>a, <3>b, <3>c DEF Engines
      <3>4. /\ r.pending \in Pendings /\ r.pending.route = q.pending.route
            /\ r.pending.count = q.pending.count /\ r.pending.id = q.pending.id
            /\ r.pending.content = q.pending.content /\ r.pending.act = q.pending.act
        BY <3>3, <3>a
      <3>5. /\ m.id = q.pending.id /\ m.content = q.pending.content
            /\ m.act = q.pending.act /\ m.route = q.pending.route
        OBVIOUS
      <3>6. b.count = q.seen /\ q.pending.id = q.ids /\ q.pending.act \in 1 .. n
        BY <1>4, <2>1 DEF Current, Fit, InHand
      <3> HIDE DEF r, m
      <3>7. Counted(r, b, n) /\ InHand(r, b, n) /\ Fresh(r, b, M \cup {m})
        BY <2>1, <3>3, <3>4, <3>6 DEF Fit, Counted, InHand, Fresh
      <3>8. Numbered(r, n, M \cup {m})
        <4>1. \A k \in M : k.id = m.id => k = m
          BY <2>1, <3>1, <3>5 DEF Fit, Matched, Messages
        <4>2. \A k \in M : (k.act = m.act /\ m.id = k.id + 1) => k.route # m.route
          BY <2>1, <3>5 DEF Fit, Matched
        <4>3. \A k \in M : k.id # m.id + 1
          BY <2>1, <3>2, <3>5, <3>6 DEF Fit, Numbered, Engines, Messages
        <4>4. m.act \in 1 .. n /\ m.id \in 1 .. q.ids
          BY <3>5, <3>6, <2>1, <3>2 DEF Engines, Pendings
        <4> QED BY <2>1, <3>1, <3>3, <3>5, <4>1, <4>2, <4>3, <4>4 DEF Fit, Numbered, Messages
      <3>9. Matched(r, M \cup {m})
        BY <2>1, <3>1, <3>4, <3>5 DEF Fit, Matched, Messages
      <3> QED BY <2>1, <2>5, <3>1, <3>2, <3>3, <3>7, <3>8, <3>9 DEF Fit, Keeps, Step
    <2> QED BY <2>2, <2>3, <2>4, <2>5
  <1> QED BY <1>1, <1>2, <1>3, <1>4 DEF Sending

\* write: the pasteboard shows what is written, and the engine knows it for its own.
LEMMA WriteFits ==
    ASSUME NEW e, NEW b, NEW n, NEW M, Fit(e, b, n, M), NEW c \in Contents, NEW w \in Writes
    PROVE  Keeps(Write(e, b, c, w), n, M)
  <1>1. e \in Engines /\ b \in Boards /\ b.count + 1 \in Nat /\ c \in Shown
    BY DEF Fit, Boards, Shown
  <1>2. CASE w = "done"
    <2> DEFINE q == [Dropped(e) EXCEPT !.own = b.count + 1, !.seen = b.count + 1,
                                       !.observed = c]
               v == [count |-> b.count + 1, content |-> ReadsAs[c], act |-> 0]
    <2>1. Write(e, b, c, w) = Step(q, v, <<>>)
      BY <1>2 DEF Write
    <2>2. /\ q \in Engines /\ q.pending = None /\ q.ids = e.ids
          /\ q.own = b.count + 1 /\ q.seen = b.count + 1
      BY <1>1, DroppedType DEF Engines
    <2>3. v \in Boards /\ v.count = b.count + 1 /\ v.act = 0
      BY <1>1, EngineAssumption DEF Boards, Shown
    <2> HIDE DEF q, v
    <2>4. Fit(q, v, n, M)
      BY <1>1, <2>2, <2>3 DEF Fit, Counted, InHand, Fresh, Numbered, Matched
    <2> QED BY <2>1, <2>4, StaysFits
  <1>3. CASE w = "rejected"
    <2> DEFINE v == [count |-> b.count + 1, content |-> Nothing, act |-> 0]
    <2>1. Write(e, b, c, w) = Step(e, v, <<>>)
      BY <1>3 DEF Write
    <2>2. v \in Boards /\ v.count = b.count + 1 /\ v.act = 0 /\ v.content = Nothing
      BY <1>1 DEF Boards, Shown
    <2> HIDE DEF v
    <2>3. v.count > e.seen
      BY <1>1, <2>2 DEF Fit, Counted, Boards, Engines
    <2>4. Fit(e, v, n, M)
      BY <1>1, <2>2, <2>3
      DEF Fit, Counted, InHand, Fresh, Numbered, Matched, Engines, Boards, Messages
    <2> QED BY <2>1, <2>4, StaysFits
  <1>4. CASE w = "invalid"
    BY <1>4, StaysFits DEF Write
  <1> QED BY <1>2, <1>3, <1>4 DEF Writes

\* handleAck: an acknowledgement at most lets go of the copy in hand.
LEMMA AcknowledgeFits ==
    ASSUME NEW e, NEW b, NEW n, NEW M, Fit(e, b, n, M), NEW id
    PROVE  Fit(Acknowledge(e, id), b, n, M)
  BY DroppedFits DEF Acknowledge

\* The id that was sent last is forgotten.
LEMMA ForgetsFits ==
    ASSUME NEW e, NEW b, NEW n, NEW M, Fit(e, b, n, M)
    PROVE  Fit([e EXCEPT !.submitted = 0], b, n, M)
  <1> DEFINE q == [e EXCEPT !.submitted = 0]
  <1>1. e \in Engines
    BY DEF Fit
  <1>2. /\ q \in Engines /\ q.pending = e.pending /\ q.seen = e.seen /\ q.own = e.own
        /\ q.observed = e.observed /\ q.ids = e.ids
    BY <1>1 DEF Engines
  <1> HIDE DEF q
  <1>3. Fit(q, b, n, M)
    BY <1>2 DEF Fit, Counted, InHand, Fresh, Numbered, Matched
  <1> QED BY <1>3 DEF q

\* applyRemote, for an event of this device: an acknowledgement, and perhaps a write.
LEMMA HearOwnFits ==
    ASSUME NEW e, NEW b, NEW n, NEW M, Fit(e, b, n, M),
           NEW m, m.content \in Contents, NEW w \in Writes
    PROVE  Keeps(HearOwn(e, b, m, w), n, M)
  <1> DEFINE a == Acknowledge(e, m.id)
             k == IF m.id = a.submitted THEN [a EXCEPT !.submitted = 0] ELSE a
  <1>1. Fit(a, b, n, M)
    BY AcknowledgeFits
  <1>2. Fit(k, b, n, M)
    <2> HIDE DEF a
    <2>1. Fit([a EXCEPT !.submitted = 0], b, n, M)
      BY <1>1, ForgetsFits
    <2> QED BY <1>1, <2>1
  <1>3. \/ HearOwn(e, b, m, w) = Write(k, b, m.content, w)
        \/ HearOwn(e, b, m, w) = Step(k, b, <<>>)
    BY DEF HearOwn
  <1> HIDE DEF k
  <1> QED BY <1>2, <1>3, WriteFits, StaysFits

\* observeLocalChange, also when the user has copied meanwhile.
LEMMA ObserveFits ==
    ASSUME NEW e, NEW b, NEW n, NEW M, Fit(e, b, n, M), b.count # e.seen,
           settings.sending \in Sending, NEW read \in BOOLEAN, NEW accepted \in BOOLEAN,
           NEW v \in Boards, NEW k \in Nat,
           \/ v = b /\ k = n
           \/ v.count = b.count + 1 /\ k = n + 1 /\ v.act = k
    PROVE  Keeps(Observe(Looked(e, b), v, b.count, read, accepted), k, M)
  <1> DEFINE l == Looked(e, b)
             z == [l EXCEPT !.submitted = 0, !.pending = None]
             s == v.content
             p == [kind |-> "local", count |-> b.count, content |-> s, act |-> v.act,
                   id |-> l.ids + 1, route |-> "none", state |-> "unsent", attempts |-> 0]
             y == [z EXCEPT !.observed = s, !.ids = l.ids + 1, !.pending = p]
  <1>1. /\ e \in Engines /\ b \in Boards /\ b.count \in Nat /\ e.ids \in Nat /\ n \in Nat
        /\ M \subseteq Messages /\ e.seen \in Nat /\ e.own \in Nat
    BY DEF Fit, Boards, Engines
  <1>2. /\ l \in Engines /\ l.seen = b.count /\ l.own = e.own /\ l.ids = e.ids
        /\ l.observed = e.observed
    BY <1>1 DEF Looked, Engines
  <1>3. /\ z \in Engines /\ z.seen = b.count /\ z.own = e.own /\ z.ids = e.ids
        /\ z.observed = e.observed /\ z.pending = None
    <2> HIDE DEF l
    <2> QED BY <1>2 DEF Engines
  <1>4. /\ Counted(z, v, k) /\ Numbered(z, k, M) /\ v.count >= b.count
        /\ v.count = b.count \/ \A m \in M : m.act # v.act
    <2> HIDE DEF z
    <2>1. v.count \in Nat /\ v.act \in Nat
      BY DEF Boards
    <2>2. \A m \in M : m.act \in Nat
      BY <1>1 DEF Messages
    <2>3. \A m \in M : m.act \in 1 .. n
      BY DEF Fit, Numbered
    <2>4. Counted(z, v, k) /\ v.count >= b.count
      BY <1>1, <1>3, <2>1 DEF Fit, Counted
    <2>5. v.count = b.count \/ \A m \in M : m.act # v.act
      BY <1>1, <2>1, <2>2, <2>3
    <2>6. \A m \in M : m.act \in 1 .. k
      BY <1>1, <2>2, <2>3
    <2> QED BY <1>3, <2>4, <2>5, <2>6 DEF Fit, Numbered
  <1>5. ASSUME NEW q \in Engines, q.pending = None, q.seen = z.seen, q.own = z.own,
               q.ids = z.ids
        PROVE  Keeps(Step(q, v, <<>>), k, M)
    <2> HIDE DEF z
    <2>1. Fit(q, v, k, M)
      BY <1>1, <1>3, <1>4, <1>5 DEF Fit, Counted, InHand, Fresh, Numbered, Matched
    <2> QED BY <2>1, StaysFits
  <1>6. ASSUME NEW o \in Shown
        PROVE  Keeps(Step([z EXCEPT !.observed = o], v, <<>>), k, M)
    <2> HIDE DEF z
    <2> DEFINE q == [z EXCEPT !.observed = o]
    <2>1. /\ q \in Engines /\ q.pending = None /\ q.seen = z.seen /\ q.own = z.own
          /\ q.ids = z.ids
      BY <1>3 DEF Engines
    <2> HIDE DEF q
    <2>2. Keeps(Step(q, v, <<>>), k, M)
      BY <1>5, <2>1
    <2> QED BY <2>2 DEF q
  <1>7. Keeps(Step(z, v, <<>>), k, M)
    <2> HIDE DEF z
    <2> QED BY <1>3, <1>5
  <1>8. ASSUME s # Nothing, s \notin Large, s # e.observed
        PROVE  Keeps(TrySend(y, v, settings.sending, accepted), k, M)
    <2>1. s \in Contents /\ v.act \in Nat /\ v.count \in Nat /\ s \in Shown
      BY <1>8 DEF Boards, Shown
    <2>2. e.ids + 1 \in Nat \ {0}
      BY <1>1
    <2>3. /\ p \in Pendings /\ p.count = b.count /\ p.content = s /\ p.act = v.act
          /\ p.id = e.ids + 1 /\ p.route = "none"
      <3> HIDE DEF l
      <3> QED BY <1>1, <1>2, <2>1, <2>2 DEF Pendings
    <2>4. /\ y \in Engines /\ y.seen = b.count /\ y.own = e.own /\ y.ids = e.ids + 1
          /\ y.observed = s /\ y.pending = p
      <3> HIDE DEF l, z, p
      <3> QED BY <1>1, <1>2, <1>3, <2>1, <2>2, <2>3 DEF Engines
    <2> HIDE DEF l, z, p, y
    <2>5. Counted(y, v, k)
      BY <1>3, <1>4, <2>4 DEF Counted
    <2>6. \A m \in M : m.act # v.act
      BY <1>1, <1>4, <1>8 DEF Fit, Fresh
    <2>7. v.act \in 1 .. k
      BY <1>1, <1>8, <2>1 DEF Fit, Counted
    <2>8. InHand(y, v, k) /\ Fresh(y, v, M)
      BY <2>1, <2>3, <2>4, <2>6, <2>7, <1>8 DEF InHand, Fresh
    <2>9. Numbered(y, k, M) /\ Matched(y, M)
      <3>1. \A m \in M : m.id \in 1 .. e.ids /\ m.id \in Nat
        BY <1>1, <1>3, <1>4 DEF Numbered, Messages
      <3>2. \A m \in M : m.id \in 1 .. y.ids /\ m.id # y.pending.id
        BY <1>1, <3>1, <2>3, <2>4
      <3> QED BY <1>3, <1>4, <2>3, <2>4, <2>6, <3>2 DEF Numbered, Matched
    <2>10. Fit(y, v, k, M)
      BY <1>1, <2>4, <2>5, <2>8, <2>9 DEF Fit
    <2> QED BY <2>10, TrySendFits
  <1>9. \/ \E o \in Shown : Observe(l, v, b.count, read, accepted) =
                              Step([z EXCEPT !.observed = o], v, <<>>)
        \/ Observe(l, v, b.count, read, accepted) = Step(z, v, <<>>)
        \/ /\ s # Nothing /\ s \notin Large /\ s # e.observed
           /\ Observe(l, v, b.count, read, accepted) = TrySend(y, v, settings.sending, accepted)
    <2>1. s \in Shown /\ Nothing \in Shown
      BY DEF Boards, Shown
    <2> HIDE DEF l
    <2> QED BY <1>2, <2>1 DEF Observe
  <1> HIDE DEF l, z, y
  <1>10. Keeps(Observe(l, v, b.count, read, accepted), k, M)
    BY <1>6, <1>7, <1>8, <1>9
  <1> QED BY <1>10 DEF l

(***************************************************************************)
(* Every step keeps them so.                                               *)
(***************************************************************************)

\* The types of the history variables.
Dues == [known : {TRUE}, content : Shown] \cup {Unknown}

\* The types of the variables that the engine does not hold.
TypeOK ==
    /\ settings \in [sending : Sending, receiving : {"all", "blocked", "paused"}]
    /\ online \in BOOLEAN /\ up \in Seq(Messages) /\ down \in Seq(Acks \cup Events)
    /\ stored \in SUBSET Messages /\ due \in Dues
    /\ owed \in {"yes", "no", "repeated", "overtaken", "overwritten"}
    /\ peers \in Nat /\ mishaps \in Nat /\ drops \in Nat

\* The first invariant.
EngineInv == TypeOK /\ Fit(engine, board, acts, Sent)

\* The elements of a concatenation, and of a sequence without its first.
LEMMA ElemsConcat ==
    ASSUME NEW S, NEW s \in Seq(S), NEW t \in Seq(S)
    PROVE  s \o t \in Seq(S) /\ Elems(s \o t) = Elems(s) \cup Elems(t)
  <1>1. s \o t \in Seq(S) /\ Len(s \o t) = Len(s) + Len(t)
    OBVIOUS
  <1>2. \A i \in 1 .. Len(s) : (s \o t)[i] = s[i]
    OBVIOUS
  <1>3. \A i \in 1 .. Len(t) : (s \o t)[Len(s) + i] = t[i]
    OBVIOUS
  <1>4. ASSUME NEW i \in 1 .. Len(s \o t) PROVE (s \o t)[i] \in Elems(s) \cup Elems(t)
    <2>1. CASE i <= Len(s)
      BY <1>2, <2>1 DEF Elems
    <2>2. CASE i > Len(s)
      <3>1. i - Len(s) \in 1 .. Len(t) /\ i = Len(s) + (i - Len(s))
        BY <1>1, <2>2
      <3>2. (s \o t)[i] = t[i - Len(s)]
        BY <1>3, <3>1
      <3> QED BY <3>1, <3>2 DEF Elems
    <2> QED BY <2>1, <2>2
  <1>5. ASSUME NEW i \in 1 .. Len(s) PROVE s[i] \in Elems(s \o t)
    BY <1>1, <1>2 DEF Elems
  <1>6. ASSUME NEW i \in 1 .. Len(t) PROVE t[i] \in Elems(s \o t)
    <2>1. Len(s) + i \in 1 .. Len(s \o t)
      BY <1>1
    <2> QED BY <1>1, <1>3, <2>1 DEF Elems
  <1>7. DOMAIN s = 1 .. Len(s) /\ DOMAIN t = 1 .. Len(t) /\ DOMAIN (s \o t) = 1 .. Len(s \o t)
    BY <1>1
  <1> QED BY <1>1, <1>4, <1>5, <1>6, <1>7 DEF Elems

LEMMA ElemsTail ==
    ASSUME NEW S, NEW s \in Seq(S), s # <<>>
    PROVE  /\ Head(s) \in S /\ Tail(s) \in Seq(S) /\ Head(s) \in Elems(s)
           /\ Elems(s) = {Head(s)} \cup Elems(Tail(s))
  <1>1. Len(s) \in Nat \ {0} /\ Head(s) = s[1] /\ Tail(s) \in Seq(S)
    OBVIOUS
  <1>2. Len(Tail(s)) = Len(s) - 1 /\ \A i \in 1 .. Len(s) - 1 : Tail(s)[i] = s[i + 1]
    OBVIOUS
  <1>3. DOMAIN s = 1 .. Len(s) /\ DOMAIN Tail(s) = 1 .. Len(s) - 1
    BY <1>1, <1>2
  <1>4. ASSUME NEW i \in 1 .. Len(s) PROVE s[i] \in {Head(s)} \cup Elems(Tail(s))
    <2>1. CASE i = 1
      BY <1>1, <2>1
    <2>2. CASE i # 1
      <3>1. i - 1 \in 1 .. Len(s) - 1 /\ (i - 1) + 1 = i
        BY <1>1, <2>2
      <3> QED BY <1>2, <1>3, <3>1 DEF Elems
    <2> QED BY <2>1, <2>2
  <1>5. ASSUME NEW i \in 1 .. Len(s) - 1 PROVE Tail(s)[i] \in Elems(s)
    <2>1. i + 1 \in 1 .. Len(s)
      BY <1>1
    <2> QED BY <1>2, <1>3, <2>1 DEF Elems
  <1>6. Head(s) \in S /\ Head(s) \in Elems(s)
    BY <1>1, <1>3 DEF Elems
  <1> QED BY <1>1, <1>3, <1>4, <1>5, <1>6 DEF Elems

\* Fewer messages fit too.
LEMMA FewerFit ==
    ASSUME NEW e, NEW b, NEW n, NEW M, Fit(e, b, n, M), NEW N, N \subseteq M
    PROVE  Fit(e, b, n, N)
  BY DEF Fit, Fresh, Numbered, Matched

\* A step of the engine on the sent messages.
LEMMA BringsFit ==
    ASSUME TypeOK, NEW s, NEW n, NEW d, NEW o, Keeps(s, n, Sent), Brings(s, d, o),
           stored' = stored, acts' = n
    PROVE  up' \in Seq(Messages) /\ Fit(engine', board', acts', Sent')
  <1>1. up' = up \o s.sent /\ engine' = s.engine /\ board' = s.board
    BY DEF Brings
  <1>2. up \in Seq(Messages) /\ s.sent \in Seq(Messages)
    BY DEF TypeOK, Keeps
  <1>3. up' \in Seq(Messages) /\ Elems(up') = Elems(up) \cup Elems(s.sent)
    BY <1>1, <1>2, ElemsConcat
  <1>4. Sent' = Sent \cup Elems(s.sent)
    BY <1>3 DEF Sent
  <1> QED BY <1>1, <1>3, <1>4 DEF Keeps

\* At the start.
LEMMA InitInv == Init => EngineInv
  <1> SUFFICES ASSUME Init PROVE EngineInv
    OBVIOUS
  <1>1. TypeOK
    <2>1. up \in Seq(Messages) /\ down \in Seq(Acks \cup Events)
      BY ElemsEmpty DEF Init
    <2>2. due \in Dues
      BY DEF Init, Dues, Due, Shown
    <2> QED BY <2>1, <2>2 DEF Init, TypeOK, Sending
  <1>2. Sent = {}
    BY ElemsEmpty DEF Init, Sent
  <1>3. engine \in Engines /\ board \in Boards /\ engine.pending = None
    BY DEF Init, Engines, Boards, New, Shown
  <1>4. engine = New /\ board.count = 0 /\ board.act = 0 /\ board.content = Nothing /\ acts = 0
    BY DEF Init
  <1>5. Fit(engine, board, acts, Sent)
    BY <1>2, <1>3, <1>4 DEF New, Fit, Counted, InHand, Fresh, Numbered, Matched
  <1> QED BY <1>1, <1>5 DEF EngineInv

\* The bound on mishaps stays a number.
LEMMA CostsType == ASSUME mishaps \in Nat, NEW n \in Nat, Costs(n) PROVE mishaps' \in Nat
  BY DEF Costs

Settings == [sending : Sending, receiving : {"all", "blocked", "paused"}]
Debts == {"yes", "no", "repeated", "overtaken", "overwritten"}
Downs == Seq(Acks \cup Events)

\* What the invariant says of types.
LEMMA TypesOf ==
    EngineInv => /\ engine \in Engines /\ board \in Boards /\ acts \in Nat /\ acts + 1 \in Nat
                 /\ settings \in Settings /\ settings.sending \in Sending
                 /\ online \in BOOLEAN /\ up \in Seq(Messages) /\ down \in Downs
                 /\ due \in Dues /\ owed \in Debts /\ peers \in Nat /\ mishaps \in Nat
                 /\ drops \in Nat /\ stored \in SUBSET Messages
                 /\ board.count \in Nat /\ board.count + 1 \in Nat /\ board.act \in Nat
                 /\ engine.seen \in Nat /\ engine.own \in Nat
  BY DEF EngineInv, TypeOK, Fit, Settings, Debts, Downs, Boards, Engines

\* A step of the engine leaves the rest well typed.
LEMMA BringsInv ==
    ASSUME EngineInv, NEW s, NEW n, NEW d \in Dues, NEW o \in Debts,
           Keeps(s, n, Sent), Brings(s, d, o), stored' = stored, acts' = n,
           settings' \in Settings, online' \in BOOLEAN, down' \in Downs,
           peers' \in Nat, mishaps' \in Nat, drops' \in Nat
    PROVE  EngineInv'
  <1>1. TypeOK
    BY DEF EngineInv
  <1>2. up' \in Seq(Messages) /\ Fit(engine', board', acts', Sent')
    BY <1>1, BringsFit
  <1>3. due' = d /\ owed' = o
    BY DEF Brings
  <1> QED BY <1>1, <1>2, <1>3 DEF EngineInv, TypeOK, Settings, Debts, Downs

\* poll
LEMMA PollInv ==
    ASSUME EngineInv, NEW a \in BOOLEAN, NEW r \in BOOLEAN, Poll(r, a)
    PROVE  EngineInv'
  <1> DEFINE e == Looked(engine, board)
             s == IF board.count = e.own THEN Step(e, board, <<>>)
                  ELSE Observe(e, board, board.count, r, a)
             o == IF r /\ a = online THEN owed ELSE "no"
  <1>1. Fit(engine, board, acts, Sent) /\ board.count # engine.seen
    BY DEF EngineInv, Poll
  <1>2. e.own = engine.own
    BY TypesOf DEF Looked, Engines
  <1>3. board.count # e.own
    BY <1>1, <1>2, TypesOf DEF Fit, Counted
  <1>4. Keeps(s, acts, Sent)
    <2>1. Keeps(Observe(e, board, board.count, r, a), acts, Sent)
      BY <1>1, TypesOf, ObserveFits
    <2> QED BY <1>3, <2>1
  <1>5. Brings(s, due, o)
    BY DEF Poll
  <1>6. o \in Debts
    BY TypesOf DEF Debts
  <1>7. mishaps' \in Nat
    BY TypesOf, CostsType DEF Poll, Refusal
  <1> HIDE DEF s, o
  <1> QED BY <1>4, <1>5, <1>6, <1>7, TypesOf, BringsInv DEF Poll

\* poll, when a copy overtakes it.
LEMMA OvertakenInv ==
    ASSUME EngineInv, NEW c \in Contents \cup {Nothing}, PollOvertaken(c)
    PROVE  EngineInv'
  <1> DEFINE v == [count |-> board.count + 1, content |-> c, act |-> acts + 1]
             s == Observe(Looked(engine, board), v, board.count, TRUE, FALSE)
             o == IF Owes(c) THEN "overtaken" ELSE "no"
  <1>1. Fit(engine, board, acts, Sent) /\ board.count # engine.seen
    BY DEF EngineInv, PollOvertaken
  <1>2. v \in Boards /\ v.count = board.count + 1 /\ v.act = acts + 1
    BY TypesOf DEF Boards, Shown
  <1>3. Keeps(s, acts + 1, Sent)
    <2> HIDE DEF v
    <2> QED BY <1>1, <1>2, TypesOf, ObserveFits
  <1>4. Brings(s, Due(c), o)
    BY DEF PollOvertaken
  <1>5. o \in Debts /\ Due(c) \in Dues
    BY DEF Debts, Dues, Due, Shown
  <1>6. mishaps' \in Nat
    BY TypesOf, CostsType DEF PollOvertaken
  <1> HIDE DEF s, o
  <1> QED BY <1>3, <1>4, <1>5, <1>6, TypesOf, BringsInv DEF PollOvertaken

\* poll, when the answer is late.
LEMMA ResendInv ==
    ASSUME EngineInv, NEW a \in BOOLEAN, Resend(a)
    PROVE  EngineInv'
  <1> DEFINE s == TrySend(engine, board, settings.sending, a)
             o == IF a = online THEN owed ELSE "no"
  <1>1. Keeps(s, acts, Sent)
    BY TypesOf, TrySendFits DEF EngineInv
  <1>2. Brings(s, due, o)
    BY DEF Resend
  <1>3. o \in Debts
    BY TypesOf DEF Debts
  <1>4. drops' \in Nat /\ mishaps' \in Nat
    <2>1. drops' \in Nat /\ drops' - drops \in Nat
      BY TypesOf DEF Resend
    <2>2. Refusal(online, a) \in Nat
      BY DEF Refusal
    <2>3. drops' - drops + Refusal(online, a) \in Nat
      BY <2>1, <2>2
    <2> QED BY <2>1, <2>3, TypesOf, CostsType DEF Resend
  <1> HIDE DEF s, o
  <1> QED BY <1>1, <1>2, <1>3, <1>4, TypesOf, BringsInv DEF Resend

\* What comes from the hub is an acknowledgement or an event.
LEMMA DownsTyped ==
    ASSUME NEW m \in Acks \cup Events
    PROVE  /\ m.type \in {"ack", "event"} /\ m.id \in Nat
           /\ m.type = "event" => m \in Events /\ m.content \in Contents
           /\ m.type = "ack" => m \in Acks
  BY DEF Acks, Events

\* handleClipboard and handleAck
LEMMA HearInv ==
    ASSUME EngineInv, NEW w \in Writes, Hear(w)
    PROVE  EngineInv'
  <1> DEFINE m == Head(down)
             own == HearOwn(engine, board, m, w)
             unseen == board.count # engine.seen
             written == IF w = "done" /\ ~unseen /\ due.known THEN Due(m.content) ELSE Unknown
  <1>1. m \in Acks \cup Events /\ down' \in Downs
    <2>1. down # <<>> /\ down' = Tail(down) /\ down \in Seq(Acks \cup Events)
      BY TypesOf DEF Hear, Downs
    <2> QED BY <2>1, ElemsTail DEF Downs
  <1>2. \E s, d, o : Brings(s, d, o) /\ Keeps(s, acts, Sent) /\ d \in Dues /\ o \in Debts
    <2>0. Fit(engine, board, acts, Sent) /\ due \in Dues /\ owed \in Debts
          /\ Unknown \in Dues /\ {"no", "overwritten"} \subseteq Debts
      BY TypesOf DEF EngineInv, Dues, Debts
    <2>1. m.type = "event" => written \in Dues /\ m.content \in Contents
      BY <1>1, <2>0, DownsTyped DEF Dues, Due, Shown
    <2>2. CASE m.type = "ack"
      <3> DEFINE k == Acknowledge(engine, m.id)
      <3>1. Brings(Step(k, board, <<>>), due, owed)
        BY <2>2 DEF Hear
      <3>2. Keeps(Step(k, board, <<>>), acts, Sent)
        BY <2>0, AcknowledgeFits, StaysFits
      <3> QED BY <2>0, <3>1, <3>2
    <2>3. CASE m.type = "event" /\ m.own
      <3> DEFINE d == CASE ~Latest(m) -> due
                        [] Latest(m) /\ Accepts(TRUE) -> written
                        [] OTHER -> Unknown
                 o == IF own.board = board THEN owed ELSE "overwritten"
      <3>1. Brings(own, d, o)
        BY <2>3 DEF Hear
      <3>2. Keeps(own, acts, Sent)
        BY <2>0, <2>1, <2>3, HearOwnFits
      <3>3. d \in Dues /\ o \in Debts
        <4> HIDE DEF own, written
        <4> QED BY <2>0, <2>1, <2>3
      <3> QED BY <3>1, <3>2, <3>3
    <2>4. CASE m.type = "event" /\ ~m.own /\ Accepts(FALSE)
      <3>1. Brings(Write(engine, board, m.content, w), written,
                   IF w = "invalid" THEN owed ELSE "overwritten")
        BY <2>4 DEF Hear
      <3>2. Keeps(Write(engine, board, m.content, w), acts, Sent)
        BY <2>0, <2>1, <2>4, WriteFits
      <3> HIDE DEF written
      <3> QED BY <2>0, <2>1, <2>4, <3>1, <3>2
    <2>5. CASE m.type = "event" /\ ~m.own /\ ~Accepts(FALSE)
      <3>1. Brings(Step(engine, board, <<>>), due, owed)
        BY <2>5 DEF Hear
      <3>2. Keeps(Step(engine, board, <<>>), acts, Sent)
        BY <2>0, StaysFits
      <3> QED BY <2>0, <3>1, <3>2
    <2> QED BY <1>1, <2>2, <2>3, <2>4, <2>5, DownsTyped
  <1>3. mishaps' \in Nat
    BY TypesOf, CostsType DEF Hear
  <1>4. PICK s, d, o : Brings(s, d, o) /\ Keeps(s, acts, Sent) /\ d \in Dues /\ o \in Debts
    BY <1>2
  <1> QED BY <1>1, <1>3, <1>4, TypesOf, BringsInv DEF Hear

\* An act of the user does not disturb the engine by itself.
LEMMA MoreActsFit ==
    ASSUME NEW e, NEW b, NEW n \in Nat, NEW M, Fit(e, b, n, M)
    PROVE  Fit(e, b, n + 1, M)
  <1>1. \A i \in 1 .. n : i \in 1 .. n + 1
    OBVIOUS
  <1>2. b.act \in Nat
    BY DEF Fit, Boards
  <1> QED BY <1>1, <1>2 DEF Fit, Counted, InHand, Fresh, Numbered, Matched

\* writeHistory
LEMMA SelectInv ==
    ASSUME EngineInv, NEW c \in Contents, NEW w \in Writes, Select(c, w)
    PROVE  EngineInv'
  <1> DEFINE e == [engine EXCEPT !.submitted = 0]
             s == Write(e, board, c, w)
             d == IF w = "done" THEN Due(c) ELSE Unknown
             o == IF w = "invalid" THEN owed ELSE "overwritten"
  <1>1. Fit(e, board, acts + 1, Sent)
    <2>1. Fit(engine, board, acts + 1, Sent)
      BY TypesOf, MoreActsFit DEF EngineInv
    <2> QED BY <2>1, ForgetsFits
  <1>2. Keeps(s, acts + 1, Sent)
    <2> HIDE DEF e
    <2> QED BY <1>1, WriteFits
  <1>3. Brings(s, d, o)
    BY DEF Select
  <1>4. d \in Dues /\ o \in Debts
    BY TypesOf DEF Dues, Due, Shown, Debts
  <1>5. mishaps' \in Nat
    BY TypesOf, CostsType DEF Select
  <1> HIDE DEF s, d, o
  <1> QED BY <1>2, <1>3, <1>4, <1>5, TypesOf, BringsInv DEF Select

\* Nothing is sent, and the engine and the pasteboard stay as they are.
LEMMA IdleInv ==
    ASSUME EngineInv, engine' = engine, board' = board, acts' = acts,
           up' \in Seq(Messages), stored' \in SUBSET Messages, Sent' \subseteq Sent,
           settings' \in Settings, online' \in BOOLEAN, down' \in Downs,
           due' \in Dues, owed' \in Debts, peers' \in Nat, mishaps' \in Nat, drops' \in Nat
    PROVE  EngineInv'
  <1>1. Fit(engine, board, acts, Sent)
    BY DEF EngineInv
  <1>2. Fit(engine, board, acts, Sent')
    BY <1>1, FewerFit
  <1> QED BY <1>2 DEF EngineInv, TypeOK, Settings, Debts, Downs

\* Nothing is sent, nothing is stored.
LEMMA SentStays == up' = up /\ stored' = stored => Sent' = Sent
  BY DEF Sent

\* applySetting
LEMMA ChangeSettingsInv ==
    ASSUME EngineInv, NEW x \in Settings, ChangeSettings(x)
    PROVE  EngineInv'
  <1>1. due' \in Dues /\ owed' \in Debts
    BY TypesOf DEF ChangeSettings, Dues, Debts
  <1>2. mishaps' \in Nat
    BY TypesOf, CostsType DEF ChangeSettings
  <1>3. Sent' = Sent
    BY SentStays DEF ChangeSettings, hub
  <1> QED BY <1>1, <1>2, <1>3, TypesOf, IdleInv DEF ChangeSettings, hub

\* handleDevices
LEMMA ChangeDevicesInv ==
    ASSUME EngineInv, NEW x \in Sending, NEW a \in BOOLEAN, ChangeDevices(x, a)
    PROVE  EngineInv'
  <1> DEFINE tells == engine.pending # None /\ engine.pending.state # "sent"
             s == IF tells THEN TrySend(engine, board, x, a) ELSE Step(engine, board, <<>>)
             o == IF x = "nobody" \/ ~a THEN "no" ELSE owed
  <1>1. Keeps(s, acts, Sent)
    <2>1. Fit(engine, board, acts, Sent)
      BY DEF EngineInv
    <2> QED BY <2>1, TrySendFits, StaysFits
  <1>2. Brings(s, due, o)
    BY DEF ChangeDevices
  <1>3. o \in Debts
    BY TypesOf DEF Debts
  <1>4. settings' \in Settings
    BY TypesOf DEF ChangeDevices, Settings
  <1>5. mishaps' \in Nat
    <2>1. 1 + Refusal(TRUE, a) \in Nat
      BY DEF Refusal
    <2> QED BY <2>1, TypesOf, CostsType DEF ChangeDevices
  <1> HIDE DEF s, o
  <1> QED BY <1>1, <1>2, <1>3, <1>4, <1>5, TypesOf, BringsInv DEF ChangeDevices

\* stop and start
LEMMA RestartInv ==
    ASSUME EngineInv, NEW l \in BOOLEAN, NEW r \in BOOLEAN, Restart(l, r)
    PROVE  EngineInv'
  <1> DEFINE c == IF r /\ board.content \notin Large THEN board.content ELSE Nothing
  <1>1. /\ engine' \in Engines /\ engine'.pending = None /\ engine'.seen = board.count
        /\ engine'.ids = engine.ids /\ engine'.own \in {0, engine.own}
    <2>1. c \in Shown
      BY TypesOf DEF Boards, Shown
    <2> HIDE DEF c
    <2>2. engine' = [engine EXCEPT !.pending = None, !.submitted = 0, !.seen = board.count,
                                   !.observed = c, !.own = IF l THEN 0 ELSE engine.own]
      BY DEF Restart, c
    <2> QED BY <2>1, <2>2, TypesOf DEF Engines
  <1>2. Sent' \subseteq Sent /\ up' \in Seq(Messages) /\ down' \in Downs
    <2>1. up' = <<>> /\ down' = <<>> /\ stored' = stored
      BY DEF Restart
    <2> QED BY <2>1, ElemsEmpty DEF Sent, Downs
  <1>3. board' = board /\ acts' = acts
    BY DEF Restart
  <1>4. Fit(engine, board, acts, Sent')
    BY <1>2, FewerFit DEF EngineInv
  <1>5. Fit(engine', board', acts', Sent')
    BY <1>1, <1>3, <1>4, TypesOf DEF Fit, Counted, InHand, Fresh, Numbered, Matched
  <1>6. mishaps' \in Nat
    BY TypesOf, CostsType DEF Restart
  <1> QED BY <1>2, <1>5, <1>6, TypesOf DEF EngineInv, TypeOK, Restart, Settings, Debts, Downs

\* The user copies.
LEMMA CopyInv ==
    ASSUME EngineInv, NEW c \in Contents \cup {Nothing}, Copy(c)
    PROVE  EngineInv'
  <1>1. /\ board' \in Boards /\ board'.count = board.count + 1 /\ board'.act = acts + 1
        /\ acts' = acts + 1 /\ engine' = engine
    BY TypesOf DEF Copy, Boards, Shown
  <1>2. due' \in Dues /\ owed' \in Debts
    BY DEF Copy, Dues, Due, Shown, Debts
  <1>3. Sent' = Sent
    BY SentStays DEF Copy, hub
  <1>4. Fit(engine, board, acts + 1, Sent) /\ Fit(engine, board, acts, Sent)
    BY TypesOf, MoreActsFit DEF EngineInv
  <1>5. board'.count > engine.seen
    BY <1>1, <1>4, TypesOf DEF Fit, Counted
  <1>6. \A m \in Sent : m.act # board'.act
    <2>1. \A m \in Sent : m.act \in Nat /\ m.act \in 1 .. acts
      BY <1>4 DEF Fit, Numbered, Messages
    <2> QED BY <2>1, <1>1, TypesOf
  <1>7. Fit(engine', board', acts', Sent')
    <2>1. Counted(engine', board', acts') /\ Fresh(engine', board', Sent')
      BY <1>1, <1>3, <1>4, <1>5, <1>6, TypesOf DEF Fit, Counted, Fresh
    <2>2. InHand(engine', board', acts')
      BY <1>1, <1>4, <1>5, TypesOf DEF Fit, InHand
    <2> QED BY <1>1, <1>3, <1>4, <2>1, <2>2 DEF Fit
  <1> QED BY <1>2, <1>3, <1>7, TypesOf
      DEF EngineInv, TypeOK, Copy, hub, bounds, Settings, Debts, Downs

\* The user copies the same once more.
LEMMA RepeatInv ==
    ASSUME EngineInv, Repeat
    PROVE  EngineInv'
  <1>1. /\ board' \in Boards /\ board'.count = board.count + 1
        /\ board'.content = board.content /\ engine' = engine
        /\ \/ /\ acts' = acts /\ board'.act = board.act /\ board.act # 0
              /\ board.content = engine.observed
           \/ acts' = acts + 1 /\ board'.act = acts'
    <2>1. acts' \in Nat
      BY TypesOf DEF Repeat
    <2>2. board' = [board EXCEPT !.count = board.count + 1,
                                 !.act = IF acts' = acts THEN board.act ELSE acts']
      BY TypesOf DEF Repeat, Boards
    <2>3. /\ board' \in Boards /\ board'.count = board.count + 1
          /\ board'.content = board.content
          /\ board'.act = IF acts' = acts THEN board.act ELSE acts'
      BY <2>1, <2>2, TypesOf DEF Boards
    <2>4. \/ acts' = acts /\ board.act # 0 /\ board.content = engine.observed
          \/ acts' = acts + 1 /\ acts' # acts
      BY TypesOf DEF Repeat
    <2>5. engine' = engine
      BY DEF Repeat
    <2> QED BY <2>3, <2>4, <2>5
  <1>2. due' \in Dues /\ owed' \in Debts
    BY DEF Repeat, Dues, Debts
  <1>3. Sent' = Sent
    BY SentStays DEF Repeat, hub
  <1>4. Fit(engine, board, acts', Sent) /\ Fit(engine, board, acts, Sent) /\ acts' \in Nat
    BY <1>1, TypesOf, MoreActsFit DEF EngineInv
  <1>5. board'.count > engine.seen
    BY <1>1, <1>4, TypesOf DEF Fit, Counted
  <1>6. board'.content # engine.observed => \A m \in Sent : m.act # board'.act
    <2>1. \A m \in Sent : m.act \in Nat /\ m.act \in 1 .. acts
      BY <1>4 DEF Fit, Numbered, Messages
    <2> QED BY <2>1, <1>1, TypesOf
  <1>7. Fit(engine', board', acts', Sent')
    <2>1. Counted(engine', board', acts') /\ Fresh(engine', board', Sent')
      BY <1>1, <1>3, <1>4, <1>5, <1>6, TypesOf DEF Fit, Counted, Fresh
    <2>2. InHand(engine', board', acts')
      BY <1>1, <1>4, <1>5, TypesOf DEF Fit, InHand
    <2> QED BY <1>1, <1>3, <1>4, <2>1, <2>2 DEF Fit
  <1>8. mishaps' \in Nat
    BY TypesOf, CostsType DEF Repeat
  <1> QED BY <1>2, <1>3, <1>7, <1>8, TypesOf
      DEF EngineInv, TypeOK, Repeat, hub, Settings, Debts, Downs

\* The hub takes an event.
LEMMA StoreInv ==
    ASSUME EngineInv, Store
    PROVE  EngineInv'
  <1> DEFINE m == Head(up)
             again == \E k \in stored : k.id = m.id
             told == IF again THEN <<>> ELSE <<Event(m)>>
  <1>1. up # <<>> /\ up' = Tail(up) /\ down' = down \o told \o <<Ack(m.id)>>
        /\ stored' = (IF again THEN stored ELSE stored \cup {m})
    BY DEF Store
  <1>2. m \in Messages /\ Tail(up) \in Seq(Messages) /\ Elems(up) = {m} \cup Elems(Tail(up))
    BY <1>1, TypesOf, ElemsTail
  <1>3. Sent' \subseteq Sent /\ stored' \in SUBSET Messages
    BY <1>1, <1>2, TypesOf DEF Sent
  <1>4. down' \in Downs
    <2>1. Event(m) \in Acks \cup Events /\ Ack(m.id) \in Acks \cup Events
      BY <1>2 DEF Event, Ack, Acks, Events, Messages
    <2>2. told \in Downs /\ <<Ack(m.id)>> \in Downs
      BY <2>1, ElemsOne, ElemsEmpty DEF Downs
    <2> HIDE DEF m, told
    <2>3. down \o told \in Downs
      BY <2>2, TypesOf, ElemsConcat DEF Downs
    <2> QED BY <1>1, <2>2, <2>3, ElemsConcat DEF Downs
  <1> QED BY <1>1, <1>2, <1>3, <1>4, TypesOf, IdleInv DEF Store, ghosts, bounds

\* Another device copies.
LEMMA PeerCopiesInv ==
    ASSUME EngineInv, NEW c \in Contents, PeerCopies(c)
    PROVE  EngineInv'
  <1>1. down' \in Downs
    <2>1. [type |-> "event", own |-> FALSE, id |-> 0, content |-> c, act |-> 0]
            \in Acks \cup Events
      BY DEF Events
    <2> QED BY <2>1, TypesOf DEF PeerCopies, Downs
  <1>2. Sent' = Sent
    BY SentStays DEF PeerCopies
  <1> QED BY <1>1, <1>2, TypesOf, IdleInv DEF PeerCopies, ghosts

\* The connection is lost, and back.
LEMMA DisconnectInv == ASSUME EngineInv, Disconnect PROVE EngineInv'
  <1>1. up' = <<>> /\ down' = <<>> /\ stored' = stored
    BY DEF Disconnect
  <1>2. Sent' \subseteq Sent /\ up' \in Seq(Messages) /\ down' \in Downs
    BY <1>1, ElemsEmpty DEF Sent, Downs
  <1>3. mishaps' \in Nat
    BY TypesOf, CostsType DEF Disconnect
  <1>4. /\ engine' = engine /\ board' = board /\ acts' = acts /\ stored' = stored
        /\ settings' = settings /\ online' = FALSE /\ due' = due /\ owed' = owed
        /\ peers' = peers /\ drops' = drops + 1
    BY DEF Disconnect, ghosts
  <1>5. drops' \in Nat
    BY <1>4, TypesOf
  <1> QED BY <1>2, <1>3, <1>4, <1>5, TypesOf, IdleInv

LEMMA ReconnectInv ==
    ASSUME EngineInv, NEW a \in BOOLEAN, Reconnect(a)
    PROVE  EngineInv'
  <1> DEFINE s == TrySend(engine, board, settings.sending, a)
             o == IF a THEN owed ELSE "no"
  <1>1. Keeps(s, acts, Sent)
    BY TypesOf, TrySendFits DEF EngineInv
  <1>2. Brings(s, due, o)
    BY DEF Reconnect
  <1>3. o \in Debts
    BY TypesOf DEF Debts
  <1>4. mishaps' \in Nat
    BY TypesOf, CostsType DEF Reconnect, Refusal
  <1> HIDE DEF s, o
  <1> QED BY <1>1, <1>2, <1>3, <1>4, TypesOf, BringsInv DEF Reconnect

\* Nothing happens.
LEMMA StutterInv == ASSUME EngineInv, UNCHANGED vars PROVE EngineInv'
  <1>1. Sent' = Sent
    BY SentStays DEF vars, hub
  <1> QED BY <1>1, TypesOf, IdleInv DEF vars, hub, ghosts, bounds

\* Every step keeps the first invariant.
LEMMA EngineStep == EngineInv /\ [Next]_vars => EngineInv'
  <1> SUFFICES ASSUME EngineInv, [Next]_vars PROVE EngineInv'
    OBVIOUS
  <1>1. CASE Next
    BY <1>1, StoreInv, DisconnectInv, RepeatInv, ResendInv, ReconnectInv, ChangeDevicesInv,
       PollInv, RestartInv, HearInv, SelectInv, CopyInv, PeerCopiesInv, OvertakenInv,
       ChangeSettingsInv DEF Next, Settings
  <1>2. CASE UNCHANGED vars
    BY <1>2, StutterInv
  <1> QED BY <1>1, <1>2

(***************************************************************************)
(* What the methods of the engine come to.                                 *)
(***************************************************************************)

\* The engine q differs from e in the copy in hand and its id only.
Alike(q, e) == q \in Engines /\ q.seen = e.seen /\ q.own = e.own /\ q.observed = e.observed

\* The copy in hand keeps what it is of, and its id unless it is for other devices now.
SameCopy(p, r, x) ==
    /\ p \in Pendings /\ p.count = r.count /\ p.content = r.content /\ p.act = r.act
    /\ p.route = x /\ (r.route \in {"none", x} => p.id = r.id)

\* The message that a copy in hand becomes.
MessageOf(p) == [id |-> p.id, content |-> p.content, act |-> p.act, route |-> p.route]

\* trySendPending has nothing to send; lets go of the copy; leaves it to the next list of
\* devices; to the next connection; or sends it.
NoPending(s, e) == s.engine = e /\ s.sent = <<>>
Gone(s, e) ==
    /\ Alike(s.engine, e) /\ s.engine.pending = None /\ s.engine.submitted = e.submitted
    /\ s.sent = <<>>
Deferred(s, e) ==
    /\ Alike(s.engine, e) /\ s.engine.submitted = e.submitted /\ s.sent = <<>>
    /\ s.engine.pending = [e.pending EXCEPT !.state = "deferred"]
Refused(s, e, x) ==
    /\ Alike(s.engine, e) /\ s.engine.submitted = e.submitted /\ s.sent = <<>>
    /\ SameCopy(s.engine.pending, e.pending, x) /\ s.engine.pending.state = "unsent"
    /\ s.engine.pending.attempts <= e.pending.attempts
SentOff(s, e, x) ==
    /\ Alike(s.engine, e) /\ s.engine.submitted = s.engine.pending.id
    /\ SameCopy(s.engine.pending, e.pending, x) /\ s.engine.pending.state = "sent"
    /\ s.engine.pending.attempts <= e.pending.attempts + 1
    /\ s.sent = <<MessageOf(s.engine.pending)>>

\* The route does not change what the copy is of.
LEMMA RoutedAlike ==
    ASSUME NEW e \in Engines, e.pending \in Pendings, NEW x \in {"all", "some"}
    PROVE  LET q == Routed(e, x) IN
           /\ Alike(q, e) /\ q.submitted = e.submitted
           /\ SameCopy(q.pending, e.pending, x)
           /\ q.pending.attempts \in {0, e.pending.attempts}
  <1> DEFINE q == Routed(e, x)
  <1>2. CASE e.pending.route \in {"none", x}
    <2> DEFINE p == [e.pending EXCEPT !.route = x]
    <2>1. q = [e EXCEPT !.pending = p]
      BY <1>2 DEF Routed, Engines
    <2>2. /\ p \in Pendings /\ p.route = x /\ p.count = e.pending.count /\ p.id = e.pending.id
          /\ p.content = e.pending.content /\ p.act = e.pending.act
          /\ p.attempts = e.pending.attempts
      BY DEF Pendings
    <2> HIDE DEF p, q
    <2>3. /\ q \in Engines /\ q.pending = p
          /\ q.seen = e.seen /\ q.own = e.own /\ q.observed = e.observed
          /\ q.submitted = e.submitted
      BY <2>1, <2>2 DEF Engines
    <2> QED BY <2>2, <2>3 DEF Alike, SameCopy, q
  <1>3. CASE e.pending.route \notin {"none", x}
    <2> DEFINE p == [e.pending EXCEPT !.id = e.ids + 1, !.route = x, !.attempts = 0]
    <2>a. e.ids \in Nat /\ e.ids + 1 \in Nat \ {0}
      BY DEF Engines
    <2>1. q = [e EXCEPT !.pending = p, !.ids = e.ids + 1]
      BY <1>3 DEF Routed, Engines, Pendings
    <2>2. /\ p \in Pendings /\ p.route = x /\ p.count = e.pending.count
          /\ p.content = e.pending.content /\ p.act = e.pending.act /\ p.attempts = 0
      BY <2>a DEF Pendings
    <2> HIDE DEF p, q
    <2>3. /\ q \in Engines /\ q.pending = p
          /\ q.seen = e.seen /\ q.own = e.own /\ q.observed = e.observed
          /\ q.submitted = e.submitted
      BY <2>a, <2>1, <2>2 DEF Engines
    <2> QED BY <1>3, <2>2, <2>3 DEF Alike, SameCopy, q
  <1> QED BY <1>2, <1>3

\* What trySendPending can come to.
LEMMA TrySendCases ==
    ASSUME NEW e \in Engines, NEW b, NEW x \in Sending, NEW a \in BOOLEAN
    PROVE  LET s == TrySend(e, b, x, a) IN
           /\ s.board = b
           /\ \/ e.pending = None /\ NoPending(s, e)
              \/ /\ e.pending \in Pendings /\ Gone(s, e)
                 /\ \/ ~Current(e, b) \/ x \in {"paused", "nobody"}
                    \/ e.pending.attempts >= MaxAttempts
              \/ e.pending \in Pendings /\ Current(e, b) /\ x = "deferred" /\ Deferred(s, e)
              \/ /\ e.pending \in Pendings /\ Current(e, b) /\ x \in {"all", "some"}
                 /\ \/ ~a /\ Refused(s, e, x)
                    \/ a /\ SentOff(s, e, x)
  <1> DEFINE s == TrySend(e, b, x, a)
  <1>0. e.pending = None \/ (e.pending \in Pendings /\ e.pending # None)
    BY NoneIsNone DEF Engines
  <1>1. CASE e.pending = None
    BY <1>1 DEF TrySend, Step, NoPending
  <1>2. CASE e.pending \in Pendings /\ (~Current(e, b) \/ x \in {"paused", "nobody"})
    <2>1. s = Step(Dropped(e), b, <<>>)
      BY <1>2, NoneIsNone DEF TrySend
    <2> HIDE DEF s
    <2>2. Gone(s, e) /\ s.board = b
      BY <2>1, DroppedType DEF Gone, Alike, Step
    <2> QED BY <1>2, <2>2 DEF s
  <1>3. CASE e.pending \in Pendings /\ Current(e, b) /\ x = "deferred"
    <2> DEFINE p == [e.pending EXCEPT !.state = "deferred"]
               q == [e EXCEPT !.pending = p]
    <2>1. s = Step(q, b, <<>>)
      BY <1>3, NoneIsNone DEF TrySend, Engines
    <2>2. p \in Pendings
      BY <1>3 DEF Pendings
    <2>3. Alike(q, e) /\ q.submitted = e.submitted /\ q.pending = p
      <3> HIDE DEF p
      <3> QED BY <2>2 DEF Alike, Engines
    <2> HIDE DEF s, q
    <2>4. Deferred(s, e) /\ s.board = b
      BY <2>1, <2>3 DEF Deferred, Step
    <2> QED BY <1>3, <2>4 DEF s
  <1>4. CASE e.pending \in Pendings /\ Current(e, b) /\ x \in {"all", "some"}
    <2> DEFINE q == Routed(e, x)
    <2>1. /\ Alike(q, e) /\ q.submitted = e.submitted
          /\ SameCopy(q.pending, e.pending, x) /\ q.pending \in Pendings
          /\ q.pending.attempts \in {0, e.pending.attempts}
      BY <1>4, RoutedAlike DEF SameCopy
    <2>2. q \in Engines /\ q.pending.attempts \in Nat /\ e.pending.attempts \in Nat
          /\ q.pending.id \in Nat
      BY <1>4, <2>1 DEF Alike, Pendings
    <2>3. \/ Exhausted(q.pending) /\ s = Step(Dropped(q), b, <<>>)
          \/ ~Exhausted(q.pending) /\ ~a
             /\ s = Step([q EXCEPT !.pending.state = "unsent"], b, <<>>)
          \/ /\ ~Exhausted(q.pending) /\ a
             /\ s = Step([q EXCEPT !.pending.state = "sent", !.pending.attempts = @ + 1,
                                   !.submitted = q.pending.id], b, <<MessageOf(q.pending)>>)
      BY <1>4, NoneIsNone DEF TrySend, MessageOf
    <2> HIDE DEF q, s
    <2>4. CASE Exhausted(q.pending) /\ s = Step(Dropped(q), b, <<>>)
      <3>1. Gone(s, e) /\ s.board = b
        BY <2>1, <2>2, <2>4, DroppedType DEF Gone, Alike, Step
      <3>2. e.pending.attempts >= MaxAttempts
        BY <2>1, <2>2, <2>4, EngineAssumption DEF Exhausted
      <3> QED BY <1>4, <3>1, <3>2 DEF s
    <2>5. CASE ~a /\ s = Step([q EXCEPT !.pending.state = "unsent"], b, <<>>)
      <3> DEFINE p == [q.pending EXCEPT !.state = "unsent"]
                 r == [q EXCEPT !.pending = p]
      <3>1. s = Step(r, b, <<>>)
        BY <2>2, <2>5 DEF Engines
      <3>2. /\ p \in Pendings /\ p.count = q.pending.count /\ p.content = q.pending.content
            /\ p.act = q.pending.act /\ p.route = q.pending.route /\ p.id = q.pending.id
            /\ p.attempts = q.pending.attempts /\ p.state = "unsent"
        BY <2>1 DEF Pendings
      <3> HIDE DEF p
      <3>3. /\ r \in Engines /\ r.seen = q.seen /\ r.own = q.own /\ r.observed = q.observed
            /\ r.submitted = q.submitted /\ r.pending = p
        BY <2>2, <3>2 DEF Engines
      <3> HIDE DEF r
      <3>4. s.engine = r /\ s.board = b /\ s.sent = <<>>
        BY <3>1 DEF Step
      <3>5. Alike(r, e)
        BY <2>1, <3>3 DEF Alike
      <3>6. p.attempts <= e.pending.attempts
        BY <2>1, <2>2, <3>2
      <3>7. SameCopy(p, e.pending, x)
        BY <2>1, <3>2 DEF SameCopy
      <3>8. Refused(s, e, x)
        BY <2>1, <3>2, <3>3, <3>4, <3>5, <3>6, <3>7 DEF Refused
      <3> QED BY <1>4, <2>5, <3>4, <3>8 DEF s
    <2>6. CASE /\ a
               /\ s = Step([q EXCEPT !.pending.state = "sent", !.pending.attempts = @ + 1,
                                     !.submitted = q.pending.id], b, <<MessageOf(q.pending)>>)
      <3> DEFINE p == [q.pending EXCEPT !.state = "sent", !.attempts = q.pending.attempts + 1]
                 r == [q EXCEPT !.pending = p, !.submitted = q.pending.id]
      <3>1. s = Step(r, b, <<MessageOf(q.pending)>>)
        BY <2>1, <2>2, <2>6 DEF Engines, Pendings
      <3>d. q.pending.attempts + 1 \in Nat
        BY <2>2
      <3>2. /\ p \in Pendings /\ p.count = q.pending.count /\ p.content = q.pending.content
            /\ p.act = q.pending.act /\ p.route = q.pending.route /\ p.id = q.pending.id
            /\ p.attempts = q.pending.attempts + 1 /\ p.state = "sent"
        BY <2>1, <3>d DEF Pendings
      <3> HIDE DEF p
      <3>3. /\ r \in Engines /\ r.seen = q.seen /\ r.own = q.own /\ r.observed = q.observed
            /\ r.submitted = q.pending.id /\ r.pending = p
        BY <2>2, <3>2 DEF Engines
      <3> HIDE DEF r
      <3>4. s.engine = r /\ s.board = b /\ s.sent = <<MessageOf(q.pending)>>
        BY <3>1 DEF Step
      <3>5. Alike(r, e)
        BY <2>1, <3>3 DEF Alike
      <3>6. p.attempts <= e.pending.attempts + 1
        BY <2>1, <2>2, <3>2
      <3>7. MessageOf(q.pending) = MessageOf(p)
        BY <3>2 DEF MessageOf
      <3>8. SameCopy(p, e.pending, x)
        BY <2>1, <3>2 DEF SameCopy
      <3>9. SentOff(s, e, x)
        BY <2>1, <3>2, <3>3, <3>4, <3>5, <3>6, <3>7, <3>8 DEF SentOff
      <3> QED BY <1>4, <2>6, <3>4, <3>9 DEF s
    <2> QED BY <2>3, <2>4, <2>5, <2>6
  <1> QED BY <1>0, <1>1, <1>2, <1>3, <1>4 DEF Sending

\* The copy that a poll has found.
NewCopy(y, e, b, v) ==
    /\ y \in Engines /\ y.pending \in Pendings /\ y.submitted = 0
    /\ y.seen = b.count /\ y.own = e.own /\ y.observed = v.content
    /\ y.pending.count = b.count /\ y.pending.content = v.content /\ y.pending.act = v.act
    /\ y.pending.id = y.ids /\ y.ids = e.ids + 1 /\ y.pending.route = "none"
    /\ y.pending.attempts = 0

\* Nothing new to send.
NoCopy(s, e, b, v) ==
    /\ s.engine \in Engines /\ s.engine.pending = None /\ s.engine.submitted = 0
    /\ s.engine.seen = b.count /\ s.engine.own = e.own /\ s.board = v /\ s.sent = <<>>

\* A copy the engine would send.
Worth(e, v) == v.content \in Contents \ Large /\ v.content # e.observed

\* observeLocalChange finds nothing to send, or a copy that trySendPending sees to.
LEMMA ObserveCases ==
    ASSUME NEW e \in Engines, NEW b \in Boards, NEW v \in Boards,
           settings.sending \in Sending, NEW read \in BOOLEAN, NEW a \in BOOLEAN
    PROVE  LET s == Observe(Looked(e, b), v, b.count, read, a) IN
           \/ NoCopy(s, e, b, v) /\ (~read \/ ~Worth(e, v) \/ settings.sending = "paused")
           \/ /\ Worth(e, v)
              /\ \E y : NewCopy(y, e, b, v) /\ s = TrySend(y, v, settings.sending, a)
  <1> DEFINE l == Looked(e, b)
             z == [l EXCEPT !.submitted = 0, !.pending = None]
             c == v.content
             p == [kind |-> "local", count |-> b.count, content |-> c, act |-> v.act,
                   id |-> l.ids + 1, route |-> "none", state |-> "unsent", attempts |-> 0]
             y == [z EXCEPT !.observed = c, !.ids = l.ids + 1, !.pending = p]
             s == Observe(l, v, b.count, read, a)
  <1>1. b.count \in Nat /\ e.ids \in Nat /\ e.ids + 1 \in Nat \ {0} /\ c \in Shown /\ Nothing \in Shown
    BY DEF Boards, Engines, Shown
  <1>2. /\ l \in Engines /\ l.seen = b.count /\ l.own = e.own /\ l.ids = e.ids
        /\ l.observed = e.observed
    BY <1>1 DEF Looked, Engines
  <1>3. /\ z \in Engines /\ z.seen = b.count /\ z.own = e.own /\ z.ids = e.ids
        /\ z.observed = e.observed /\ z.pending = None /\ z.submitted = 0
    <2> HIDE DEF l
    <2> QED BY <1>2 DEF Engines
  <1>4. \/ /\ ~read \/ ~Worth(e, v) \/ settings.sending = "paused"
           /\ \/ \E o \in Shown : s = Step([z EXCEPT !.observed = o], v, <<>>)
              \/ s = Step(z, v, <<>>)
        \/ Worth(e, v) /\ s = TrySend(y, v, settings.sending, a)
    <2> HIDE DEF l
    <2>1. c = Nothing <=> c \notin Contents
      BY <1>1, EngineAssumption DEF Shown
    <2> QED BY <1>1, <1>2, <2>1 DEF Observe, Worth
  <1>5. ASSUME NEW o \in Shown, s = Step([z EXCEPT !.observed = o], v, <<>>)
        PROVE  NoCopy(s, e, b, v)
    <2> DEFINE q == [z EXCEPT !.observed = o]
    <2> HIDE DEF z, l
    <2>1. /\ q \in Engines /\ q.pending = None /\ q.seen = z.seen /\ q.own = z.own
          /\ q.submitted = 0
      BY <1>3 DEF Engines
    <2>2. s = Step(q, v, <<>>)
      BY <1>5
    <2> HIDE DEF q, s
    <2> QED BY <1>3, <2>1, <2>2 DEF Step, NoCopy
  <1>6. ASSUME s = Step(z, v, <<>>)
        PROVE  NoCopy(s, e, b, v)
    <2> HIDE DEF z, s
    <2> QED BY <1>3, <1>6 DEF Step, NoCopy
  <1>7. ASSUME Worth(e, v)
        PROVE  NewCopy(y, e, b, v)
    <2>1. c \in Contents /\ v.act \in Nat /\ c \in Shown
      BY <1>7 DEF Boards, Shown, Worth
    <2>3. /\ p \in Pendings /\ p.count = b.count /\ p.content = c /\ p.act = v.act
          /\ p.id = e.ids + 1 /\ p.route = "none" /\ p.attempts = 0
      <3> HIDE DEF l
      <3> QED BY <1>1, <1>2, <2>1 DEF Pendings
    <2>4. /\ y \in Engines /\ y.seen = b.count /\ y.own = e.own /\ y.ids = e.ids + 1
          /\ y.observed = c /\ y.pending = p /\ y.submitted = 0
      <3> HIDE DEF l, z, p
      <3> QED BY <1>1, <1>2, <1>3, <2>1, <2>3 DEF Engines
    <2> HIDE DEF y, p
    <2> QED BY <2>3, <2>4 DEF NewCopy
  <1> HIDE DEF y, z, s
  <1>8. \/ NoCopy(s, e, b, v) /\ (~read \/ ~Worth(e, v) \/ settings.sending = "paused")
        \/ Worth(e, v) /\ NewCopy(y, e, b, v) /\ s = TrySend(y, v, settings.sending, a)
    BY <1>4, <1>5, <1>6, <1>7
  <1> QED BY <1>8 DEF s

(***************************************************************************)
(* What comes from the hub.                                                *)
(***************************************************************************)

\* An event of this device.
Own(m) == m.type = "event" /\ m.own

\* What comes from the hub of this device's events has been stored, and comes once.
Streamed ==
    /\ \A i \in DOMAIN down : Own(down[i]) => \E m \in stored : down[i] = Event(m)
    /\ \A i \in DOMAIN down : down[i].type = "ack" => \E m \in stored : m.id = down[i].id
    /\ \A i, j \in DOMAIN down :
          (Own(down[i]) /\ Own(down[j]) /\ down[i].id = down[j].id) => i = j
    /\ ~online => up = <<>> /\ down = <<>>

\* What sends nothing.
LEMMA WriteSendsNothing ==
    \A e, b, c : \A w \in Writes : Write(e, b, c, w).sent = <<>>
  BY DEF Writes, Write, Step

LEMMA HearOwnSendsNothing ==
    ASSUME NEW e, NEW b, NEW m, NEW w \in Writes PROVE HearOwn(e, b, m, w).sent = <<>>
  BY WriteSendsNothing DEF HearOwn, Step

\* Without a connection nothing is sent.
LEMMA TrySendSends ==
    ASSUME NEW e \in Engines, NEW b, NEW x \in Sending, NEW a \in BOOLEAN
    PROVE  ~a => TrySend(e, b, x, a).sent = <<>>
  <1> DEFINE s == TrySend(e, b, x, a)
  <1>1. NoPending(s, e) \/ Gone(s, e) \/ Deferred(s, e) \/ Refused(s, e, x) \/ a
    BY TrySendCases
  <1> HIDE DEF s
  <1>2. s.sent = <<>> \/ a
    BY <1>1 DEF NoPending, Gone, Deferred, Refused
  <1> QED BY <1>2 DEF s

LEMMA ObserveSends ==
    ASSUME NEW e \in Engines, NEW b \in Boards, NEW v \in Boards,
           settings.sending \in Sending, NEW read \in BOOLEAN, NEW a \in BOOLEAN, ~a
    PROVE  Observe(Looked(e, b), v, b.count, read, a).sent = <<>>
  <1> DEFINE s == Observe(Looked(e, b), v, b.count, read, a)
  <1>1. \/ NoCopy(s, e, b, v)
        \/ \E y \in Engines : s = TrySend(y, v, settings.sending, a)
    BY ObserveCases DEF NewCopy
  <1> HIDE DEF s
  <1>2. s.sent = <<>>
    BY <1>1, TrySendSends DEF NoCopy
  <1> QED BY <1>2 DEF s

\* A step of the engine that sends nothing while there is no connection.
LEMMA BringsStreamed ==
    ASSUME EngineInv, Streamed, NEW s, NEW d, NEW o, Brings(s, d, o),
           down' = down, stored' = stored, online' \/ (online' = online /\ s.sent = <<>>)
    PROVE  Streamed'
  <1>1. up' = up \o s.sent
    BY DEF Brings
  <1>2. up = <<>> /\ s.sent = <<>> => up' = <<>>
    BY <1>1
  <1> QED BY <1>2, TypesOf DEF Streamed

\* The hub tells of an event when it stores it, and at no other time.
LEMMA StoreStreamed == ASSUME EngineInv, Streamed, Store PROVE Streamed'
  <1> DEFINE m == Head(up)
             again == \E k \in stored : k.id = m.id
             told == IF again THEN <<>> ELSE <<Event(m)>>
  <1>1. /\ up # <<>> /\ down' = (down \o told) \o <<Ack(m.id)>> /\ online' = online
        /\ stored' = (IF again THEN stored ELSE stored \cup {m})
    BY DEF Store
  <1>2. m \in Messages /\ online
    BY <1>1, TypesOf, ElemsTail DEF Streamed
  <1>3. Event(m) \in Acks \cup Events /\ Ack(m.id) \in Acks /\ ~Own(Ack(m.id))
    BY <1>2 DEF Event, Ack, Acks, Events, Messages, Own
  <1>4. \E k \in stored' : k.id = m.id
    BY <1>1
  <1>5. CASE again
    <2>0. down' = down \o <<Ack(m.id)>>
      <3>1. told = <<>> /\ down \in Seq(Acks \cup Events)
        BY <1>5, TypesOf DEF Downs
      <3> HIDE DEF told
      <3>2. down \o told = down
        BY <3>1
      <3> QED BY <1>1, <3>2
    <2> HIDE DEF m
    <2>1. /\ Len(down') = Len(down) + 1 /\ down'[Len(down) + 1] = Ack(m.id)
          /\ DOMAIN down = 1 .. Len(down) /\ DOMAIN down' = 1 .. Len(down')
          /\ Len(down) \in Nat
          /\ \A i \in 1 .. Len(down) : down'[i] = down[i]
      BY <2>0, <1>3, TypesOf DEF Downs
    <2>2. stored' = stored
      BY <1>1, <1>5
    <2>3. \A i \in DOMAIN down' : i \in DOMAIN down \/ down'[i] = Ack(m.id)
      BY <2>1
    <2>4. Ack(m.id).type = "ack" /\ Ack(m.id).id = m.id
      BY DEF Ack
    <2> QED BY <1>1, <1>2, <1>3, <1>4, <2>1, <2>2, <2>3, <2>4 DEF Streamed
  <1>6. CASE ~again
    <2>0. down' = (down \o <<Event(m)>>) \o <<Ack(m.id)>>
      BY <1>1, <1>6
    <2> HIDE DEF m
    <2>1. /\ Len(down') = Len(down) + 2
          /\ down'[Len(down) + 1] = Event(m) /\ down'[Len(down) + 2] = Ack(m.id)
          /\ DOMAIN down = 1 .. Len(down) /\ DOMAIN down' = 1 .. Len(down')
          /\ Len(down) \in Nat
          /\ \A i \in 1 .. Len(down) : down'[i] = down[i]
      <3>1. /\ down \in Seq(Acks \cup Events) /\ <<Event(m)>> \in Seq(Acks \cup Events)
            /\ <<Ack(m.id)>> \in Seq(Acks \cup Events)
            /\ Len(<<Event(m)>>) = 1 /\ Len(<<Ack(m.id)>>) = 1
            /\ <<Event(m)>>[1] = Event(m) /\ <<Ack(m.id)>>[1] = Ack(m.id)
        BY <1>3, TypesOf DEF Downs
      <3> DEFINE t == down \o <<Event(m)>>
      <3>2. /\ t \in Seq(Acks \cup Events) /\ Len(t) = Len(down) + 1
            /\ t[Len(down) + 1] = Event(m)
            /\ \A i \in 1 .. Len(down) : t[i] = down[i]
        BY <3>1
      <3> HIDE DEF t
      <3>3. /\ down' \in Seq(Acks \cup Events) /\ Len(down') = Len(t) + 1
            /\ down'[Len(t) + 1] = Ack(m.id)
            /\ \A i \in 1 .. Len(t) : down'[i] = t[i]
        BY <2>0, <3>1, <3>2 DEF t
      <3>4. Len(down) \in Nat
        BY <3>1
      <3> QED BY <3>1, <3>2, <3>3, <3>4
    <2>2. stored' = stored \cup {m} /\ \A k \in stored : k.id # m.id
      BY <1>1, <1>6 DEF m
    <2>3. \A i \in DOMAIN down' : \/ i \in DOMAIN down /\ down'[i] = down[i]
                                  \/ i = Len(down) + 1 /\ down'[i] = Event(m)
                                  \/ i = Len(down) + 2 /\ down'[i] = Ack(m.id)
      BY <2>1
    <2>4. /\ Ack(m.id).type = "ack" /\ Ack(m.id).id = m.id /\ Event(m).id = m.id
          /\ Event(m).type = "event"
      BY DEF Ack, Event
    <2>5. \A i \in DOMAIN down : Own(down[i]) => down[i].id # m.id
      BY <2>2 DEF Streamed, Event
    <2>6. \A i \in DOMAIN down' : Own(down'[i]) => \E k \in stored' : down'[i] = Event(k)
      BY <1>3, <2>2, <2>3 DEF Streamed
    <2>7. \A i \in DOMAIN down' : down'[i].type = "ack" => \E k \in stored' : k.id = down'[i].id
      BY <1>4, <2>2, <2>3, <2>4 DEF Streamed
    <2>8. \A i, j \in DOMAIN down' :
             (Own(down'[i]) /\ Own(down'[j]) /\ down'[i].id = down'[j].id) => i = j
      BY <1>3, <2>3, <2>4, <2>5 DEF Streamed
    <2> QED BY <1>1, <1>2, <2>6, <2>7, <2>8 DEF Streamed
  <1> QED BY <1>5, <1>6

\* What is heard is the first; the others move up.
LEMMA HeadHeard ==
    ASSUME EngineInv, down # <<>>
    PROVE  /\ Head(down) \in Acks \cup Events /\ Head(down) = down[1] /\ 1 \in DOMAIN down
           /\ \A i \in DOMAIN Tail(down) :
                 i + 1 \in DOMAIN down /\ i + 1 # 1 /\ Tail(down)[i] = down[i + 1]
                 /\ i \in Nat
           /\ \A i \in DOMAIN down : i = 1 \/ (i - 1 \in DOMAIN Tail(down) /\ (i - 1) + 1 = i)
  <1>1. down \in Seq(Acks \cup Events)
    BY TypesOf DEF Downs
  <1>2. /\ Len(down) \in Nat \ {0} /\ Head(down) = down[1] /\ DOMAIN down = 1 .. Len(down)
        /\ Len(Tail(down)) = Len(down) - 1 /\ Tail(down) \in Seq(Acks \cup Events)
        /\ \A i \in 1 .. Len(down) - 1 : Tail(down)[i] = down[i + 1]
    BY <1>1
  <1>3. DOMAIN Tail(down) = 1 .. Len(down) - 1
    BY <1>2
  <1> QED BY <1>1, <1>2, <1>3

\* What is left to hear.
LEMMA TailStreamed ==
    ASSUME EngineInv, Streamed, down # <<>>, down' = Tail(down), stored' = stored,
           online' = online
    PROVE  Streamed'
  <1>1. online'
    BY TypesOf DEF Streamed
  <1>2. \A i \in DOMAIN down' : i + 1 \in DOMAIN down /\ down'[i] = down[i + 1] /\ i \in Nat
    BY HeadHeard
  <1> QED BY <1>1, <1>2 DEF Streamed

\* A lost connection leaves nothing to hear.
LEMMA EmptyStreamed == ASSUME up' = <<>>, down' = <<>> PROVE Streamed'
  BY DEF Streamed

\* Events of other devices are not this one's.
LEMMA PeerStreamed ==
    ASSUME EngineInv, Streamed, NEW c \in Contents, PeerCopies(c) PROVE Streamed'
  <1> DEFINE m == [type |-> "event", own |-> FALSE, id |-> 0, content |-> c, act |-> 0]
  <1>1. m \in Events /\ ~Own(m) /\ m.type # "ack"
    BY DEF Events, Own
  <1>2. online' /\ stored' = stored /\ down' = Append(down, m)
    BY DEF PeerCopies
  <1> HIDE DEF m
  <1>3. \A i \in DOMAIN down' : (i \in DOMAIN down /\ down'[i] = down[i]) \/ down'[i] = m
    BY <1>1, <1>2, TypesOf DEF Downs
  <1> QED BY <1>1, <1>2, <1>3 DEF Streamed

\* Every step keeps the hub's stream so.
LEMMA StreamStep == EngineInv /\ Streamed /\ [Next]_vars => Streamed'
  <1> SUFFICES ASSUME EngineInv, Streamed, [Next]_vars PROVE Streamed'
    OBVIOUS
  <1>1. CASE Store
    BY <1>1, StoreStreamed
  <1>2. CASE Disconnect
    BY <1>2, EmptyStreamed DEF Disconnect
  <1>3. CASE Repeat \/ UNCHANGED vars
    BY <1>3 DEF Repeat, vars, hub, Streamed
  <1>4. ASSUME NEW a \in BOOLEAN, Resend(a) PROVE Streamed'
    <2>1. Brings(TrySend(engine, board, settings.sending, a), due,
                 IF a = online THEN owed ELSE "no")
          /\ down' = down /\ stored' = stored /\ online' = online /\ (a => online)
      BY <1>4 DEF Resend
    <2> QED BY <2>1, TypesOf, TrySendSends, BringsStreamed
  <1>5. ASSUME NEW a \in BOOLEAN, Reconnect(a) PROVE Streamed'
    <2>1. Brings(TrySend(engine, board, settings.sending, a), due, IF a THEN owed ELSE "no")
          /\ down' = down /\ stored' = stored /\ online' = TRUE
      BY <1>5 DEF Reconnect
    <2> QED BY <2>1, BringsStreamed
  <1>6. ASSUME NEW x \in Sending, NEW a \in BOOLEAN, ChangeDevices(x, a) PROVE Streamed'
    <2>1. \E s, o : Brings(s, due, o)
      BY <1>6 DEF ChangeDevices
    <2>2. down' = down /\ stored' = stored /\ online'
      BY <1>6 DEF ChangeDevices
    <2> QED BY <2>1, <2>2, BringsStreamed
  <1>7. ASSUME NEW r \in BOOLEAN, NEW a \in BOOLEAN, Poll(r, a) PROVE Streamed'
    <2> DEFINE e == Looked(engine, board)
               s == IF board.count = e.own THEN Step(e, board, <<>>)
                    ELSE Observe(e, board, board.count, r, a)
    <2>1. Brings(s, due, IF r /\ a = online THEN owed ELSE "no")
          /\ down' = down /\ stored' = stored /\ online' = online /\ (a => online)
      BY <1>7 DEF Poll
    <2>2. ~a => s.sent = <<>>
      BY TypesOf, ObserveSends DEF Step
    <2> HIDE DEF s
    <2> QED BY <2>1, <2>2, TypesOf, BringsStreamed
  <1>8. ASSUME NEW c \in Contents, PollOvertaken(c) PROVE Streamed'
    <2> DEFINE v == [count |-> board.count + 1, content |-> c, act |-> acts + 1]
               s == Observe(Looked(engine, board), v, board.count, TRUE, FALSE)
    <2>1. Brings(s, Due(c), IF Owes(c) THEN "overtaken" ELSE "no")
          /\ down' = down /\ stored' = stored /\ online' = online
      BY <1>8 DEF PollOvertaken
    <2>2. v \in Boards
      BY TypesOf DEF Boards, Shown
    <2>3. s.sent = <<>>
      <3> HIDE DEF v
      <3> QED BY <2>2, TypesOf, ObserveSends
    <2> HIDE DEF s
    <2> QED BY <2>1, <2>3, TypesOf, BringsStreamed
  <1>9. ASSUME NEW l \in BOOLEAN, NEW r \in BOOLEAN, Restart(l, r) PROVE Streamed'
    BY <1>9, EmptyStreamed DEF Restart
  <1>10. ASSUME NEW w \in Writes, Hear(w) PROVE Streamed'
    BY <1>10, TailStreamed DEF Hear
  <1>11. ASSUME NEW c \in Contents, NEW w \in Writes, Select(c, w) PROVE Streamed'
    <2> DEFINE s == Write([engine EXCEPT !.submitted = 0], board, c, w)
    <2>1. Brings(s, IF w = "done" THEN Due(c) ELSE Unknown,
                 IF w = "invalid" THEN owed ELSE "overwritten")
          /\ down' = down /\ stored' = stored /\ online' = online
      BY <1>11 DEF Select
    <2>2. s.sent = <<>>
      BY WriteSendsNothing
    <2> HIDE DEF s
    <2> QED BY <2>1, <2>2, BringsStreamed
  <1>12. ASSUME NEW c \in Contents \cup {Nothing}, Copy(c) PROVE Streamed'
    BY <1>12 DEF Copy, hub, Streamed
  <1>13. ASSUME NEW c \in Contents, PeerCopies(c) PROVE Streamed'
    BY <1>13, PeerStreamed
  <1>14. ASSUME NEW x \in Settings, ChangeSettings(x) PROVE Streamed'
    BY <1>14 DEF ChangeSettings, hub, Streamed
  <1> QED BY <1>1, <1>2, <1>3, <1>4, <1>5, <1>6, <1>7, <1>8, <1>9, <1>10, <1>11, <1>12, <1>13,
             <1>14 DEF Next, Settings

(***************************************************************************)
(* What is due, and what is on its way.                                    *)
(***************************************************************************)

\* Messages not stored yet, or whose event has not been heard.
Underway == {m \in Sent : m \notin stored \/ Event(m) \in Elems(down)}

\* The pasteboard shows what is read back from it; the copy in hand is not the engine's
\* own write; what was sent was copied.
Held(e, b, M) ==
    /\ ReadsAs[b.content] = b.content
    /\ e.pending # None => e.pending.count # e.own /\ e.pending.count > 0
    /\ M # {} => b.count > 0

\* The route r is that of the settings x, unless they allow none for now.
Stands(r, x) == r \in {"none", x} \/ (r = "some" /\ x \in {"nobody", "deferred"})

\* Act n is the user's last, c is due.
Known(e, b, n, M, U, c, x) ==
    /\ b.content = ReadsAs[c]
    /\ b.count # e.seen =>
         /\ b.act = n /\ \A m \in M : m.act # n
         /\ e.pending # None => e.pending.act # n
    /\ b.count = e.seen =>
         /\ \A m \in U : m.act = n =>
              /\ m.id = e.submitted
              /\ b.count = e.own => b.content = ReadsAs[e.observed]
              /\ b.count # e.own => b.content = ReadsAs[m.content]
         /\ \A m \in M : m.id = e.submitted => m.act = n
         /\ e.pending # None =>
              /\ e.pending.act = n /\ Stands(e.pending.route, x)
              /\ \A m \in M : m.act = n => m.id = e.pending.id

\* What a step of the engine comes to.
After(s, n, M, U, c, x) ==
    Known(s.engine, s.board, n, M \cup Elems(s.sent), U \cup Elems(s.sent), c, x)

\* The same, after a step of the engine.
HeldAfter(s, M) == Held(s.engine, s.board, M \cup Elems(s.sent))

\* The message of a copy that has a route.
LEMMA MessageTyped ==
    ASSUME NEW p \in Pendings, p.route \in {"all", "some"}
    PROVE  /\ MessageOf(p) \in Messages /\ Elems(<<MessageOf(p)>>) = {MessageOf(p)}
           /\ MessageOf(p).id = p.id /\ MessageOf(p).content = p.content
           /\ MessageOf(p).act = p.act /\ MessageOf(p).route = p.route
  <1>1. MessageOf(p) \in Messages
    BY DEF MessageOf, Pendings, Messages
  <1> QED BY <1>1, ElemsOne DEF MessageOf

\* TrySendCases, for a step that is what trySendPending does.
LEMMA TrySendMeans ==
    ASSUME NEW e \in Engines, NEW b, NEW x \in Sending, NEW a \in BOOLEAN,
           NEW s, s = TrySend(e, b, x, a)
    PROVE  /\ s.board = b
           /\ \/ NoPending(s, e) /\ e.pending = None
              \/ Gone(s, e)
              \/ e.pending \in Pendings /\ Current(e, b) /\ Deferred(s, e)
              \/ /\ e.pending \in Pendings /\ Current(e, b) /\ Refused(s, e, x)
                 /\ x \in {"all", "some"}
              \/ /\ e.pending \in Pendings /\ Current(e, b) /\ SentOff(s, e, x)
                 /\ x \in {"all", "some"}
  <1> DEFINE t == TrySend(e, b, x, a)
  <1>1. /\ t.board = b
        /\ \/ NoPending(t, e) /\ e.pending = None
           \/ Gone(t, e)
           \/ e.pending \in Pendings /\ Current(e, b) /\ Deferred(t, e)
           \/ /\ e.pending \in Pendings /\ Current(e, b) /\ Refused(t, e, x)
              /\ x \in {"all", "some"}
           \/ /\ e.pending \in Pendings /\ Current(e, b) /\ SentOff(t, e, x)
              /\ x \in {"all", "some"}
    BY TrySendCases
  <1>2. t = s
    OBVIOUS
  <1> HIDE DEF t
  <1> QED BY <1>1, <1>2

\* trySendPending keeps that.
LEMMA TrySendHeld ==
    ASSUME NEW e, NEW b, NEW n, NEW M, Fit(e, b, n, M), Held(e, b, M),
           NEW x \in Sending, NEW a \in BOOLEAN
    PROVE  HeldAfter(TrySend(e, b, x, a), M)
  <1> DEFINE s == TrySend(e, b, x, a)
  <1>0. e \in Engines /\ b \in Boards
    BY DEF Fit
  <1>1. /\ s.board = b
        /\ \/ e.pending = None /\ NoPending(s, e)
           \/ Gone(s, e)
           \/ e.pending \in Pendings /\ Current(e, b) /\ Deferred(s, e)
           \/ e.pending \in Pendings /\ Current(e, b) /\ Refused(s, e, x)
           \/ /\ e.pending \in Pendings /\ Current(e, b) /\ SentOff(s, e, x)
              /\ x \in {"all", "some"}
    BY <1>0, TrySendCases
  <1> HIDE DEF s
  <1>2. ASSUME NoPending(s, e)
        PROVE  HeldAfter(s, M)
    BY <1>1, <1>2, ElemsEmpty DEF NoPending, HeldAfter
  <1>3. ASSUME Gone(s, e)
        PROVE  HeldAfter(s, M)
    BY <1>1, <1>3, ElemsEmpty DEF Gone, Alike, HeldAfter, Held
  <1>4. ASSUME e.pending \in Pendings /\ Deferred(s, e)
        PROVE  HeldAfter(s, M)
    <2>1. s.engine.pending.count = e.pending.count /\ e.pending # None
      BY <1>4, NoneIsNone DEF Deferred, Pendings
    <2> QED BY <1>1, <1>4, <2>1, ElemsEmpty DEF Deferred, Alike, HeldAfter, Held
  <1>5. ASSUME e.pending \in Pendings /\ Refused(s, e, x)
        PROVE  HeldAfter(s, M)
    BY <1>1, <1>5, ElemsEmpty, NoneIsNone DEF Refused, SameCopy, Alike, HeldAfter, Held
  <1>6. ASSUME e.pending \in Pendings /\ SentOff(s, e, x) /\ Current(e, b)
        PROVE  HeldAfter(s, M)
    <2>1. e.pending # None /\ b.count > 0
      BY <1>6, NoneIsNone DEF Current, Held
    <2> QED BY <1>1, <1>6, <2>1 DEF SentOff, SameCopy, Alike, HeldAfter, Held
  <1> QED BY <1>1, <1>2, <1>3, <1>4, <1>5, <1>6 DEF s

\* trySendPending leaves what is due on the pasteboard, or its message on the way.
LEMMA TrySendKnown ==
    ASSUME NEW e, NEW b, NEW n, NEW M, Fit(e, b, n, M), Held(e, b, M), NEW U, U \subseteq M,
           NEW c, NEW x \in Sending, NEW a \in BOOLEAN, Known(e, b, n, M, U, c, x)
    PROVE  After(TrySend(e, b, x, a), n, M, U, c, x)
  <1> DEFINE s == TrySend(e, b, x, a)
  <1>0. e \in Engines /\ b \in Boards
    BY DEF Fit
  <1>1. /\ s.board = b
        /\ \/ e.pending = None /\ NoPending(s, e)
           \/ Gone(s, e)
           \/ e.pending \in Pendings /\ Current(e, b) /\ Deferred(s, e)
           \/ /\ e.pending \in Pendings /\ Current(e, b) /\ Refused(s, e, x)
              /\ x \in {"all", "some"}
           \/ /\ e.pending \in Pendings /\ Current(e, b) /\ SentOff(s, e, x)
              /\ x \in {"all", "some"}
    BY <1>0, TrySendCases
  <1> HIDE DEF s
  <1>2. ASSUME NoPending(s, e)
        PROVE  After(s, n, M, U, c, x)
    BY <1>1, <1>2, ElemsEmpty DEF NoPending, After
  <1>3. ASSUME Gone(s, e)
        PROVE  After(s, n, M, U, c, x)
    BY <1>1, <1>3, ElemsEmpty DEF Gone, Alike, After, Known
  <1>4. ASSUME e.pending \in Pendings /\ Deferred(s, e)
        PROVE  After(s, n, M, U, c, x)
    <2>1. /\ s.engine.pending.act = e.pending.act /\ s.engine.pending.id = e.pending.id
          /\ s.engine.pending.route = e.pending.route /\ e.pending # None
      BY <1>4, NoneIsNone DEF Deferred, Pendings
    <2> QED BY <1>1, <1>4, <2>1, ElemsEmpty DEF Deferred, Alike, After, Known
  <1>5. ASSUME e.pending \in Pendings, Current(e, b), x \in {"all", "some"}
        PROVE  /\ e.pending # None /\ b.count = e.seen /\ e.pending.act = n
               /\ e.pending.route \in {"none", x}
               /\ \A m \in M : m.act = n => m.id = e.pending.id
               /\ \A m \in M : m.id = e.pending.id => m.act = n
               /\ b.content = e.pending.content /\ b.count # e.own
    <2>1. e.pending # None
      BY <1>5, NoneIsNone
    <2> QED BY <1>5, <2>1 DEF Current, Fit, InHand, Matched, Held, Known, Stands
  <1>6. ASSUME e.pending \in Pendings /\ Current(e, b) /\ Refused(s, e, x) /\ x \in {"all", "some"}
        PROVE  After(s, n, M, U, c, x)
    <2>1. /\ s.engine.pending.act = e.pending.act /\ s.engine.pending.id = e.pending.id
          /\ s.engine.pending.route = x /\ s.engine.submitted = e.submitted /\ s.sent = <<>>
          /\ Alike(s.engine, e)
      BY <1>5, <1>6 DEF Refused, SameCopy
    <2>2. Stands(x, x)
      BY DEF Stands
    <2> QED BY <1>1, <1>5, <1>6, <2>1, <2>2, ElemsEmpty DEF Alike, After, Known
  <1>7. ASSUME e.pending \in Pendings /\ Current(e, b) /\ SentOff(s, e, x) /\ x \in {"all", "some"}
        PROVE  After(s, n, M, U, c, x)
    <2> DEFINE m == MessageOf(s.engine.pending)
    <2>1. /\ s.engine.pending.act = e.pending.act /\ s.engine.pending.id = e.pending.id
          /\ s.engine.pending.route = x /\ s.engine.submitted = e.pending.id /\ s.sent = <<m>>
          /\ s.engine.pending.content = e.pending.content /\ s.engine.pending \in Pendings
          /\ Alike(s.engine, e)
      BY <1>5, <1>7 DEF SentOff, SameCopy
    <2>2. Stands(x, x)
      BY DEF Stands
    <2>3. /\ Elems(s.sent) = {m} /\ m.id = e.pending.id /\ m.act = n
          /\ m.content = e.pending.content
      BY <1>5, <1>7, <2>1, MessageTyped
    <2> HIDE DEF m
    <2>4. b.content = ReadsAs[m.content]
      BY <1>5, <1>7, <2>3 DEF Held
    <2>5. \A k \in U \cup {m} : k.act = n => k.id = e.pending.id
      BY <1>5, <1>7, <2>3
    <2>6. \A k \in U : k.act = n => b.content = ReadsAs[k.content]
      BY <1>5, <1>7 DEF Known
    <2>7. \A k \in M \cup {m} : (k.id = e.pending.id => k.act = n)
                                /\ (k.act = n => k.id = e.pending.id)
      BY <1>5, <1>7, <2>3
    <2>8. /\ s.engine.seen = e.seen /\ s.engine.own = e.own /\ s.engine.observed = e.observed
          /\ b.content = ReadsAs[c]
      BY <2>1 DEF Alike, Known
    <2> QED BY <1>1, <1>5, <1>7, <2>1, <2>2, <2>3, <2>4, <2>5, <2>6, <2>7, <2>8
        DEF After, Known
  <1> QED BY <1>1, <1>2, <1>3, <1>4, <1>6, <1>7 DEF s

\* The settings x stand for y.
LEMMA OtherSettings ==
    ASSUME NEW e, NEW b, NEW n, NEW M, NEW U, NEW c, NEW x, NEW y, e \in Engines,
           Known(e, b, n, M, U, c, x),
           x = y \/ {x, y} \subseteq {"some", "nobody", "deferred"}
    PROVE  Known(e, b, n, M, U, c, y)
  <1>1. \A r \in {"none", "all", "some"} : Stands(r, x) => Stands(r, y)
    BY DEF Stands
  <1>2. e.pending # None => e.pending.route \in {"none", "all", "some"}
    BY DEF Engines, Pendings
  <1> QED BY <1>1, <1>2 DEF Known

\* Fewer messages leave no more to know.
LEMMA FewerKnown ==
    ASSUME NEW e, NEW b, NEW n, NEW M, NEW U, NEW c, NEW x, Known(e, b, n, M, U, c, x),
           NEW N, N \subseteq M, NEW V, V \subseteq U
    PROVE  Known(e, b, n, N, V, c, x)
  BY DEF Known

\* write, whether it is done, rejected or refused.
LEMMA WriteHeld ==
    ASSUME NEW e, NEW b, NEW n, NEW M, Fit(e, b, n, M), Held(e, b, M),
           NEW c \in Contents, NEW w \in Writes
    PROVE  HeldAfter(Write(e, b, c, w), M)
  <1> DEFINE s == Write(e, b, c, w)
  <1>1. e \in Engines /\ b \in Boards /\ b.count \in Nat
    BY DEF Fit, Boards
  <1>2. ReadsAs[ReadsAs[c]] = ReadsAs[c] /\ ReadsAs[Nothing] = Nothing
    BY EngineAssumption
  <1>3. s.sent = <<>>
    BY WriteSendsNothing
  <1>4. CASE w = "done"
    <2>1. /\ s.board.content = ReadsAs[c] /\ s.board.count = b.count + 1
          /\ s.engine.pending = None
      <3> DEFINE q == [Dropped(e) EXCEPT !.own = b.count + 1, !.seen = b.count + 1,
                                         !.observed = c]
                 v == [count |-> b.count + 1, content |-> ReadsAs[c], act |-> 0]
      <3>1. s = Step(q, v, <<>>)
        BY <1>4 DEF Write
      <3>2. q.pending = None
        BY <1>1, DroppedType DEF Engines
      <3>3. v.content = ReadsAs[c] /\ v.count = b.count + 1
        OBVIOUS
      <3> HIDE DEF q, v
      <3> QED BY <3>1, <3>2, <3>3 DEF Step
    <2> HIDE DEF s
    <2>2. HeldAfter(s, M)
      BY <1>1, <1>2, <1>3, <2>1, ElemsEmpty DEF HeldAfter, Held
    <2> QED BY <2>2 DEF s
  <1>5. CASE w = "rejected"
    <2>1. s.board.content = Nothing /\ s.board.count = b.count + 1 /\ s.engine = e
      BY <1>5 DEF Write, Step
    <2> HIDE DEF s
    <2>2. HeldAfter(s, M)
      BY <1>1, <1>2, <1>3, <2>1, ElemsEmpty DEF HeldAfter, Held
    <2> QED BY <2>2 DEF s
  <1>6. CASE w = "invalid"
    <2>1. s.board = b /\ s.engine = e
      BY <1>6 DEF Write, Step
    <2> HIDE DEF s
    <2>2. HeldAfter(s, M)
      BY <1>3, <2>1, ElemsEmpty DEF HeldAfter, Held
    <2> QED BY <2>2 DEF s
  <1> QED BY <1>4, <1>5, <1>6 DEF Writes

\* What has been written is due.
LEMMA WriteKnown ==
    ASSUME NEW e, NEW b, NEW n, NEW M, Fit(e, b, n, M), NEW U, NEW k, NEW x,
           NEW c \in Contents,
           \A m \in U : m.act = k => m.id = e.submitted,
           \A m \in M : m.id = e.submitted => m.act = k
    PROVE  After(Write(e, b, c, "done"), k, M, U, c, x)
  <1> DEFINE s == Write(e, b, c, "done")
  <1>1. e \in Engines /\ b \in Boards /\ b.count + 1 \in Nat
    BY DEF Fit, Boards
  <1>2. /\ s.board.content = ReadsAs[c] /\ s.board.count = b.count + 1
        /\ s.engine.seen = b.count + 1 /\ s.engine.own = b.count + 1
        /\ s.engine.observed = c /\ s.engine.submitted = e.submitted
        /\ s.engine.pending = None /\ s.sent = <<>>
    <2> DEFINE q == [Dropped(e) EXCEPT !.own = b.count + 1, !.seen = b.count + 1,
                                       !.observed = c]
               v == [count |-> b.count + 1, content |-> ReadsAs[c], act |-> 0]
    <2>1. s = Step(q, v, <<>>)
      BY DEF Write
    <2>2. /\ q.pending = None /\ q.seen = b.count + 1 /\ q.own = b.count + 1
          /\ q.observed = c /\ q.submitted = e.submitted
      BY <1>1, DroppedType DEF Engines
    <2>3. v.content = ReadsAs[c] /\ v.count = b.count + 1
      OBVIOUS
    <2> HIDE DEF q, v
    <2> QED BY <2>1, <2>2, <2>3 DEF Step
  <1> HIDE DEF s
  <1>3. After(s, k, M, U, c, x)
    BY <1>2, ElemsEmpty DEF After, Known
  <1> QED BY <1>3 DEF s

\* observeLocalChange
LEMMA ObserveHeld ==
    ASSUME NEW e, NEW b, NEW n, NEW M, Fit(e, b, n, M), Held(e, b, M), b.count # e.seen,
           settings.sending \in Sending, NEW read \in BOOLEAN, NEW a \in BOOLEAN,
           NEW v \in Boards, NEW k \in Nat,
           \/ v = b /\ k = n
           \/ v.count = b.count + 1 /\ k = n + 1 /\ v.act = k,
           b.count # e.own, ReadsAs[v.content] = v.content
    PROVE  HeldAfter(Observe(Looked(e, b), v, b.count, read, a), M)
  <1> DEFINE s == Observe(Looked(e, b), v, b.count, read, a)
  <1> DEFINE x == settings.sending
  <1>0. x \in Sending
    OBVIOUS
  <1>1. /\ e \in Engines /\ b \in Boards /\ b.count \in Nat /\ v.count \in Nat
        /\ e.seen \in Nat
    BY DEF Fit, Boards, Engines
  <1>2. b.count > 0 /\ v.count > 0
    BY <1>1 DEF Fit, Counted
  <1>3. \/ NoCopy(s, e, b, v)
        \/ \E y : NewCopy(y, e, b, v) /\ s = TrySend(y, v, x, a)
    BY <1>1, ObserveCases
  <1> HIDE DEF s
  <1>4. ASSUME NoCopy(s, e, b, v)
        PROVE  HeldAfter(s, M)
    BY <1>2, <1>4, ElemsEmpty DEF NoCopy, HeldAfter, Held
  <1>5. ASSUME NEW y, NewCopy(y, e, b, v), s = TrySend(y, v, x, a)
        PROVE  HeldAfter(s, M)
    <2>1. /\ s.board = v
          /\ \/ y.pending = None /\ NoPending(s, y)
             \/ Gone(s, y)
             \/ Deferred(s, y)
             \/ Refused(s, y, x)
             \/ SentOff(s, y, x)
      <3>1. y \in Engines
        BY <1>5 DEF NewCopy
      <3>2. s = TrySend(y, v, x, a)
        BY <1>5
      <3>3. /\ s.board = v
            /\ \/ NoPending(s, y) /\ y.pending = None
               \/ Gone(s, y)
               \/ y.pending \in Pendings /\ Current(y, v) /\ Deferred(s, y)
               \/ /\ y.pending \in Pendings /\ Current(y, v) /\ Refused(s, y, x)
                  /\ x \in {"all", "some"}
               \/ /\ y.pending \in Pendings /\ Current(y, v) /\ SentOff(s, y, x)
                  /\ x \in {"all", "some"}
        BY <1>0, <3>1, <3>2, TrySendMeans
      <3> QED BY <3>3
    <2>2. y.pending.count = b.count /\ y.own = e.own /\ y.pending \in Pendings /\ y.pending # None
      BY <1>5, NoneIsNone DEF NewCopy
    <2>3. s.engine.own = e.own
          /\ (s.engine.pending # None => s.engine.pending.count = b.count)
      <3>1. [y.pending EXCEPT !.state = "deferred"].count = y.pending.count
        BY <2>2 DEF Pendings
      <3> QED BY <2>1, <2>2, <3>1 DEF Gone, Deferred, Refused, SentOff, Alike, SameCopy
    <2> QED BY <1>2, <2>1, <2>3 DEF HeldAfter, Held
  <1> QED BY <1>3, <1>4, <1>5 DEF s

\* A poll that finds a copy, the last that is due.
LEMMA ObserveKnown ==
    ASSUME NEW e, NEW b, NEW n, NEW M, Fit(e, b, n, M), Held(e, b, M), b.count # e.seen,
           settings.sending \in Sending, NEW read \in BOOLEAN, NEW a \in BOOLEAN,
           NEW U, U \subseteq M, NEW c, Known(e, b, n, M, U, c, settings.sending)
    PROVE  After(Observe(Looked(e, b), b, b.count, read, a), n, M, U, c, settings.sending)
  <1> DEFINE s == Observe(Looked(e, b), b, b.count, read, a)
             x == settings.sending
  <1>1. /\ e \in Engines /\ b \in Boards /\ b.count \in Nat /\ b.count # e.own
        /\ b.act = n /\ b.content = ReadsAs[c]
        /\ \A m \in M : m.act # n /\ m.id \in Nat \ {0}
    <2>1. e \in Engines /\ b \in Boards /\ b.count \in Nat /\ e.seen \in Nat /\ e.own \in Nat
      BY DEF Fit, Boards, Engines
    <2>2. \A m \in M : m.id \in 1 .. e.ids /\ m.id \in Nat
      BY DEF Fit, Numbered, Messages
    <2> QED BY <2>1, <2>2 DEF Fit, Counted, Known
  <1>2. \/ NoCopy(s, e, b, b)
        \/ \E y : NewCopy(y, e, b, b) /\ s = TrySend(y, b, x, a)
    BY <1>1, ObserveCases
  <1> HIDE DEF s
  <1>3. ASSUME NoCopy(s, e, b, b)
        PROVE  After(s, n, M, U, c, x)
    BY <1>1, <1>3, ElemsEmpty DEF NoCopy, After, Known
  <1>4. ASSUME NEW y, NewCopy(y, e, b, b), s = TrySend(y, b, x, a)
        PROVE  After(s, n, M, U, c, x)
    <2>1. /\ s.board = b
          /\ \/ y.pending = None /\ NoPending(s, y)
             \/ Gone(s, y)
             \/ Deferred(s, y)
             \/ Refused(s, y, x) /\ x \in {"all", "some"}
             \/ SentOff(s, y, x) /\ x \in {"all", "some"}
      <3>1. y \in Engines
        BY <1>4 DEF NewCopy
      <3> QED BY <1>4, <3>1, TrySendMeans
    <2>2. /\ y.pending \in Pendings /\ y.pending # None /\ y.pending.act = n
          /\ y.pending.route = "none" /\ y.seen = b.count /\ y.own = e.own
          /\ y.submitted = 0 /\ y.pending.content = b.content /\ y.pending.id = e.ids + 1
      BY <1>1, <1>4, NoneIsNone DEF NewCopy
    <2>3. Stands("none", x) /\ Stands(x, x)
      BY DEF Stands
    <2>4. CASE Gone(s, y)
      BY <1>1, <2>1, <2>2, <2>4, ElemsEmpty DEF Gone, Alike, After, Known
    <2>5. CASE Deferred(s, y)
      <3>1. /\ s.engine.pending.act = n /\ s.engine.pending.route = "none"
        BY <2>2, <2>5 DEF Deferred, Pendings
      <3> QED BY <1>1, <2>1, <2>2, <2>3, <2>5, <3>1, ElemsEmpty DEF Deferred, Alike, After, Known
    <2>6. CASE Refused(s, y, x)
      BY <1>1, <2>1, <2>2, <2>3, <2>6, ElemsEmpty DEF Refused, SameCopy, Alike, After, Known
    <2>7. CASE SentOff(s, y, x) /\ x \in {"all", "some"}
      <3> DEFINE m == MessageOf(s.engine.pending)
      <3>1. /\ s.engine.pending.act = n /\ s.engine.pending.id = e.ids + 1
            /\ s.engine.pending.route = x /\ s.engine.submitted = e.ids + 1 /\ s.sent = <<m>>
            /\ s.engine.pending.content = b.content /\ s.engine.pending \in Pendings
            /\ s.engine.seen = b.count /\ s.engine.own = e.own
        BY <2>2, <2>7 DEF SentOff, SameCopy, Alike
      <3>2. Elems(s.sent) = {m} /\ m.id = e.ids + 1 /\ m.act = n /\ m.content = b.content
        BY <2>7, <3>1, MessageTyped
      <3> HIDE DEF m
      <3>3. \A k \in M : k.id # e.ids + 1
        <4>1. \A k \in M : k.id \in 1 .. e.ids
          BY DEF Fit, Numbered
        <4> QED BY <1>1, <4>1 DEF Engines
      <3>4. b.content = ReadsAs[m.content]
        BY <3>2 DEF Held
      <3> QED BY <1>1, <2>1, <2>3, <3>1, <3>2, <3>3, <3>4 DEF After, Known
    <2> QED BY <2>1, <2>2, <2>4, <2>5, <2>6, <2>7
  <1> QED BY <1>2, <1>3, <1>4 DEF s

(***************************************************************************)
(* Every step of the engine keeps what is due.                             *)
(***************************************************************************)

\* What is due is on the pasteboard, or on its way to it.
PlacedInv ==
    /\ Held(engine, board, Sent)
    /\ due.known => Known(engine, board, acts, Sent, Underway, due.content, settings.sending)

\* The second invariant.
ConvergeInv == EngineInv /\ Streamed /\ PlacedInv

\* Something is due, or it is not known what.
LEMMA DueMeans == \A c : Due(c).known /\ Due(c).content = c
  BY DEF Due

LEMMA UnknownMeans == ~Unknown.known
  BY DEF Unknown

\* A step of the engine that sends s.sent.
LEMMA BringsPlaced ==
    ASSUME EngineInv, NEW s, NEW n, NEW d, NEW o, NEW U, Keeps(s, n, Sent), HeldAfter(s, Sent),
           Brings(s, d, o), stored' = stored, acts' = n,
           Underway' \subseteq U \cup Elems(s.sent),
           d.known => After(s, n, Sent, U, d.content, settings'.sending)
    PROVE  PlacedInv'
  <1>1. up' = up \o s.sent /\ engine' = s.engine /\ board' = s.board /\ due' = d
    BY DEF Brings
  <1>2. up \in Seq(Messages) /\ s.sent \in Seq(Messages)
    BY TypesOf DEF Keeps
  <1>3. Elems(up') = Elems(up) \cup Elems(s.sent)
    BY <1>1, <1>2, ElemsConcat
  <1>4. Sent' = Sent \cup Elems(s.sent)
    BY <1>3 DEF Sent
  <1>5. ASSUME d.known
        PROVE  Known(engine', board', acts', Sent', Underway', due'.content, settings'.sending)
    BY <1>1, <1>4, <1>5, FewerKnown DEF After
  <1> QED BY <1>1, <1>4, <1>5 DEF PlacedInv, HeldAfter

\* Only what the step sends is new on the way.
LEMMA BringsUnderway ==
    ASSUME EngineInv, NEW s, NEW d, NEW o, s.sent \in Seq(Messages),
           Brings(s, d, o), stored' = stored, Elems(down') \subseteq Elems(down)
    PROVE  Underway' \subseteq Underway \cup Elems(s.sent)
  <1>1. up' = up \o s.sent
    BY DEF Brings
  <1>2. Elems(up') = Elems(up) \cup Elems(s.sent)
    BY <1>1, TypesOf, ElemsConcat
  <1>3. Sent' = Sent \cup Elems(s.sent)
    BY <1>2 DEF Sent
  <1> QED BY <1>3 DEF Underway

\* Neither the engine nor the pasteboard changes.
LEMMA IdlePlaced ==
    ASSUME PlacedInv, engine' = engine, board' = board, acts' = acts, Sent' \subseteq Sent,
           Underway' \subseteq Underway, due' = due, settings'.sending = settings.sending
    PROVE  PlacedInv'
  <1>1. Held(engine', board', Sent')
    BY DEF PlacedInv, Held
  <1>2. ASSUME due.known
        PROVE  Known(engine', board', acts', Sent', Underway', due'.content, settings'.sending)
    BY <1>2, FewerKnown DEF PlacedInv
  <1> QED BY <1>1, <1>2 DEF PlacedInv

\* What is on its way was sent.
LEMMA UnderwaySent == Underway \subseteq Sent
  BY DEF Underway

\* A step of the engine that changes nothing.
LEMMA StaysAfter ==
    ASSUME NEW e, NEW b, NEW n, NEW M, NEW U, NEW c, NEW x
    PROVE  /\ Held(e, b, M) => HeldAfter(Step(e, b, <<>>), M)
           /\ Known(e, b, n, M, U, c, x) => After(Step(e, b, <<>>), n, M, U, c, x)
  BY ElemsEmpty DEF Step, HeldAfter, After

\* poll
LEMMA PollPlaced ==
    ASSUME ConvergeInv, NEW a \in BOOLEAN, NEW r \in BOOLEAN, Poll(r, a)
    PROVE  PlacedInv'
  <1> DEFINE e == Looked(engine, board)
             t == Observe(e, board, board.count, r, a)
             s == IF board.count = e.own THEN Step(e, board, <<>>) ELSE t
             o == IF r /\ a = online THEN owed ELSE "no"
  <1>1. /\ Fit(engine, board, acts, Sent) /\ board.count # engine.seen /\ EngineInv
        /\ Held(engine, board, Sent)
    BY DEF ConvergeInv, EngineInv, Poll, PlacedInv
  <1>2. e.own = engine.own
    BY <1>1, TypesOf DEF Looked, Engines
  <1>3. board.count # e.own
    BY <1>1, <1>2, TypesOf DEF Fit, Counted
  <1>4. /\ Brings(s, due, o) /\ settings' = settings /\ down' = down /\ stored' = stored
        /\ acts' = acts
    BY DEF Poll
  <1>5. s = t
    BY <1>3
  <1>6. Keeps(t, acts, Sent)
    BY <1>1, TypesOf, ObserveFits
  <1>7. HeldAfter(t, Sent)
    BY <1>1, <1>2, <1>3, TypesOf, ObserveHeld DEF Held
  <1>8. due.known => After(t, acts, Sent, Underway, due.content, settings.sending)
    BY <1>1, TypesOf, ObserveKnown, UnderwaySent DEF ConvergeInv, PlacedInv
  <1> HIDE DEF s, t, o
  <1>9. Underway' \subseteq Underway \cup Elems(t.sent)
    BY <1>1, <1>4, <1>5, <1>6, BringsUnderway DEF Keeps
  <1> QED BY <1>1, <1>4, <1>5, <1>6, <1>7, <1>8, <1>9, BringsPlaced

\* A copy that another has replaced on the pasteboard is not sent.
LEMMA LateGone ==
    ASSUME NEW y \in Engines, y.pending \in Pendings, NEW v, ~Current(y, v),
           NEW x \in Sending, NEW a \in BOOLEAN
    PROVE  TrySend(y, v, x, a).board = v /\ Gone(TrySend(y, v, x, a), y)
  <1>1. y.pending # None
    BY NoneIsNone
  <1> QED BY <1>1, TrySendCases

\* poll, when a copy overtakes it: the engine lets go of the mixed one, and finds the new
\* one at the next poll.
LEMMA OvertakenPlaced ==
    ASSUME ConvergeInv, NEW c \in Contents, PollOvertaken(c)
    PROVE  PlacedInv'
  <1> DEFINE v == [count |-> board.count + 1, content |-> c, act |-> acts + 1]
             s == Observe(Looked(engine, board), v, board.count, TRUE, FALSE)
             o == IF Owes(c) THEN "overtaken" ELSE "no"
             x == settings.sending
  <1>1. /\ Fit(engine, board, acts, Sent) /\ board.count # engine.seen /\ EngineInv
        /\ Held(engine, board, Sent) /\ board.count # engine.own /\ ReadsAs[c] = c
    BY DEF ConvergeInv, EngineInv, PollOvertaken, PlacedInv, Copyable
  <1>2. v \in Boards /\ v.count = board.count + 1 /\ v.act = acts + 1 /\ v.content = c
    BY <1>1, TypesOf DEF Boards, Shown
  <1>3. /\ Brings(s, Due(c), o) /\ settings' = settings /\ down' = down /\ stored' = stored
        /\ acts' = acts + 1
    BY DEF PollOvertaken
  <1> HIDE DEF v
  <1>4. Keeps(s, acts + 1, Sent)
    BY <1>1, <1>2, TypesOf, ObserveFits
  <1>5. HeldAfter(s, Sent)
    BY <1>1, <1>2, TypesOf, ObserveHeld
  <1>6. /\ s.board = v /\ s.engine.pending = None /\ s.engine.seen = board.count
        /\ s.sent = <<>>
    <2>1. \/ NoCopy(s, engine, board, v)
          \/ \E y : NewCopy(y, engine, board, v) /\ s = TrySend(y, v, settings.sending, FALSE)
      BY <1>1, <1>2, TypesOf, ObserveCases
    <2>2. x \in Sending
      BY <1>1, TypesOf
    <2> HIDE DEF s
    <2>3. ASSUME NoCopy(s, engine, board, v)
          PROVE  /\ s.board = v /\ s.engine.pending = None /\ s.engine.seen = board.count
                 /\ s.sent = <<>>
      BY <2>3 DEF NoCopy
    <2>4. ASSUME NEW y, NewCopy(y, engine, board, v),
                 s = TrySend(y, v, settings.sending, FALSE)
          PROVE  /\ s.board = v /\ s.engine.pending = None /\ s.engine.seen = board.count
                 /\ s.sent = <<>>
      <3>1. y \in Engines /\ y.pending \in Pendings /\ ~Current(y, v) /\ y.seen = board.count
        BY <1>1, <1>2, <2>4, TypesOf DEF NewCopy, Current
      <3>2. s.board = v /\ Gone(s, y)
        BY <2>2, <2>4, <3>1, LateGone
      <3> QED BY <3>1, <3>2 DEF Gone, Alike
    <2> QED BY <2>1, <2>3, <2>4
  <1>7. \A m \in Sent : m.act # acts + 1
    <2>1. \A m \in Sent : m.act \in 1 .. acts /\ m.act \in Nat
      BY <1>1 DEF Fit, Numbered, Messages
    <2> QED BY <1>1, <2>1, TypesOf
  <1> HIDE DEF s, o
  <1>8. After(s, acts + 1, Sent, Underway, c, x)
    <2>1. v.count # s.engine.seen
      BY <1>1, <1>2, <1>6, TypesOf
    <2> QED BY <1>1, <1>2, <1>6, <1>7, <2>1, ElemsEmpty DEF After, Known
  <1>9. Underway' \subseteq Underway \cup Elems(s.sent)
    BY <1>1, <1>3, <1>4, BringsUnderway DEF Keeps
  <1> QED BY <1>1, <1>3, <1>4, <1>5, <1>8, <1>9, BringsPlaced, DueMeans

\* trySendPending, with the settings as they are.
LEMMA RetryPlaced ==
    ASSUME ConvergeInv, NEW a \in BOOLEAN, NEW o,
           Brings(TrySend(engine, board, settings.sending, a), due, o),
           settings' = settings, down' = down, stored' = stored, acts' = acts
    PROVE  PlacedInv'
  <1> DEFINE s == TrySend(engine, board, settings.sending, a)
  <1>1. /\ Fit(engine, board, acts, Sent) /\ EngineInv /\ Held(engine, board, Sent)
    BY DEF ConvergeInv, EngineInv, PlacedInv
  <1>2. Keeps(s, acts, Sent)
    BY <1>1, TypesOf, TrySendFits
  <1>3. HeldAfter(s, Sent)
    BY <1>1, TypesOf, TrySendHeld
  <1>4. due.known => After(s, acts, Sent, Underway, due.content, settings.sending)
    BY <1>1, TypesOf, TrySendKnown, UnderwaySent DEF ConvergeInv, PlacedInv
  <1> HIDE DEF s
  <1>5. Brings(s, due, o)
    BY DEF s
  <1>6. Underway' \subseteq Underway \cup Elems(s.sent)
    BY <1>1, <1>2, <1>5, BringsUnderway DEF Keeps
  <1> QED BY <1>1, <1>2, <1>3, <1>4, <1>5, <1>6, BringsPlaced

\* handleDevices: a change among the routes the rules allow leaves what is due.
LEMMA DevicesPlaced ==
    ASSUME ConvergeInv, NEW x \in Sending, NEW a \in BOOLEAN, ChangeDevices(x, a)
    PROVE  PlacedInv'
  <1> DEFINE tells == engine.pending # None /\ engine.pending.state # "sent"
             s == IF tells THEN TrySend(engine, board, x, a) ELSE Step(engine, board, <<>>)
             o == IF x = "nobody" \/ ~a THEN "no" ELSE owed
  <1>1. /\ Fit(engine, board, acts, Sent) /\ EngineInv /\ Held(engine, board, Sent)
    BY DEF ConvergeInv, EngineInv, PlacedInv
  <1>2. /\ Brings(s, due, o) /\ settings'.sending = x /\ down' = down /\ stored' = stored
        /\ acts' = acts
    <2>1. settings'.sending = x
      BY <1>1, TypesOf DEF ChangeDevices, Settings
    <2> QED BY <2>1 DEF ChangeDevices
  <1>3. due.known => Known(engine, board, acts, Sent, Underway, due.content, x)
    <2>1. settings.sending = x \/ {settings.sending, x} \subseteq {"some", "nobody", "deferred"}
      BY DEF ChangeDevices
    <2> QED BY <1>1, <2>1, TypesOf, OtherSettings DEF ConvergeInv, PlacedInv
  <1>4. Keeps(s, acts, Sent)
    BY <1>1, TrySendFits, StaysFits
  <1>5. HeldAfter(s, Sent)
    BY <1>1, TrySendHeld, StaysAfter
  <1>6. due.known => After(s, acts, Sent, Underway, due.content, x)
    BY <1>1, <1>3, TrySendKnown, StaysAfter, UnderwaySent
  <1> HIDE DEF s, o
  <1>7. Underway' \subseteq Underway \cup Elems(s.sent)
    BY <1>1, <1>2, <1>4, BringsUnderway DEF Keeps
  <1> QED BY <1>1, <1>2, <1>4, <1>5, <1>6, <1>7, BringsPlaced

\* writeHistory: what the user selects is due, and written.
LEMMA SelectPlaced ==
    ASSUME ConvergeInv, NEW c \in Contents, NEW w \in Writes, Select(c, w)
    PROVE  PlacedInv'
  <1> DEFINE e == [engine EXCEPT !.submitted = 0]
             s == Write(e, board, c, w)
             d == IF w = "done" THEN Due(c) ELSE Unknown
             o == IF w = "invalid" THEN owed ELSE "overwritten"
  <1>1. /\ Fit(engine, board, acts, Sent) /\ EngineInv /\ Held(engine, board, Sent)
    BY DEF ConvergeInv, EngineInv, PlacedInv
  <1>2. /\ Brings(s, d, o) /\ settings' = settings /\ down' = down /\ stored' = stored
        /\ acts' = acts + 1
    BY DEF Select
  <1>3. e.submitted = 0 /\ e.pending = engine.pending /\ e.own = engine.own
    BY <1>1, TypesOf DEF Engines
  <1>4. Fit(e, board, acts + 1, Sent)
    <2>1. Fit(engine, board, acts + 1, Sent)
      BY <1>1, TypesOf, MoreActsFit
    <2> QED BY <2>1, ForgetsFits
  <1> HIDE DEF e
  <1>5. Held(e, board, Sent)
    BY <1>1, <1>3 DEF Held
  <1>6. Keeps(s, acts + 1, Sent)
    BY <1>4, WriteFits
  <1>7. HeldAfter(s, Sent)
    BY <1>4, <1>5, WriteHeld
  <1>8. \A m \in Sent : m.act # acts + 1 /\ m.id # 0
    <2>1. \A m \in Sent : m.act \in 1 .. acts /\ m.act \in Nat /\ m.id \in 1 .. engine.ids
                          /\ m.id \in Nat
      BY <1>1 DEF Fit, Numbered, Messages
    <2> QED BY <1>1, <2>1, TypesOf DEF Engines
  <1>9. w = "done" => After(s, acts + 1, Sent, Underway, c, settings.sending)
    BY <1>3, <1>4, <1>8, WriteKnown, UnderwaySent
  <1>10. d.known => w = "done" /\ d.content = c
    BY DueMeans, UnknownMeans
  <1> HIDE DEF s, d, o
  <1>11. Underway' \subseteq Underway \cup Elems(s.sent)
    BY <1>1, <1>2, <1>6, BringsUnderway DEF Keeps
  <1> QED BY <1>1, <1>2, <1>6, <1>7, <1>9, <1>10, <1>11, BringsPlaced

\* handleAck
LEMMA AckPlaced ==
    ASSUME NEW e, NEW b, NEW n, NEW M, Fit(e, b, n, M), Held(e, b, M), NEW id
    PROVE  LET q == Acknowledge(e, id) IN
           /\ Held(q, b, M) /\ Alike(q, e) /\ q.submitted = e.submitted
           /\ q.pending = None \/ q.pending = e.pending
           /\ \A U, c, x : Known(e, b, n, M, U, c, x) => Known(q, b, n, M, U, c, x)
  <1> DEFINE q == Acknowledge(e, id)
  <1>1. e \in Engines
    BY DEF Fit
  <1>2. q = e \/ q = Dropped(e)
    BY DEF Acknowledge
  <1>3. /\ Alike(q, e) /\ q.submitted = e.submitted
        /\ q.pending = None \/ q.pending = e.pending
    BY <1>1, <1>2, DroppedType DEF Alike
  <1> HIDE DEF q
  <1>4. Held(q, b, M)
    BY <1>3 DEF Held, Alike
  <1>5. \A U, c, x : Known(e, b, n, M, U, c, x) => Known(q, b, n, M, U, c, x)
    BY <1>3 DEF Known, Alike
  <1> QED BY <1>3, <1>4, <1>5 DEF q

\* The engine once it has heard the own event m.
Heard(e, m) ==
    LET a == Acknowledge(e, m.id)
    IN  IF m.id = a.submitted THEN [a EXCEPT !.submitted = 0] ELSE a

\* The engine that has heard an own event.
LEMMA HeardFits ==
    ASSUME NEW e, NEW b, NEW n, NEW M, Fit(e, b, n, M), Held(e, b, M), NEW m
    PROVE  LET k == Heard(e, m) IN
           /\ Fit(k, b, n, M) /\ Held(k, b, M) /\ Alike(k, e)
           /\ k.pending = None \/ k.pending = e.pending
           /\ k.submitted = IF m.id = e.submitted THEN 0 ELSE e.submitted
           /\ m.id # e.submitted => k = Acknowledge(e, m.id)
  <1> DEFINE a == Acknowledge(e, m.id)
             k == Heard(e, m)
  <1>1. /\ Fit(a, b, n, M) /\ Held(a, b, M) /\ Alike(a, e) /\ a.submitted = e.submitted
        /\ a.pending = None \/ a.pending = e.pending
    BY AcknowledgeFits, AckPlaced
  <1>2. k = IF m.id = e.submitted THEN [a EXCEPT !.submitted = 0] ELSE a
    BY <1>1 DEF Heard
  <1> HIDE DEF a, k
  <1>3. CASE m.id # e.submitted
    BY <1>1, <1>2, <1>3 DEF k, a
  <1>4. CASE m.id = e.submitted
    <2>1. k = [a EXCEPT !.submitted = 0]
      BY <1>2, <1>4
    <2>2. /\ k.pending = a.pending /\ k.seen = a.seen /\ k.own = a.own
          /\ k.observed = a.observed /\ k.submitted = 0 /\ k \in Engines
      BY <1>1, <2>1 DEF Alike, Engines
    <2>3. Fit(k, b, n, M)
      BY <1>1, <2>1, ForgetsFits
    <2>4. Held(k, b, M) /\ Alike(k, e)
      BY <1>1, <2>2 DEF Held, Alike
    <2> QED BY <1>1, <1>4, <2>2, <2>3, <2>4 DEF k
  <1> QED BY <1>3, <1>4

\* applyRemote, for an event of this device, in these terms.
LEMMA HearOwnMeans ==
    ASSUME NEW e, NEW b, NEW m, NEW w
    PROVE  HearOwn(e, b, m, w) = IF EchoIsDue(Acknowledge(e, m.id), b, m)
                                 THEN Write(Heard(e, m), b, m.content, w)
                                 ELSE Step(Heard(e, m), b, <<>>)
  BY DEF HearOwn, Heard

\* applyRemote leaves the pasteboard readable.
LEMMA HearOwnHeld ==
    ASSUME NEW e, NEW b, NEW n, NEW M, Fit(e, b, n, M), Held(e, b, M),
           NEW m, m.content \in Contents, NEW w \in Writes
    PROVE  HeldAfter(HearOwn(e, b, m, w), M)
  <1> DEFINE k == Heard(e, m)
  <1>1. Fit(k, b, n, M) /\ Held(k, b, M)
    BY HeardFits
  <1>2. \/ HearOwn(e, b, m, w) = Write(k, b, m.content, w)
        \/ HearOwn(e, b, m, w) = Step(k, b, <<>>)
    BY HearOwnMeans
  <1> HIDE DEF k
  <1>3. HeldAfter(Write(k, b, m.content, w), M) /\ HeldAfter(Step(k, b, <<>>), M)
    BY <1>1, WriteHeld, StaysAfter
  <1> QED BY <1>2, <1>3

\* When it is no echo of the user's last act, what is due stays so.
LEMMA OldHeard ==
    ASSUME NEW e, NEW b, NEW n, NEW M, Fit(e, b, n, M), Held(e, b, M), NEW U, NEW c, NEW x,
           Known(e, b, n, M, U, c, x), NEW m, NEW w, \E k \in M : k.id = m.id /\ k.act # n
    PROVE  After(HearOwn(e, b, m, w), n, M, U, c, x)
  <1> DEFINE a == Acknowledge(e, m.id)
             k == Heard(e, m)
             s == HearOwn(e, b, m, w)
  <1>1. /\ Fit(k, b, n, M) /\ Held(k, b, M) /\ Alike(k, e)
        /\ k.pending = None \/ k.pending = e.pending
        /\ k.submitted = IF m.id = e.submitted THEN 0 ELSE e.submitted
        /\ m.id # e.submitted => k = a
    BY HeardFits
  <1>2. Known(a, b, n, M, U, c, x) /\ a.submitted = e.submitted /\ a.own = e.own
    BY AckPlaced DEF Alike
  <1>3. m.id = e.submitted => b.count # e.seen
    BY DEF Known
  <1>4. e.own <= e.seen /\ e.seen <= b.count /\ e.own \in Nat /\ e.seen \in Nat
        /\ b.count \in Nat
    BY DEF Fit, Counted, Engines, Boards
  <1>5. ~EchoIsDue(a, b, m)
    <2> HIDE DEF a
    <2> SUFFICES ASSUME EchoIsDue(a, b, m) PROVE FALSE
      OBVIOUS
    <2>1. m.id = a.submitted /\ b.count = a.own
      BY DEF EchoIsDue, HoldsLastWrite
    <2> QED BY <1>2, <1>3, <1>4, <2>1
  <1>6. s = Step(k, b, <<>>)
    BY <1>5, HearOwnMeans
  <1> HIDE DEF a, k, s
  <1>7. Known(k, b, n, M, U, c, x)
    <2>1. CASE m.id # e.submitted
      BY <1>1, <1>2, <2>1
    <2>2. CASE m.id = e.submitted
      <3>1. b.count # k.seen
        BY <1>1, <1>3, <2>2 DEF Alike
      <3> QED BY <1>1, <1>3, <2>2, <3>1 DEF Known, Alike
    <2> QED BY <2>1, <2>2
  <1>8. After(s, n, M, U, c, x)
    BY <1>6, <1>7, StaysAfter
  <1> QED BY <1>8 DEF s

\* The echo of the user's last act makes it due, or finds it on the pasteboard.
LEMMA LastHeard ==
    ASSUME NEW e, NEW b, NEW n, NEW M, Fit(e, b, n, M), Held(e, b, M), NEW U, NEW c, NEW x,
           Known(e, b, n, M, U, c, x), b.count = e.seen, Accepts(TRUE),
           NEW k \in U, U \subseteq M, k.act = n,
           NEW m, m.id = k.id, m.content = k.content
    PROVE  After(HearOwn(e, b, m, "done"), n, M, U \ {k}, m.content, x)
  <1> DEFINE a == Acknowledge(e, m.id)
             h == Heard(e, m)
             s == HearOwn(e, b, m, "done")
             V == U \ {k}
  <1>1. /\ Fit(h, b, n, M) /\ Alike(h, e)
        /\ h.pending = None \/ h.pending = e.pending
        /\ h.submitted = IF m.id = e.submitted THEN 0 ELSE e.submitted
    BY HeardFits
  <1>2. a.submitted = e.submitted /\ a.own = e.own /\ a.observed = e.observed
    BY AckPlaced DEF Alike
  <1>3. /\ m.id = e.submitted
        /\ b.count = e.own => b.content = ReadsAs[e.observed]
        /\ b.count # e.own => b.content = ReadsAs[m.content]
    BY DEF Known
  <1>4. /\ m.content \in Contents
        /\ \A j \in M : j.id \in Nat \ {0}
        /\ \A j \in M : j.id = k.id => j = k
    <2>1. k \in M /\ M \subseteq Messages
      BY DEF Fit
    <2>2. \A j \in M : j.id \in Nat /\ j.id \in 1 .. e.ids
      BY <2>1 DEF Fit, Numbered, Messages
    <2> QED BY <2>1, <2>2 DEF Fit, Numbered, Messages
  <1>5. \A j \in V : j.act # n
    BY <1>3, <1>4 DEF Known
  <1>6. h.submitted = 0 /\ \A j \in M : j.id # h.submitted
    BY <1>1, <1>3, <1>4
  <1>7. CASE EchoIsDue(a, b, m)
    <2>1. s = Write(h, b, m.content, "done")
      BY <1>7, HearOwnMeans
    <2> HIDE DEF h, s, a, V
    <2>2. After(Write(h, b, m.content, "done"), n, M, V, m.content, x)
      BY <1>1, <1>4, <1>5, <1>6, WriteKnown
    <2> QED BY <2>1, <2>2 DEF s, V
  <1>8. CASE ~EchoIsDue(a, b, m)
    <2>1. s = Step(h, b, <<>>)
      BY <1>8, HearOwnMeans
    <2>2. b.content = ReadsAs[m.content]
      <3>1. b.count > 0
        BY DEF Held
      <3>2. ~HoldsLastWrite(a, b) \/ a.observed = m.content
        <4> HIDE DEF a
        <4> QED BY <1>2, <1>3, <1>8 DEF EchoIsDue
      <3> HIDE DEF a
      <3> QED BY <1>2, <1>3, <3>1, <3>2 DEF HoldsLastWrite
    <2> HIDE DEF h, s, a, V
    <2>3. Known(h, b, n, M, V, m.content, x)
      <3>1. h.seen = e.seen /\ h.own = e.own
        BY <1>1 DEF Alike
      <3>2. e.pending # None =>
              /\ e.pending.act = n /\ Stands(e.pending.route, x)
              /\ \A j \in M : j.act = n => j.id = e.pending.id
        BY DEF Known
      <3> QED BY <1>1, <1>5, <1>6, <2>2, <3>1, <3>2 DEF Known
    <2> QED BY <2>1, <2>3, StaysAfter DEF s, V
  <1> QED BY <1>7, <1>8

\* handleClipboard and handleAck: an own event is written over a newer write only, and
\* another device's event is due once it is written.
LEMMA HearPlaced ==
    ASSUME ConvergeInv, NEW w \in Writes, Hear(w)
    PROVE  PlacedInv'
  <1> DEFINE m == Head(down)
             own == HearOwn(engine, board, m, w)
             unseen == board.count # engine.seen
             written == IF w = "done" /\ ~unseen /\ due.known THEN Due(m.content) ELSE Unknown
             x == settings.sending
  <1>1. /\ Fit(engine, board, acts, Sent) /\ EngineInv /\ Held(engine, board, Sent)
        /\ Streamed
        /\ due.known => Known(engine, board, acts, Sent, Underway, due.content, x)
    BY DEF ConvergeInv, EngineInv, PlacedInv
  <1>2. /\ down # <<>> /\ down' = Tail(down) /\ settings' = settings /\ stored' = stored
        /\ acts' = acts
    BY DEF Hear
  <1>3. m \in Acks \cup Events /\ Elems(down) = {m} \cup Elems(Tail(down)) /\ m = down[1]
        /\ 1 \in DOMAIN down
    BY <1>1, <1>2, TypesOf, ElemsTail, HeadHeard DEF Downs
  <1>4. written.known => w = "done" /\ ~unseen /\ due.known /\ written.content = m.content
    BY DueMeans, UnknownMeans
  <1>5. \A s, d, o : (Brings(s, d, o) /\ s.sent \in Seq(Messages)) =>
                       Underway' \subseteq Underway \cup Elems(s.sent)
    BY <1>1, <1>2, <1>3, BringsUnderway
  <1>6. CASE m.type = "ack"
    <2> DEFINE q == Acknowledge(engine, m.id)
               s == Step(q, board, <<>>)
    <2>1. Brings(s, due, owed)
      BY <1>6 DEF Hear
    <2>2. Keeps(s, acts, Sent)
      BY <1>1, AcknowledgeFits, StaysFits
    <2>3. HeldAfter(s, Sent)
      <3>1. Held(q, board, Sent)
        BY <1>1, AckPlaced
      <3> QED BY <3>1, StaysAfter
    <2>4. due.known => After(s, acts, Sent, Underway, due.content, x)
      <3>1. due.known => Known(q, board, acts, Sent, Underway, due.content, x)
        BY <1>1, AckPlaced
      <3> QED BY <3>1, StaysAfter
    <2> HIDE DEF s
    <2> QED BY <1>1, <1>2, <1>5, <2>1, <2>2, <2>3, <2>4, BringsPlaced DEF Keeps
  <1>7. CASE m.type = "event" /\ m.own
    <2> DEFINE d == CASE ~Latest(m) -> due
                      [] Latest(m) /\ Accepts(TRUE) -> written
                      [] OTHER -> Unknown
               o == IF own.board = board THEN owed ELSE "overwritten"
    <2>1. Brings(own, d, o)
      BY <1>7 DEF Hear
    <2>2. m.content \in Contents
      BY <1>3, <1>7, DownsTyped
    <2>3. Keeps(own, acts, Sent) /\ HeldAfter(own, Sent)
      BY <1>1, <2>2, HearOwnFits, HearOwnHeld
    <2>4. PICK k \in stored : m = Event(k)
      BY <1>1, <1>3, <1>7 DEF Streamed, Own
    <2>5. /\ k \in Sent /\ m.id = k.id /\ m.content = k.content /\ m.act = k.act
          /\ k \in Underway
      BY <1>3, <2>4 DEF Sent, Underway, Event
    <2>6. k \notin Underway'
      <3>1. \A i \in DOMAIN Tail(down) : Tail(down)[i] # m
        <4>1. \A i \in DOMAIN Tail(down) : i + 1 \in DOMAIN down /\ i + 1 # 1
                                           /\ Tail(down)[i] = down[i + 1]
          BY <1>1, <1>2, HeadHeard
        <4> QED BY <1>1, <1>3, <1>7, <4>1 DEF Streamed, Own
      <3>2. Event(k) \notin Elems(down')
        BY <1>2, <2>4, <3>1 DEF Elems
      <3> QED BY <1>2, <3>2 DEF Underway
    <2>7. CASE ~Latest(m)
      <3>1. d = due
        BY <2>7
      <3>2. \E j \in Sent : j.id = m.id /\ j.act # acts
        BY <2>5, <2>7 DEF Latest
      <3> HIDE DEF d, o, m
      <3>3. due.known => After(own, acts, Sent, Underway, due.content, x)
        BY <1>1, <3>2, OldHeard
      <3> HIDE DEF own
      <3> QED BY <1>1, <1>2, <1>5, <2>1, <2>3, <3>1, <3>3, BringsPlaced DEF Keeps
    <2>8. CASE Latest(m) /\ Accepts(TRUE)
      <3>1. d = written
        BY <2>8
      <3> DEFINE V == Underway \ {k}
      <3>2. Underway' \subseteq V \cup Elems(own.sent)
        <4>1. Underway' \subseteq Underway \cup Elems(own.sent)
          BY <1>5, <2>1, <2>3 DEF Keeps
        <4> QED BY <2>6, <4>1
      <3> HIDE DEF d, o, m
      <3>3. written.known => After(own, acts, Sent, V, written.content, x)
        <4> SUFFICES ASSUME written.known PROVE After(own, acts, Sent, V, m.content, x)
          BY <1>4
        <4>1. /\ w = "done" /\ board.count = engine.seen
              /\ Known(engine, board, acts, Sent, Underway, due.content, x)
          BY <1>1, <1>4
        <4>2. k.act = acts
          BY <2>5, <2>8 DEF Latest
        <4>3. After(HearOwn(engine, board, m, "done"), acts, Sent, V, m.content, x)
          BY <1>1, <2>5, <2>8, <4>1, <4>2, LastHeard, UnderwaySent
        <4> QED BY <4>1, <4>3
      <3> HIDE DEF own, written, V
      <3> QED BY <1>1, <1>2, <2>1, <2>3, <3>1, <3>2, <3>3, BringsPlaced
    <2>9. CASE Latest(m) /\ ~Accepts(TRUE)
      <3>1. d = Unknown /\ ~Unknown.known
        BY <2>9, UnknownMeans
      <3> HIDE DEF d, o, own
      <3> QED BY <1>1, <1>2, <1>5, <2>1, <2>3, <3>1, BringsPlaced DEF Keeps
    <2> QED BY <2>7, <2>8, <2>9
  <1>8. CASE m.type = "event" /\ ~m.own /\ Accepts(FALSE)
    <2> DEFINE s == Write(engine, board, m.content, w)
               o == IF w = "invalid" THEN owed ELSE "overwritten"
    <2>1. Brings(s, written, o)
      BY <1>8 DEF Hear
    <2>2. m.content \in Contents
      BY <1>3, <1>8, DownsTyped
    <2>3. Keeps(s, acts, Sent) /\ HeldAfter(s, Sent)
      BY <1>1, <2>2, WriteFits, WriteHeld
    <2>4. written.known => After(s, acts, Sent, Underway, written.content, x)
      <3> SUFFICES ASSUME written.known PROVE After(s, acts, Sent, Underway, m.content, x)
        BY <1>4
      <3>1. /\ w = "done" /\ board.count = engine.seen
            /\ Known(engine, board, acts, Sent, Underway, due.content, x)
        BY <1>1, <1>4
      <3>2. /\ \A j \in Underway : j.act = acts => j.id = engine.submitted
            /\ \A j \in Sent : j.id = engine.submitted => j.act = acts
        BY <3>1 DEF Known
      <3> HIDE DEF m
      <3> QED BY <1>1, <2>2, <3>1, <3>2, WriteKnown
    <2> HIDE DEF s, o, written
    <2> QED BY <1>1, <1>2, <1>5, <2>1, <2>3, <2>4, BringsPlaced DEF Keeps
  <1>9. CASE m.type = "event" /\ ~m.own /\ ~Accepts(FALSE)
    <2> DEFINE s == Step(engine, board, <<>>)
    <2>1. Brings(s, due, owed)
      BY <1>9 DEF Hear
    <2>2. Keeps(s, acts, Sent) /\ HeldAfter(s, Sent)
      BY <1>1, StaysFits, StaysAfter
    <2>3. due.known => After(s, acts, Sent, Underway, due.content, x)
      BY <1>1, StaysAfter
    <2> HIDE DEF s
    <2> QED BY <1>1, <1>2, <1>5, <2>1, <2>2, <2>3, BringsPlaced DEF Keeps
  <1> QED BY <1>3, <1>6, <1>7, <1>8, <1>9, DownsTyped

(***************************************************************************)
(* The hub, the user and the connection keep it too.                       *)
(***************************************************************************)

\* What the hub adds to its stream.
LEMMA DownsConcat ==
    \A s, t \in Downs : s \o t \in Downs /\ Elems(s \o t) = Elems(s) \cup Elems(t)
  <1> TAKE s, t \in Downs
  <1> DEFINE S == Acks \cup Events
  <1>1. s \in Seq(S) /\ t \in Seq(S)
    BY DEF Downs
  <1> HIDE DEF S
  <1>2. s \o t \in Seq(S) /\ Elems(s \o t) = Elems(s) \cup Elems(t)
    BY <1>1, ElemsConcat
  <1> QED BY <1>2 DEF Downs, S

\* What the hub takes is answered.
LEMMA StoreTells ==
    ASSUME EngineInv, Store
    PROVE  Elems(down') = Elems(down) \cup {Ack(Head(up).id)}
             \cup (IF \E k \in stored : k.id = Head(up).id THEN {} ELSE {Event(Head(up))})
  <1> DEFINE m == Head(up)
             again == \E k \in stored : k.id = m.id
             told == IF again THEN <<>> ELSE <<Event(m)>>
             t == down \o told
             k == <<Ack(m.id)>>
  <1>1. up # <<>> /\ down' = t \o k
    BY DEF Store
  <1>2. m \in Messages
    BY <1>1, TypesOf, ElemsTail
  <1>3. Event(m) \in Acks \cup Events /\ Ack(m.id) \in Acks \cup Events
    BY <1>2 DEF Event, Ack, Acks, Events, Messages
  <1>4. /\ told \in Downs /\ k \in Downs /\ down \in Downs
        /\ Elems(told) = (IF again THEN {} ELSE {Event(m)})
        /\ Elems(k) = {Ack(m.id)}
    BY <1>3, ElemsOne, ElemsEmpty, TypesOf DEF Downs
  <1> HIDE DEF told, m, k
  <1>5. t \in Downs /\ Elems(t) = Elems(down) \cup Elems(told)
    BY <1>4, DownsConcat
  <1> HIDE DEF t
  <1>6. Elems(down') = Elems(t) \cup Elems(k)
    BY <1>1, <1>4, <1>5, DownsConcat
  <1> QED BY <1>4, <1>5, <1>6 DEF m

\* A message is on its way until its event is heard.
LEMMA StorePlaced == ASSUME ConvergeInv, Store PROVE PlacedInv'
  <1> DEFINE m == Head(up)
             again == \E k \in stored : k.id = m.id
  <1>1. EngineInv /\ Fit(engine, board, acts, Sent)
    BY DEF ConvergeInv, EngineInv
  <1>2. /\ up # <<>> /\ up' = Tail(up)
        /\ stored' = IF again THEN stored ELSE stored \cup {m}
        /\ engine' = engine /\ board' = board /\ acts' = acts /\ due' = due
        /\ settings' = settings
    BY DEF Store, ghosts
  <1>3. m \in Messages /\ Elems(up) = {m} \cup Elems(Tail(up)) /\ m \in Sent
    BY <1>1, <1>2, TypesOf, ElemsTail DEF Sent
  <1>4. Elems(down') = Elems(down) \cup (IF again THEN {} ELSE {Event(m)}) \cup {Ack(m.id)}
    BY <1>1, StoreTells
  <1>5. \A k \in Messages : Event(k) # Ack(m.id)
    BY DEF Event, Ack
  <1>6. \A k \in Sent : k.id = m.id => k = m
    BY <1>1, <1>3 DEF Fit, Numbered
  <1>7. Sent' \subseteq Sent
    BY <1>2, <1>3 DEF Sent
  <1>8. ASSUME NEW k \in Underway' PROVE k \in Underway
    <2>1. k \in Sent /\ (k \notin stored' \/ Event(k) \in Elems(down')) /\ k \in Messages
      <3>1. Sent \subseteq Messages
        BY <1>1 DEF Fit
      <3> QED BY <1>7, <1>8, <3>1 DEF Underway
    <2>2. CASE k \notin stored
      BY <2>1, <2>2 DEF Underway
    <2>3. CASE k \in stored /\ Event(k) \in Elems(down)
      BY <2>1, <2>3 DEF Underway
    <2>4. CASE k \in stored /\ Event(k) \notin Elems(down)
      <3>1. k \in stored'
        BY <1>2, <2>4
      <3>2. ~again /\ Event(k) = Event(m)
        <4> HIDE DEF again, m
        <4> QED BY <1>4, <1>5, <2>1, <2>4, <3>1
      <3>3. k.id = m.id
        <4>1. Event(k).id = k.id /\ Event(m).id = m.id
          BY DEF Event
        <4> QED BY <3>2, <4>1
      <3> QED BY <2>4, <3>2, <3>3
    <2> QED BY <2>2, <2>3, <2>4
  <1> QED BY <1>2, <1>7, <1>8, IdlePlaced DEF ConvergeInv

\* What is on its way, when nothing is sent, stored or told.
LEMMA FewerUnderway ==
    (Sent' \subseteq Sent /\ stored' = stored /\ Elems(down') \subseteq Elems(down))
      => Underway' \subseteq Underway
  BY DEF Underway

LEMMA EmptyUnderway ==
    ASSUME up' = <<>>, down' = <<>>, stored' = stored
    PROVE  Sent' = stored /\ Sent' \subseteq Sent /\ Underway' = {}
  BY ElemsEmpty DEF Sent, Underway

\* Disconnect: what is lost was not due, or is still on the pasteboard.
LEMMA DisconnectPlaced == ASSUME ConvergeInv, Disconnect PROVE PlacedInv'
  BY EmptyUnderway, IdlePlaced DEF Disconnect, ghosts, ConvergeInv

\* PeerCopies: an event of another device is no message of this one.
LEMMA PeerPlaced == ASSUME ConvergeInv, NEW c \in Contents, PeerCopies(c) PROVE PlacedInv'
  <1> DEFINE p == [type |-> "event", own |-> FALSE, id |-> 0, content |-> c, act |-> 0]
  <1>1. EngineInv
    BY DEF ConvergeInv
  <1>2. p \in Acks \cup Events /\ \A m : Event(m) # p
    BY DEF Events, Event
  <1>3. /\ engine' = engine /\ board' = board /\ acts' = acts /\ due' = due /\ up' = up
        /\ settings' = settings /\ stored' = stored /\ down' = Append(down, p)
    BY DEF PeerCopies, ghosts
  <1> HIDE DEF p
  <1>4. Elems(down') = Elems(down) \cup {p}
    <2> DEFINE k == <<p>>
    <2>1. down \in Downs /\ down' = down \o k
      BY <1>1, <1>2, <1>3, TypesOf DEF Downs
    <2>2. k \in Downs /\ Elems(k) = {p}
      BY <1>2, ElemsOne DEF Downs
    <2> HIDE DEF k
    <2>3. Elems(down') = Elems(down) \cup Elems(k)
      BY <2>1, <2>2, DownsConcat
    <2> QED BY <2>2, <2>3
  <1>5. Sent' = Sent
    BY <1>3, SentStays
  <1>6. Underway' \subseteq Underway
    BY <1>2, <1>3, <1>4, <1>5 DEF Underway
  <1> QED BY <1>3, <1>5, <1>6, IdlePlaced DEF ConvergeInv

\* applySetting: a change of the route while a copy is in hand leaves nothing due.
LEMMA SettingsPlaced ==
    ASSUME ConvergeInv, NEW x \in Settings, ChangeSettings(x) PROVE PlacedInv'
  <1>1. /\ engine' = engine /\ board' = board /\ acts' = acts /\ up' = up /\ down' = down
        /\ stored' = stored /\ settings' = x
        /\ due' = IF x.sending = settings.sending \/ engine.pending = None THEN due ELSE Unknown
    BY DEF ChangeSettings, hub
  <1>2. Sent' = Sent /\ Underway' \subseteq Underway
    BY <1>1, SentStays, FewerUnderway
  <1>3. CASE x.sending = settings.sending
    BY <1>1, <1>2, <1>3, IdlePlaced DEF ConvergeInv
  <1>4. CASE x.sending # settings.sending /\ engine.pending = None
    <2>1. ASSUME due.known
          PROVE  Known(engine', board', acts', Sent', Underway', due'.content, x.sending)
      <3>1. Known(engine, board, acts, Sent, Underway, due.content, settings.sending)
        BY <2>1 DEF ConvergeInv, PlacedInv
      <3>2. Known(engine, board, acts, Sent, Underway, due.content, x.sending)
        BY <1>4, <3>1 DEF Known
      <3> QED BY <1>1, <1>2, <1>4, <3>2, FewerKnown
    <2>2. Held(engine', board', Sent')
      BY <1>1, <1>2 DEF ConvergeInv, PlacedInv
    <2> QED BY <1>1, <1>4, <2>1, <2>2 DEF PlacedInv
  <1>5. CASE x.sending # settings.sending /\ engine.pending # None
    <2>1. Held(engine', board', Sent')
      BY <1>1, <1>2 DEF ConvergeInv, PlacedInv
    <2>2. ~due'.known
      BY <1>1, <1>5, UnknownMeans
    <2> QED BY <2>1, <2>2 DEF PlacedInv
  <1> QED BY <1>3, <1>4, <1>5

\* stop and start: what the pasteboard shows is known from then on.
LEMMA RestartPlaced ==
    ASSUME ConvergeInv, NEW l \in BOOLEAN, NEW r \in BOOLEAN, Restart(l, r) PROVE PlacedInv'
  <1> DEFINE c == IF r /\ board.content \notin Large THEN board.content ELSE Nothing
  <1>1. EngineInv /\ Fit(engine, board, acts, Sent)
    BY DEF ConvergeInv, EngineInv
  <1>2. /\ board' = board /\ acts' = acts /\ up' = <<>> /\ down' = <<>> /\ stored' = stored
        /\ settings' = settings /\ due' = due
    BY DEF Restart
  <1>3. /\ engine'.pending = None /\ engine'.submitted = 0 /\ engine'.seen = board.count
    <2>1. engine' = [engine EXCEPT !.pending = None, !.submitted = 0, !.seen = board.count,
                                   !.observed = c, !.own = IF l THEN 0 ELSE engine.own]
      BY DEF Restart
    <2> HIDE DEF c
    <2> QED BY <1>1, <2>1, TypesOf DEF Engines
  <1>4. Sent' \subseteq Sent /\ Underway' = {}
    BY <1>2, EmptyUnderway
  <1>5. Held(engine', board', Sent')
    BY <1>2, <1>3, <1>4 DEF ConvergeInv, PlacedInv, Held
  <1>6. ASSUME due.known
        PROVE  Known(engine', board', acts', Sent', Underway', due'.content, settings'.sending)
    <2>1. Known(engine, board, acts, Sent, Underway, due.content, settings.sending)
      BY <1>6 DEF ConvergeInv, PlacedInv
    <2>2. \A m \in Sent : m.id # 0
      BY <1>1 DEF Fit, Numbered, Messages
    <2> QED BY <1>2, <1>3, <1>4, <2>1, <2>2 DEF Known
  <1> QED BY <1>2, <1>5, <1>6 DEF PlacedInv

\* The user's copy is due, no poll has seen it and no message is of it.
LEMMA CopyPlaced ==
    ASSUME ConvergeInv, NEW c \in Contents \cup {Nothing}, Copy(c) PROVE PlacedInv'
  <1>1. EngineInv /\ Fit(engine, board, acts, Sent) /\ Held(engine, board, Sent)
    BY DEF ConvergeInv, EngineInv, PlacedInv
  <1>2. /\ board'.count = board.count + 1 /\ board'.content = c /\ board'.act = acts + 1
        /\ acts' = acts + 1 /\ engine' = engine /\ due' = Due(c) /\ ReadsAs[c] = c
    BY DEF Copy, Copyable
  <1>3. Sent' = Sent
    BY SentStays DEF Copy, hub
  <1>4. board'.count # engine.seen
    BY <1>1, <1>2, TypesOf DEF Fit, Counted
  <1>5. \A m \in Sent : m.act # acts + 1
    <2>1. \A m \in Sent : m.act \in 1 .. acts /\ m.act \in Nat
      BY <1>1 DEF Fit, Numbered, Messages
    <2> QED BY <1>1, <2>1, TypesOf
  <1>6. engine.pending # None => engine.pending.act # acts + 1
    BY <1>1, TypesOf DEF Fit, InHand
  <1>7. Held(engine', board', Sent')
    BY <1>1, <1>2, <1>3, TypesOf DEF Held
  <1>8. Known(engine', board', acts', Sent', Underway', c, settings'.sending)
    BY <1>2, <1>3, <1>4, <1>5, <1>6 DEF Known
  <1> QED BY <1>2, <1>7, <1>8, DueMeans DEF PlacedInv

\* A repeated copy leaves nothing due.
LEMMA RepeatPlaced == ASSUME ConvergeInv, Repeat PROVE PlacedInv'
  <1>1. EngineInv /\ Held(engine, board, Sent)
    BY DEF ConvergeInv, PlacedInv
  <1>2. board'.count = board.count + 1 /\ board'.content = board.content
    <2>1. \E k : board' = [board EXCEPT !.count = board.count + 1, !.act = k]
      BY <1>1, TypesOf DEF Repeat, Boards
    <2> QED BY <1>1, <2>1, TypesOf DEF Boards
  <1>3. engine' = engine /\ due' = Unknown /\ Sent' = Sent
    BY SentStays DEF Repeat, hub
  <1>4. Held(engine', board', Sent')
    BY <1>1, <1>2, <1>3, TypesOf DEF Held
  <1> QED BY <1>3, <1>4, UnknownMeans DEF PlacedInv

\* Every step keeps the second invariant.
LEMMA PlacedStep == ConvergeInv /\ [Next]_vars => PlacedInv'
  <1> SUFFICES ASSUME ConvergeInv, [Next]_vars PROVE PlacedInv'
    OBVIOUS
  <1>1. ASSUME NEW a \in BOOLEAN, Resend(a) \/ Reconnect(a) PROVE PlacedInv'
    <2>1. \E o : Brings(TrySend(engine, board, settings.sending, a), due, o)
      BY <1>1 DEF Resend, Reconnect
    <2>2. settings' = settings /\ down' = down /\ stored' = stored /\ acts' = acts
      BY <1>1 DEF Resend, Reconnect
    <2> QED BY <2>1, <2>2, RetryPlaced
  <1>2. CASE UNCHANGED vars
    <2>1. Sent' = Sent /\ Underway' \subseteq Underway
      BY <1>2, SentStays, FewerUnderway DEF vars, hub
    <2> QED BY <1>2, <2>1, IdlePlaced DEF vars, ghosts, ConvergeInv
  <1> QED BY <1>1, <1>2, StorePlaced, DisconnectPlaced, RepeatPlaced, DevicesPlaced, PollPlaced,
             RestartPlaced, HearPlaced, SelectPlaced, CopyPlaced, PeerPlaced, OvertakenPlaced,
             SettingsPlaced DEF Next, Settings

\* At the start nothing is due and nothing was sent.
LEMMA ConvergeInit == Init => Streamed /\ PlacedInv
  <1> SUFFICES ASSUME Init PROVE Streamed /\ PlacedInv
    OBVIOUS
  <1>1. up = <<>> /\ down = <<>> /\ stored = {} /\ Sent = {} /\ Underway = {}
    BY ElemsEmpty DEF Init, Sent, Underway
  <1>2. Streamed
    BY <1>1 DEF Streamed
  <1>3. /\ engine = New /\ New.pending = None /\ New.seen = 0
        /\ board.count = 0 /\ board.content = Nothing /\ due = Due(Nothing)
    BY DEF Init, New
  <1>4. PlacedInv
    BY <1>1, <1>3, DueMeans, EngineAssumption DEF PlacedInv, Held, Known
  <1> QED BY <1>2, <1>4

(***************************************************************************)
(* What is owed: the engine's steps.                                       *)
(***************************************************************************)

\* Messages and answers that are underway, by their ids.
Answering(s, t) ==
    {m.id : m \in Elems(s)}
      \cup {m.id : m \in {n \in Elems(t) : n.type = "ack" \/ Own(n)}}

\* The copy waits: for an answer, or what cost it was a mishap; for a connection; or for
\* the list of devices.
Waits(e, b, k, x, on, H) ==
    /\ e.pending \in Pendings /\ e.pending.count = b.count /\ e.pending.act = b.act
    /\ \/ /\ e.pending.state = "sent"
          /\ \/ e.pending.attempts <= k
             \/ e.pending.attempts <= k + 1 /\ e.pending.id \in H
       \/ /\ e.pending.attempts <= k
          /\ \/ e.pending.state = "unsent" /\ ~on
             \/ e.pending.state = "deferred" /\ x = "deferred"

\* What is owed: no poll has seen it and the next will send it, or it has arrived, or it
\* was tried too often, or it waits.
Pursued(e, b, k, x, on, H, arrived) ==
    /\ x \in {"all", "some", "deferred"}
    /\ b.count # e.seen => Worth(e, b)
    /\ b.count = e.seen => arrived \/ k >= MaxAttempts \/ Waits(e, b, k, x, on, H)

\* The third invariant.
DeliverInv ==
    owed = "yes" =>
      Pursued(engine, board, drops, settings.sending, online, Answering(up, down), Arrived)

\* trySendPending changes the copy in hand and its id only.
LEMMA TrySendAlike ==
    ASSUME NEW e \in Engines, NEW b, NEW x \in Sending, NEW a \in BOOLEAN
    PROVE  LET s == TrySend(e, b, x, a) IN s.board = b /\ Alike(s.engine, e)
  <1> DEFINE s == TrySend(e, b, x, a)
  <1>1. /\ s.board = b
        /\ NoPending(s, e) \/ Gone(s, e) \/ Deferred(s, e) \/ Refused(s, e, x) \/ SentOff(s, e, x)
    BY TrySendCases
  <1> HIDE DEF s
  <1>2. Alike(s.engine, e)
    BY <1>1 DEF NoPending, Gone, Deferred, Refused, SentOff, Alike
  <1> QED BY <1>1, <1>2 DEF s

\* A copy that is tried again waits on, or was tried MaxAttempts times.
LEMMA TrySendWaits ==
    ASSUME NEW e \in Engines, e.pending \in Pendings, NEW b, e.pending.count = b.count,
           e.pending.act = b.act, NEW k \in Nat, e.pending.attempts <= k,
           NEW x \in {"all", "some", "deferred"}, NEW on \in BOOLEAN, NEW H,
           \A m \in Elems(TrySend(e, b, x, on).sent) : m.id \in H
    PROVE  k >= MaxAttempts \/ Waits(TrySend(e, b, x, on).engine, b, k, x, on, H)
  <1> DEFINE s == TrySend(e, b, x, on)
  <1>1. \/ e.pending.attempts >= MaxAttempts
        \/ x = "deferred" /\ Deferred(s, e)
        \/ x \in {"all", "some"} /\ ~on /\ Refused(s, e, x)
        \/ x \in {"all", "some"} /\ on /\ SentOff(s, e, x)
    <2>1. x \in Sending /\ Current(e, b) /\ x \notin {"paused", "nobody"} /\ e.pending # None
      BY NoneIsNone DEF Sending, Current
    <2> QED BY <2>1, TrySendCases
  <1>2. e.pending.attempts \in Nat
    BY DEF Pendings
  <1>3. \A m \in Elems(s.sent) : m.id \in H
    OBVIOUS
  <1> HIDE DEF s
  <1>4. ASSUME e.pending.attempts >= MaxAttempts PROVE k >= MaxAttempts
    BY <1>2, <1>4, EngineAssumption
  <1>5. ASSUME x = "deferred", Deferred(s, e) PROVE Waits(s.engine, b, k, x, on, H)
    <2> DEFINE p == [e.pending EXCEPT !.state = "deferred"]
    <2>1. /\ p \in Pendings /\ p.count = e.pending.count /\ p.act = e.pending.act
          /\ p.attempts = e.pending.attempts /\ p.state = "deferred"
      BY DEF Pendings
    <2>2. s.engine.pending = p
      BY <1>5 DEF Deferred
    <2> HIDE DEF p
    <2> QED BY <1>5, <2>1, <2>2 DEF Waits
  <1>6. ASSUME ~on, Refused(s, e, x) PROVE Waits(s.engine, b, k, x, on, H)
    <2>1. s.engine.pending.attempts \in Nat
      BY <1>6 DEF Refused, SameCopy, Pendings
    <2> QED BY <1>2, <1>6, <2>1 DEF Refused, SameCopy, Waits
  <1>7. ASSUME x \in {"all", "some"}, SentOff(s, e, x) PROVE Waits(s.engine, b, k, x, on, H)
    <2>1. /\ s.engine.pending \in Pendings /\ s.engine.pending.route \in {"all", "some"}
          /\ s.engine.pending.attempts \in Nat
      BY <1>7 DEF SentOff, SameCopy, Pendings
    <2>2. s.engine.pending.id \in H
      BY <1>3, <1>7, <2>1, MessageTyped DEF SentOff
    <2> QED BY <1>2, <1>7, <2>1, <2>2 DEF SentOff, SameCopy, Waits
  <1>8. k >= MaxAttempts \/ Waits(s.engine, b, k, x, on, H)
    BY <1>1, <1>4, <1>5, <1>6, <1>7
  <1> QED BY <1>8 DEF s

\* What a step sends will be answered.
LEMMA BringsAnswering ==
    ASSUME EngineInv, NEW s, NEW d, NEW o, s.sent \in Seq(Messages), Brings(s, d, o),
           down' = down
    PROVE  /\ \A m \in Elems(s.sent) : m.id \in Answering(up', down')
           /\ Answering(up, down) \subseteq Answering(up', down')
           /\ engine' = s.engine /\ board' = s.board /\ owed' = o
  <1>1. up' = up \o s.sent /\ engine' = s.engine /\ board' = s.board /\ owed' = o
    BY DEF Brings
  <1>2. Elems(up') = Elems(up) \cup Elems(s.sent)
    BY <1>1, TypesOf, ElemsConcat
  <1> QED BY <1>1, <1>2 DEF Answering

\* Nothing changes for the copy that waits.
LEMMA SteadyPursued ==
    ASSUME DeliverInv, owed = "yes",
           engine'.seen = engine.seen, engine'.observed = engine.observed,
           engine'.pending = engine.pending, board' = board, drops' = drops,
           settings'.sending = settings.sending, online' = online, stored \subseteq stored',
           (engine.pending \in Pendings /\ engine.pending.id \in Answering(up, down)) =>
             engine.pending.id \in Answering(up', down')
    PROVE  DeliverInv'
  <1>1. Arrived => Arrived'
    BY DEF Arrived
  <1> QED BY <1>1 DEF DeliverInv, Pursued, Worth, Waits

\* poll: the copy it finds is sent, or waits for a connection or the devices.
LEMMA PollPursued ==
    ASSUME ConvergeInv, DeliverInv, NEW r \in BOOLEAN, NEW a \in BOOLEAN, Poll(r, a)
    PROVE  DeliverInv'
  <1> DEFINE e == Looked(engine, board)
             t == Observe(e, board, board.count, r, a)
             s == IF board.count = e.own THEN Step(e, board, <<>>) ELSE t
             o == IF r /\ a = online THEN owed ELSE "no"
             x == settings.sending
  <1>1. /\ Fit(engine, board, acts, Sent) /\ board.count # engine.seen /\ EngineInv
    BY DEF ConvergeInv, EngineInv, Poll
  <1>2. board.count # e.own
    <2>1. e.own = engine.own
      BY <1>1, TypesOf DEF Looked, Engines
    <2> QED BY <1>1, <2>1, TypesOf DEF Fit, Counted
  <1>3. /\ Brings(s, due, o) /\ down' = down /\ settings' = settings /\ online' = online
        /\ drops' = drops
    BY DEF Poll
  <1>4. s = t
    BY <1>2
  <1>5. Keeps(t, acts, Sent)
    BY <1>1, TypesOf, ObserveFits
  <1> SUFFICES ASSUME owed' = "yes"
               PROVE  Pursued(engine', board', drops', settings'.sending, online',
                              Answering(up', down'), Arrived')
    BY DEF DeliverInv
  <1>6. /\ \A m \in Elems(t.sent) : m.id \in Answering(up', down')
        /\ engine' = t.engine /\ board' = t.board /\ owed' = o
    <2> HIDE DEF t, s, o
    <2>1. Brings(t, due, o) /\ t.sent \in Seq(Messages)
      BY <1>3, <1>4, <1>5 DEF Keeps
    <2> QED BY <1>1, <1>3, <2>1, BringsAnswering
  <1>7. r /\ a = online /\ owed = "yes"
    BY <1>6
  <1>8. Worth(engine, board) /\ x \in {"all", "some", "deferred"} /\ x \in Sending
    BY <1>1, <1>7, TypesOf DEF DeliverInv, Pursued
  <1>9. PICK y : NewCopy(y, engine, board, board) /\ t = TrySend(y, board, x, a)
    <2>1. \/ NoCopy(t, engine, board, board) /\ (~r \/ ~Worth(engine, board) \/ x = "paused")
          \/ \E y : NewCopy(y, engine, board, board) /\ t = TrySend(y, board, x, a)
      BY <1>1, TypesOf, ObserveCases
    <2> HIDE DEF t
    <2> QED BY <1>7, <1>8, <2>1
  <1>10. /\ y \in Engines /\ y.pending \in Pendings /\ y.pending.count = board.count
         /\ y.pending.act = board.act /\ y.pending.attempts = 0 /\ y.seen = board.count
    BY <1>9 DEF NewCopy
  <1> DEFINE H == Answering(up', down')
  <1>11. \A m \in Elems(TrySend(y, board, x, online).sent) : m.id \in H
    BY <1>6, <1>7, <1>9
  <1>12. /\ TrySend(y, board, x, online).board = board
         /\ TrySend(y, board, x, online).engine.seen = board.count
    BY <1>1, <1>8, <1>10, TypesOf, TrySendAlike DEF Alike
  <1>13. drops \in Nat /\ online \in BOOLEAN /\ 0 <= drops
    BY <1>1, TypesOf
  <1> HIDE DEF H, t, s, o, x
  <1>14. \/ drops >= MaxAttempts
         \/ Waits(TrySend(y, board, x, online).engine, board, drops, x, online, H)
    BY <1>8, <1>10, <1>11, <1>13, TrySendWaits
  <1> QED BY <1>3, <1>6, <1>7, <1>8, <1>9, <1>12, <1>14 DEF Pursued, H, x

\* poll, when the answer is late: an attempt more, for a mishap more.
LEMMA ResendPursued ==
    ASSUME ConvergeInv, DeliverInv, NEW a \in BOOLEAN, Resend(a)
    PROVE  DeliverInv'
  <1> DEFINE x == settings.sending
             s == TrySend(engine, board, x, a)
             o == IF a = online THEN owed ELSE "no"
  <1>1. EngineInv /\ Fit(engine, board, acts, Sent)
    BY DEF ConvergeInv, EngineInv
  <1>2. /\ Brings(s, due, o) /\ down' = down /\ settings' = settings /\ online' = online
        /\ drops' = drops + (IF up = <<>> /\ down = <<>> THEN 0 ELSE 1) /\ stored' = stored
        /\ board.count = engine.seen /\ engine.pending # None /\ engine.pending.state = "sent"
    BY DEF Resend
  <1>3. Keeps(s, acts, Sent)
    BY <1>1, TypesOf, TrySendFits
  <1> SUFFICES ASSUME owed' = "yes"
               PROVE  Pursued(engine', board', drops', settings'.sending, online',
                              Answering(up', down'), Arrived')
    BY DEF DeliverInv
  <1>4. /\ \A m \in Elems(s.sent) : m.id \in Answering(up', down')
        /\ engine' = s.engine /\ board' = s.board /\ owed' = o
    <2> HIDE DEF s, o
    <2> QED BY <1>1, <1>2, <1>3, BringsAnswering DEF Keeps
  <1>5. a = online /\ owed = "yes"
    BY <1>4
  <1>6. Pursued(engine, board, drops, x, online, Answering(up, down), Arrived)
    BY <1>5 DEF DeliverInv
  <1>7. x \in {"all", "some", "deferred"} /\ x \in Sending
    BY <1>1, <1>6, TypesOf DEF Pursued
  <1>8. board' = board /\ engine'.seen = engine.seen
    BY <1>1, <1>4, <1>7, TypesOf, TrySendAlike DEF Alike
  <1>9. drops \in Nat /\ drops' \in Nat /\ online \in BOOLEAN /\ drops <= drops'
    BY <1>1, <1>2, TypesOf
  <1>10. Arrived => Arrived'
    BY <1>2, <1>8 DEF Arrived
  <1>11. drops >= MaxAttempts => drops' >= MaxAttempts
    BY <1>9, EngineAssumption
  <1>12. ASSUME Waits(engine, board, drops, x, online, Answering(up, down))
         PROVE  drops' >= MaxAttempts
                \/ Waits(engine', board, drops', x, online, Answering(up', down'))
    <2>1. engine.pending \in Pendings /\ engine.pending.attempts \in Nat
      BY <1>12 DEF Waits, Pendings
    <2>2. engine.pending.attempts <= drops'
      <3>1. CASE engine.pending.attempts <= drops
        BY <1>9, <2>1, <3>1
      <3>2. CASE engine.pending.attempts <= drops + 1 /\ Answering(up, down) # {}
        <4>1. ~(up = <<>> /\ down = <<>>)
          BY <3>2, ElemsEmpty DEF Answering
        <4> QED BY <1>2, <1>9, <3>2, <4>1
      <3> QED BY <1>2, <1>12, <3>1, <3>2 DEF Waits
    <2> DEFINE H == Answering(up', down')
    <2>3. \A m \in Elems(TrySend(engine, board, x, online).sent) : m.id \in H
      BY <1>4, <1>5
    <2>4. engine.pending.count = board.count /\ engine.pending.act = board.act
      BY <1>12 DEF Waits
    <2> HIDE DEF H, s
    <2>5. drops' >= MaxAttempts
          \/ Waits(TrySend(engine, board, x, online).engine, board, drops', x, online, H)
      <3> HIDE DEF x
      <3> DEFINE k == drops'
      <3>1. k \in Nat /\ engine.pending.attempts <= k
        BY <1>9, <2>2
      <3> HIDE DEF k
      <3>2. k >= MaxAttempts
            \/ Waits(TrySend(engine, board, x, online).engine, board, k, x, online, H)
        BY <1>1, <1>7, <1>9, <2>1, <2>3, <2>4, <3>1, TypesOf, TrySendWaits
      <3> QED BY <3>2 DEF k
    <2>6. engine' = TrySend(engine, board, x, online).engine
      BY <1>4, <1>5 DEF s
    <2> QED BY <2>5, <2>6 DEF H
  <1> HIDE DEF s, o
  <1> QED BY <1>2, <1>6, <1>7, <1>8, <1>10, <1>11, <1>12 DEF Pursued

\* hubBecameReady: what was lost with the connection is sent again.
LEMMA ReconnectPursued ==
    ASSUME ConvergeInv, DeliverInv, NEW a \in BOOLEAN, Reconnect(a)
    PROVE  DeliverInv'
  <1> DEFINE x == settings.sending
             s == TrySend(engine, board, x, a)
             o == IF a THEN owed ELSE "no"
             H == Answering(up', down')
  <1>1. EngineInv /\ Fit(engine, board, acts, Sent) /\ Streamed
    BY DEF ConvergeInv, EngineInv
  <1>2. /\ Brings(s, due, o) /\ down' = down /\ settings' = settings /\ ~online
        /\ online' = TRUE /\ drops' = drops /\ stored' = stored
    BY DEF Reconnect
  <1>3. Keeps(s, acts, Sent)
    BY <1>1, TypesOf, TrySendFits
  <1> SUFFICES ASSUME owed' = "yes"
               PROVE  Pursued(engine', board', drops', settings'.sending, online', H, Arrived')
    BY DEF DeliverInv
  <1>4. /\ \A m \in Elems(s.sent) : m.id \in H
        /\ engine' = s.engine /\ board' = s.board /\ owed' = o
    <2> HIDE DEF s, o
    <2> QED BY <1>1, <1>2, <1>3, BringsAnswering DEF Keeps
  <1>5. a = TRUE /\ owed = "yes"
    BY <1>4
  <1>6. Pursued(engine, board, drops, x, online, Answering(up, down), Arrived)
    BY <1>5 DEF DeliverInv
  <1>7. x \in {"all", "some", "deferred"} /\ x \in Sending
    BY <1>1, <1>6, TypesOf DEF Pursued
  <1>8. board' = board /\ engine'.seen = engine.seen /\ engine'.observed = engine.observed
    BY <1>1, <1>4, <1>7, TypesOf, TrySendAlike DEF Alike
  <1>9. Answering(up, down) = {}
    BY <1>1, <1>2, ElemsEmpty DEF Streamed, Answering
  <1>10. Arrived => Arrived'
    BY <1>2, <1>8 DEF Arrived
  <1>11. ASSUME Waits(engine, board, drops, x, online, Answering(up, down))
         PROVE  drops >= MaxAttempts \/ Waits(engine', board, drops, x, TRUE, H)
    <2>1. /\ engine.pending \in Pendings /\ engine.pending.attempts <= drops
          /\ engine.pending.count = board.count /\ engine.pending.act = board.act
      BY <1>9, <1>11 DEF Waits
    <2>2. \A m \in Elems(TrySend(engine, board, x, TRUE).sent) : m.id \in H
      BY <1>4, <1>5
    <2> HIDE DEF H, s, x
    <2>3. drops >= MaxAttempts
          \/ Waits(TrySend(engine, board, x, TRUE).engine, board, drops, x, TRUE, H)
      BY <1>1, <1>7, <2>1, <2>2, TypesOf, TrySendWaits
    <2> QED BY <1>4, <1>5, <2>3 DEF s
  <1> HIDE DEF s, o, H
  <1> QED BY <1>2, <1>6, <1>7, <1>8, <1>10, <1>11 DEF Pursued, Worth

\* A step that sends nothing.
LEMMA SilentStep ==
    ASSUME EngineInv, NEW e, NEW b, NEW d, NEW o, Brings(Step(e, b, <<>>), d, o)
    PROVE  engine' = e /\ board' = b /\ up' = up /\ due' = d /\ owed' = o
  <1>1. engine' = e /\ board' = b /\ due' = d /\ owed' = o /\ up' = up \o <<>>
    <2>1. /\ Step(e, b, <<>>).engine = e /\ Step(e, b, <<>>).board = b
          /\ Step(e, b, <<>>).sent = <<>>
      BY DEF Step
    <2> QED BY <2>1 DEF Brings
  <1> QED BY <1>1, TypesOf

\* devicesChanged: what was put off is sent; what was sent still waits for its answer.
LEMMA DevicesPursued ==
    ASSUME ConvergeInv, DeliverInv, NEW x \in Sending, NEW a \in BOOLEAN, ChangeDevices(x, a)
    PROVE  DeliverInv'
  <1> DEFINE tells == engine.pending # None /\ engine.pending.state # "sent"
             s == TrySend(engine, board, x, a)
             o == IF x = "nobody" \/ ~a THEN "no" ELSE owed
             z == settings.sending
             H == Answering(up', down')
  <1>1. EngineInv /\ Fit(engine, board, acts, Sent)
    BY DEF ConvergeInv, EngineInv
  <1>2. /\ settings'.sending = x /\ down' = down /\ stored' = stored /\ online /\ online'
        /\ drops' = drops /\ Brings(IF tells THEN s ELSE Step(engine, board, <<>>), due, o)
        /\ {x, z} \subseteq {"some", "nobody", "deferred"} \/ x = z
    <2>1. settings'.sending = x
      BY <1>1, TypesOf DEF ChangeDevices, Settings
    <2> QED BY <2>1 DEF ChangeDevices
  <1> SUFFICES ASSUME owed' = "yes"
               PROVE  Pursued(engine', board', drops', settings'.sending, online', H, Arrived')
    BY DEF DeliverInv
  <1>3. a = TRUE /\ owed = "yes" /\ x # "nobody"
    <2>1. owed' = o
      BY <1>2 DEF Brings
    <2> QED BY <2>1
  <1>4. Pursued(engine, board, drops, z, online, Answering(up, down), Arrived)
    BY <1>3 DEF DeliverInv
  <1>5. x \in {"all", "some", "deferred"}
    BY <1>2, <1>3, <1>4 DEF Pursued
  <1>6. CASE tells
    <2>1. Brings(s, due, o)
      BY <1>2, <1>6
    <2>2. Keeps(s, acts, Sent)
      BY <1>1, TrySendFits
    <2>3. /\ \A m \in Elems(s.sent) : m.id \in H
          /\ engine' = s.engine /\ board' = s.board
      <3> HIDE DEF s, o
      <3> QED BY <1>1, <1>2, <2>1, <2>2, BringsAnswering DEF Keeps
    <2>4. board' = board /\ engine'.seen = engine.seen /\ engine'.observed = engine.observed
      BY <1>1, <2>3, TypesOf, TrySendAlike DEF Alike
    <2>5. Arrived => Arrived'
      BY <1>2, <2>4 DEF Arrived
    <2>6. ASSUME Waits(engine, board, drops, z, online, Answering(up, down))
          PROVE  drops >= MaxAttempts \/ Waits(engine', board, drops, x, online', H)
      <3>1. /\ engine.pending \in Pendings /\ engine.pending.attempts <= drops
            /\ engine.pending.count = board.count /\ engine.pending.act = board.act
        BY <1>6, <2>6 DEF Waits
      <3>2. \A m \in Elems(TrySend(engine, board, x, TRUE).sent) : m.id \in H
        BY <1>3, <2>3
      <3> HIDE DEF H, s
      <3>3. drops >= MaxAttempts
            \/ Waits(TrySend(engine, board, x, TRUE).engine, board, drops, x, TRUE, H)
        BY <1>1, <1>5, <3>1, <3>2, TypesOf, TrySendWaits
      <3>4. engine' = TrySend(engine, board, x, TRUE).engine
        BY <1>3, <2>3 DEF s
      <3> QED BY <1>1, <1>2, <3>3, <3>4, TypesOf DEF Waits
    <2> HIDE DEF s, o, H
    <2> QED BY <1>2, <1>4, <1>5, <2>4, <2>5, <2>6 DEF Pursued, Worth
  <1>7. CASE ~tells
    <2>1. Brings(Step(engine, board, <<>>), due, o)
      <3> HIDE DEF s, o
      <3> QED BY <1>2, <1>7
    <2>2. engine' = engine /\ board' = board /\ up' = up
      <3> HIDE DEF o
      <3> QED BY <1>1, <2>1, SilentStep
    <2>3. Arrived => Arrived'
      BY <1>2, <2>2 DEF Arrived
    <2>4. Waits(engine, board, drops, z, online, Answering(up, down))
            => Waits(engine', board, drops, x, online', H)
      BY <1>2, <1>7, <2>2, NoneIsNone DEF Waits
    <2> HIDE DEF H
    <2> QED BY <1>2, <1>4, <1>5, <2>2, <2>3, <2>4 DEF Pursued, Worth
  <1> QED BY <1>6, <1>7

\* Whether it is an answer to this device, an acknowledgement or its event.
Answer(m) == m.type = "ack" \/ Own(m)

\* The message that is heard answers the copy in hand, or leaves it alone.
LEMMA AnswerPursued ==
    ASSUME ConvergeInv, DeliverInv, owed = "yes", down # <<>>, down' = Tail(down), up' = up,
           stored' = stored, board' = board, drops' = drops, settings' = settings,
           online' = online, engine'.seen = engine.seen, engine'.observed = engine.observed,
           \/ /\ engine.pending # None /\ Answer(Head(down))
              /\ engine.pending.id = Head(down).id
           \/ /\ engine'.pending = engine.pending
              /\ (engine.pending \in Pendings /\ Answer(Head(down))) =>
                   Head(down).id # engine.pending.id
    PROVE  DeliverInv'
  <1> DEFINE m == Head(down)
  <1>1. /\ EngineInv /\ Fit(engine, board, acts, Sent) /\ Streamed
        /\ Pursued(engine, board, drops, settings.sending, online, Answering(up, down), Arrived)
    BY DEF ConvergeInv, EngineInv, DeliverInv
  <1>2. Elems(down) = {m} \cup Elems(Tail(down)) /\ m = down[1] /\ 1 \in DOMAIN down
    BY <1>1, TypesOf, ElemsTail, HeadHeard DEF Downs
  <1>3. CASE engine.pending # None /\ Answer(m) /\ engine.pending.id = m.id
    <2>1. \E k \in stored : k.id = m.id
      BY <1>1, <1>2, <1>3 DEF Streamed, Answer, Event
    <2>2. \E k \in stored : k.act = engine.pending.act
      BY <1>1, <1>3, <2>1 DEF Fit, Matched, Sent
    <2>3. board.count = engine.seen => Arrived \/ drops >= MaxAttempts
      BY <1>1, <2>2 DEF Pursued, Waits, Arrived
    <2>4. Arrived => Arrived'
      BY DEF Arrived
    <2> QED BY <1>1, <2>3, <2>4 DEF DeliverInv, Pursued, Worth
  <1>4. CASE /\ engine'.pending = engine.pending
             /\ (engine.pending \in Pendings /\ Answer(m)) => m.id # engine.pending.id
    <2>1. (engine.pending \in Pendings /\ engine.pending.id \in Answering(up, down))
            => engine.pending.id \in Answering(up', down')
      BY <1>2, <1>4 DEF Answering, Answer
    <2> QED BY <1>4, <2>1, SteadyPursued
  <1> QED BY <1>3, <1>4

\* handleClipboard and handleAck: the copy in hand ends with the answer to it, which the
\* hub gives once it has stored it.
LEMMA HearPursued ==
    ASSUME ConvergeInv, DeliverInv, NEW w \in Writes, Hear(w)
    PROVE  DeliverInv'
  <1> DEFINE m == Head(down)
             own == HearOwn(engine, board, m, w)
  <1>1. /\ EngineInv /\ Fit(engine, board, acts, Sent) /\ Held(engine, board, Sent)
        /\ engine \in Engines /\ board \in Boards /\ board.count \in Nat
    BY TypesOf DEF ConvergeInv, EngineInv, PlacedInv, Boards
  <1>2. /\ down # <<>> /\ down' = Tail(down) /\ settings' = settings /\ stored' = stored
        /\ online' = online /\ drops' = drops
    BY DEF Hear
  <1>3. m \in Acks \cup Events
    BY <1>1, <1>2, HeadHeard
  <1> SUFFICES ASSUME owed' = "yes" PROVE DeliverInv'
    BY DEF DeliverInv
  <1>4. up \o <<>> = up
    BY <1>1, TypesOf
  <1>5. CASE m.type = "ack"
    <2> DEFINE q == Acknowledge(engine, m.id)
    <2>1. engine' = q /\ board' = board /\ up' = up /\ owed = "yes"
      <3>1. Brings(Step(q, board, <<>>), due, owed)
        BY <1>5 DEF Hear
      <3> HIDE DEF q
      <3> QED BY <1>1, <3>1, SilentStep
    <2>2. Alike(q, engine)
      BY <1>1, AckPlaced
    <2>3. (engine.pending # None /\ engine.pending.id = m.id) \/ q = engine
      BY DEF Acknowledge
    <2>4. \/ engine.pending # None /\ Answer(m) /\ engine.pending.id = m.id
          \/ /\ engine'.pending = engine.pending
             /\ (engine.pending \in Pendings /\ Answer(m)) => m.id # engine.pending.id
      BY <1>5, <2>1, <2>3, NoneIsNone DEF Answer
    <2> HIDE DEF q
    <2> QED BY <1>2, <2>1, <2>2, <2>4, AnswerPursued DEF Alike
  <1>6. CASE m.type = "event" /\ m.own
    <2> DEFINE h == Heard(engine, m)
    <2>1. /\ engine' = own.engine /\ board' = own.board /\ up' = up \o own.sent
          /\ owed' = IF own.board = board THEN owed ELSE "overwritten"
      BY <1>6 DEF Hear, Brings
    <2>2. own.board = board /\ owed = "yes" /\ up' = up
      BY <1>4, <2>1, HearOwnSendsNothing
    <2>3. own.engine = h
      <3>1. own = Write(h, board, m.content, w) \/ own = Step(h, board, <<>>)
        BY HearOwnMeans
      <3> HIDE DEF own, h
      <3>2. ASSUME own = Write(h, board, m.content, w) PROVE own.engine = h
        <4>1. w # "done"
          <5> SUFFICES ASSUME w = "done" PROVE FALSE
            OBVIOUS
          <5> DEFINE v == [count |-> board.count + 1, content |-> ReadsAs[m.content], act |-> 0]
          <5>1. own.board = v
            BY <3>2 DEF Write, Step
          <5>2. v.count = board.count + 1
            OBVIOUS
          <5> HIDE DEF v
          <5> QED BY <1>1, <2>2, <5>1, <5>2
        <4> QED BY <3>2, <4>1 DEF Write, Step, Writes
      <3> QED BY <3>1, <3>2 DEF Step
    <2>4. \/ engine.pending # None /\ engine.pending.id = m.id
          \/ h.pending = engine.pending
      <3> DEFINE q == Acknowledge(engine, m.id)
      <3>1. (engine.pending # None /\ engine.pending.id = m.id) \/ q = engine
        BY DEF Acknowledge
      <3>2. q.pending = engine.pending => h.pending = engine.pending
        <4>1. Alike(q, engine)
          BY <1>1, AckPlaced
        <4> HIDE DEF q
        <4>2. h = q \/ h = [q EXCEPT !.submitted = 0]
          BY DEF Heard, q
        <4> HIDE DEF h
        <4> QED BY <4>1, <4>2 DEF Alike, Engines
      <3> QED BY <1>1, <3>1, <3>2, HeardFits
    <2>5. \/ engine.pending # None /\ Answer(m) /\ engine.pending.id = m.id
          \/ /\ engine'.pending = engine.pending
             /\ (engine.pending \in Pendings /\ Answer(m)) => m.id # engine.pending.id
      BY <1>6, <2>1, <2>3, <2>4, NoneIsNone DEF Answer, Own
    <2>6. engine'.seen = engine.seen /\ engine'.observed = engine.observed
      <3>1. Alike(h, engine)
        BY <1>1, HeardFits
      <3> HIDE DEF own, h
      <3> QED BY <2>1, <2>3, <3>1 DEF Alike
    <2> HIDE DEF own, h
    <2> QED BY <1>2, <2>1, <2>2, <2>5, <2>6, AnswerPursued
  <1>7. CASE m.type = "event" /\ ~m.own
    <2>1. engine' = engine /\ board' = board /\ up' = up /\ owed = "yes"
      <3>1. CASE Accepts(FALSE)
        <4>1. /\ Brings(Write(engine, board, m.content, w),
                        IF w = "done" /\ ~(board.count # engine.seen) /\ due.known
                        THEN Due(m.content) ELSE Unknown,
                        IF w = "invalid" THEN owed ELSE "overwritten")
          BY <1>7, <3>1 DEF Hear
        <4>2. w = "invalid"
          BY <4>1 DEF Brings
        <4>3. Write(engine, board, m.content, w) = Step(engine, board, <<>>)
          BY <4>2 DEF Write
        <4> QED BY <1>1, <4>1, <4>2, <4>3, SilentStep
      <3>2. CASE ~Accepts(FALSE)
        <4>1. Brings(Step(engine, board, <<>>), due, owed)
          BY <1>7, <3>2 DEF Hear
        <4> QED BY <1>1, <4>1, SilentStep
      <3> QED BY <3>1, <3>2
    <2>2. ~Answer(m)
      BY <1>7 DEF Answer, Own
    <2> QED BY <1>2, <2>1, <2>2, AnswerPursued
  <1> QED BY <1>3, <1>5, <1>6, <1>7, DownsTyped DEF Acks, Events

(***************************************************************************)
(* What is owed: the other steps.                                          *)
(***************************************************************************)

\* writeHistory: a write takes the place of the copy, a refused one changes nothing.
LEMMA SelectPursued ==
    ASSUME ConvergeInv, DeliverInv, NEW c \in Contents, NEW w \in Writes, Select(c, w)
    PROVE  DeliverInv'
  <1> DEFINE e == [engine EXCEPT !.submitted = 0]
             d == IF w = "done" THEN Due(c) ELSE Unknown
             o == IF w = "invalid" THEN owed ELSE "overwritten"
  <1>1. EngineInv
    BY DEF ConvergeInv
  <1>2. /\ Brings(Write(e, board, c, w), d, o) /\ settings' = settings /\ down' = down
        /\ stored' = stored /\ online' = online /\ drops' = drops
    BY DEF Select
  <1>3. /\ e.seen = engine.seen /\ e.observed = engine.observed /\ e.pending = engine.pending
    BY <1>1, TypesOf DEF Engines
  <1> HIDE DEF e, d
  <1> SUFFICES ASSUME owed' = "yes" PROVE DeliverInv'
    BY DEF DeliverInv
  <1>4. w = "invalid" /\ owed = "yes"
    <2>1. owed' = o
      BY <1>2 DEF Brings
    <2> QED BY <2>1
  <1> HIDE DEF o
  <1>5. engine' = e /\ board' = board /\ up' = up
    <2>1. Write(e, board, c, w) = Step(e, board, <<>>)
      BY <1>4 DEF Write
    <2> QED BY <1>1, <1>2, <2>1, SilentStep
  <1> QED BY <1>2, <1>3, <1>4, <1>5, SteadyPursued

\* Store: a message in the hub has its acknowledgement on the way.
LEMMA StorePursued == ASSUME ConvergeInv, DeliverInv, Store PROVE DeliverInv'
  <1> DEFINE m == Head(up)
             p == engine.pending
  <1>1. /\ EngineInv /\ up # <<>> /\ up' = Tail(up) /\ stored \subseteq stored'
        /\ engine' = engine /\ board' = board /\ settings' = settings /\ online' = online
        /\ drops' = drops /\ owed' = owed
    BY DEF Store, ghosts, bounds, ConvergeInv
  <1>2. Elems(up) = {m} \cup Elems(Tail(up))
    BY <1>1, TypesOf, ElemsTail
  <1>3. Ack(m.id) \in Elems(down') /\ Elems(down) \subseteq Elems(down')
    BY <1>1, StoreTells
  <1>4. Ack(m.id).type = "ack" /\ Ack(m.id).id = m.id
    BY DEF Ack
  <1> HIDE DEF m
  <1>5. (p \in Pendings /\ p.id \in Answering(up, down)) => p.id \in Answering(up', down')
    BY <1>1, <1>2, <1>3, <1>4 DEF Answering
  <1> SUFFICES ASSUME owed = "yes" PROVE DeliverInv'
    BY <1>1 DEF DeliverInv
  <1> QED BY <1>1, <1>5, SteadyPursued

\* PeerCopies: other events do not stand in for an answer.
LEMMA PeerPursued ==
    ASSUME ConvergeInv, DeliverInv, NEW c \in Contents, PeerCopies(c) PROVE DeliverInv'
  <1> DEFINE p == [type |-> "event", own |-> FALSE, id |-> 0, content |-> c, act |-> 0]
  <1>1. EngineInv /\ down \in Downs
    BY TypesOf DEF ConvergeInv
  <1>2. /\ engine' = engine /\ board' = board /\ owed' = owed /\ up' = up /\ online' = online
        /\ settings' = settings /\ stored' = stored /\ drops' = drops /\ down' = Append(down, p)
    BY DEF PeerCopies, ghosts
  <1> HIDE DEF p
  <1>3. Elems(down) \subseteq Elems(down')
    BY <1>1, <1>2 DEF Downs, Elems
  <1>4. Answering(up, down) \subseteq Answering(up', down')
    BY <1>2, <1>3 DEF Answering
  <1> SUFFICES ASSUME owed = "yes" PROVE DeliverInv'
    BY <1>2 DEF DeliverInv
  <1> QED BY <1>2, <1>4, SteadyPursued

\* A lost connection costs what it loses.
LEMMA DisconnectPursued == ASSUME ConvergeInv, DeliverInv, Disconnect PROVE DeliverInv'
  <1> DEFINE x == settings.sending
             p == engine.pending
  <1>1. /\ engine' = engine /\ board' = board /\ settings' = settings /\ stored' = stored
        /\ owed' = owed /\ online' = FALSE /\ drops' = drops + 1 /\ online
    BY DEF Disconnect, ghosts
  <1>2. drops \in Nat /\ drops' \in Nat
    BY <1>1, TypesOf DEF ConvergeInv
  <1> SUFFICES ASSUME owed = "yes"
               PROVE  Pursued(engine, board, drops', x, FALSE, Answering(up', down'), Arrived')
    BY <1>1 DEF DeliverInv
  <1>3. Pursued(engine, board, drops, x, online, Answering(up, down), Arrived)
    BY DEF DeliverInv
  <1>4. Arrived => Arrived'
    BY <1>1 DEF Arrived
  <1>5. drops >= MaxAttempts => drops' >= MaxAttempts
    BY <1>1, <1>2, EngineAssumption
  <1>6. ASSUME Waits(engine, board, drops, x, online, Answering(up, down))
        PROVE  Waits(engine, board, drops', x, FALSE, Answering(up', down'))
    <2>1. p.attempts <= drops'
      <3>1. p.attempts \in Nat
        BY <1>6 DEF Waits, Pendings
      <3> QED BY <1>1, <1>2, <1>6, <3>1 DEF Waits
    <2> QED BY <1>6, <2>1 DEF Waits
  <1> QED BY <1>3, <1>4, <1>5, <1>6 DEF Pursued

\* Copy: the next poll will find the copy.
LEMMA CopyPursued ==
    ASSUME ConvergeInv, DeliverInv, NEW c \in Contents \cup {Nothing}, Copy(c)
    PROVE  DeliverInv'
  <1>1. EngineInv /\ Fit(engine, board, acts, Sent)
    BY DEF ConvergeInv, EngineInv
  <1>2. /\ board'.count = board.count + 1 /\ board'.content = c /\ engine' = engine
        /\ settings' = settings
    BY DEF Copy, hub
  <1>3. board'.count # engine.seen
    BY <1>1, <1>2, TypesOf DEF Fit, Counted
  <1> SUFFICES ASSUME owed' = "yes" PROVE DeliverInv'
    BY DEF DeliverInv
  <1>4. Owes(c)
    BY DEF Copy
  <1>5. settings.sending \in {"all", "some", "deferred"} /\ Worth(engine, board')
    BY <1>2, <1>4 DEF Owes, Worth
  <1> QED BY <1>2, <1>3, <1>5 DEF DeliverInv, Pursued

\* applySetting: what is received is of no matter to it.
LEMMA SettingsPursued ==
    ASSUME ConvergeInv, DeliverInv, NEW x \in Settings, ChangeSettings(x) PROVE DeliverInv'
  <1>1. /\ engine' = engine /\ board' = board /\ up' = up /\ down' = down /\ stored' = stored
        /\ online' = online /\ drops' = drops /\ settings' = x
        /\ owed' = IF x.sending = settings.sending THEN owed ELSE "no"
    BY DEF ChangeSettings, hub, bounds
  <1> SUFFICES ASSUME owed' = "yes" PROVE DeliverInv'
    BY DEF DeliverInv
  <1> QED BY <1>1, SteadyPursued

\* Every step keeps the third invariant.
LEMMA DeliverStep == ConvergeInv /\ DeliverInv /\ [Next]_vars => DeliverInv'
  <1> SUFFICES ASSUME ConvergeInv, DeliverInv, [Next]_vars PROVE DeliverInv'
    OBVIOUS
  <1>1. CASE Repeat
    <2>1. owed' # "yes"
      BY <1>1 DEF Repeat
    <2> QED BY <2>1 DEF DeliverInv
  <1>2. ASSUME NEW c \in Contents, PollOvertaken(c) PROVE DeliverInv'
    <2>1. owed' # "yes"
      BY <1>2 DEF PollOvertaken, Brings
    <2> QED BY <2>1 DEF DeliverInv
  <1>3. ASSUME NEW l \in BOOLEAN, NEW r \in BOOLEAN, Restart(l, r) PROVE DeliverInv'
    <2>1. owed' # "yes"
      BY <1>3 DEF Restart
    <2> QED BY <2>1 DEF DeliverInv
  <1>4. CASE UNCHANGED vars
    <2> SUFFICES ASSUME owed' = "yes" PROVE DeliverInv'
      BY DEF DeliverInv
    <2> QED BY <1>4, SteadyPursued DEF vars, hub, ghosts, bounds
  <1> QED BY <1>1, <1>2, <1>3, <1>4, PollPursued, ResendPursued, ReconnectPursued,
             DevicesPursued, HearPursued, SelectPursued, StorePursued, PeerPursued,
             DisconnectPursued, CopyPursued, SettingsPursued DEF Next, Settings

(***************************************************************************)
(* The theorems.                                                           *)
(***************************************************************************)

\* The engine, the pasteboard and the messages fit in every state: the types, the order of
\* the change counts seen, own and the pasteboard's, and the numbers of the messages.
THEOREM EngineInvariant == Spec => []EngineInv
  BY InitInv, EngineStep, PTL DEF Spec

\* What the engine has written is never sent as a copy of the user (the loop guard of
\* SyncEngine.swift): poll passes over a change count that is the engine's own, and what it
\* reads at another count is the user's.
THEOREM NothingEchoed == Spec => []NoEcho
  <1>1. EngineInv => NoEcho
    BY TypesOf DEF EngineInv, Fit, Numbered, NoEcho, Sent, Elems
  <1> QED BY <1>1, EngineInvariant, PTL

\* A copy that trySendPending sends again has the id of the first time, or is for other
\* devices: the hub stores it once.
THEOREM CopiesStoredOnce == Spec => []StoredOnce
  <1>1. EngineInv => StoredOnce
    <2> SUFFICES ASSUME EngineInv PROVE StoredOnce
      OBVIOUS
    <2>1. ASSUME NEW m \in stored, NEW k \in stored, m.act = k.act, m.route = k.route
          PROVE  m = k \/ m.id + 1 < k.id \/ k.id + 1 < m.id
      <3>1. m \in Sent /\ k \in Sent /\ m.id \in Nat /\ k.id \in Nat
        BY TypesOf DEF Sent, Messages
      <3>2. (m.id = k.id => m = k) /\ k.id # m.id + 1 /\ m.id # k.id + 1
        BY <2>1, <3>1 DEF EngineInv, Fit, Numbered
      <3> QED BY <3>1, <3>2
    <2> QED BY <2>1 DEF StoredOnce
  <1> QED BY <1>1, EngineInvariant, PTL

\* What is due is on the pasteboard, or a poll, an event or an echo will bring it.
THEOREM ConvergeInvariant == Spec => []ConvergeInv
  <1>1. Init => ConvergeInv
    BY InitInv, ConvergeInit DEF ConvergeInv
  <1>2. ConvergeInv /\ [Next]_vars => ConvergeInv'
    BY EngineStep, StreamStep, PlacedStep DEF ConvergeInv
  <1> QED BY <1>1, <1>2, PTL DEF Spec

\* When all is quiet, the pasteboard shows the last event of the hub's stream, or what the
\* user has done since: concurrent copies converge (applyRemote and its echo rule).
THEOREM ClipboardsConverge == Spec => []Converges
  <1>1. ConvergeInv => Converges
    BY DEF ConvergeInv, PlacedInv, Known, Converges
  <1> QED BY <1>1, ConvergeInvariant, PTL

\* A copy is pursued as long as it is owed.
THEOREM DeliverInvariant == Spec => [](ConvergeInv /\ DeliverInv)
  <1>1. Init => ConvergeInv /\ DeliverInv
    BY InitInv, ConvergeInit DEF ConvergeInv, DeliverInv, Init
  <1>2. ConvergeInv /\ DeliverInv /\ [Next]_vars => (ConvergeInv /\ DeliverInv)'
    BY EngineStep, StreamStep, PlacedStep, DeliverStep DEF ConvergeInv
  <1> QED BY <1>1, <1>2, PTL DEF Spec

\* When all is quiet, a copy of the user that the rules let through and that is still on the
\* pasteboard has reached the hub, unless MaxAttempts mishaps have cost it a send:
\* trySendPending keeps it in hand until handleAck finds its id acknowledged, or write drops
\* it for an event or a selection ("overwritten"), of which nothing is said.
THEOREM CopiesDelivered == Spec => []Delivered
  <1>1. ConvergeInv /\ DeliverInv => Delivered
    <2> SUFFICES ASSUME ConvergeInv, DeliverInv, Quiet, owed = "yes",
                        settings.sending # "deferred", drops < MaxAttempts
                 PROVE  Arrived
      BY DEF Delivered
    <2>1. drops \in Nat /\ ~(drops >= MaxAttempts)
      BY TypesOf, EngineAssumption DEF ConvergeInv
    <2>2. Answering(up, down) = {}
      BY ElemsEmpty DEF Quiet, Answering
    <2>3. ~Waits(engine, board, drops, settings.sending, online, Answering(up, down))
      <3> SUFFICES ASSUME engine.pending \in Pendings, engine.pending.state = "sent"
                   PROVE  FALSE
        BY <2>2, NoneIsNone DEF Quiet, Waits
      <3> QED BY NoneIsNone DEF Quiet
    <2> QED BY <2>1, <2>3 DEF DeliverInv, Pursued, Quiet
  <1> QED BY <1>1, DeliverInvariant, PTL
=============================================================================
