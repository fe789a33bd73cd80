-------------------------- MODULE SyncServiceProofs --------------------------
(***************************************************************************)
(* Proofs about SyncService, for any contents, any numbers of acts, events, *)
(* attempts, late writes and failures: the loop guard is exact, and the     *)
(* clipboards converge.                                                     *)
(*                                                                         *)
(* GuardInv says what the client's fields have to do with each other and    *)
(* with the clipboard.  What is done to the evidence of writes is stated of *)
(* constants first, then the methods are taken one by one, then the actions.*)
(* ConvergeInv adds the echoes that are still to come, and what is due.  It *)
(* goes through the methods once more (Stays, Sends, Finds say what one may *)
(* do to the client that the echoes are compared with), then through the    *)
(* actions.  GuardInv and ConvergeInv hold until the client loses track of  *)
(* its own writes (confused).  Fit holds in every state: from it follows    *)
(* that no copy of the user is swallowed.                                   *)
(***************************************************************************)
EXTENDS SyncService, SequenceTheorems, TLAPS

(***************************************************************************)
(* The invariant.                                                          *)
(***************************************************************************)

\* The types of the client's fields.
Sendings == {"all", "some", "nobody", "deferred"}

Copies ==
    [kind : {"event"}, content : Contents, act : Nat \ {0}, id : Nat,
     route : Sendings \cup {"none"}]

Findings == [token : Nat, content : Contents]

Writes ==
    [kind : {"write"}, content : Contents, own : BOOLEAN, remote : BOOLEAN,
     accept : BOOLEAN, status : {"pending", "succeeded", "failed"}, attempt : Nat \ {0},
     timer : BOOLEAN, hasWritten : BOOLEAN, actual : Shown, token : Nat,
     observed : Shown, hasObservation : BOOLEAN]

Polls == [kind : {"polling"}, content : Contents, stale : BOOLEAN]

Clients ==
    [lastLocal : Shown, lastObserved : Shown, baseline : BOOLEAN, guard : SUBSET Shown,
     waiting : SUBSET Contents, event : Copies \cup {None}, submitted : Nat,
     evidence : Seq(Findings), write : Writes \cup {None}, polling : Polls \cup {None},
     stopped : BOOLEAN, ids : Nat, tokens : Nat]

\* What is read back after a write.
Reads == {ReadsAs[c] : c \in Contents}

Snapshots == [content : Shown, act : Nat]

\* Where the evidence found shows a write of what the snapshot s shows, and that it shows d
\* written after c.
Of(found, s) == {i \in DOMAIN found : Same(found[i].content, s)}
Later(found, c, d) == \A i \in Of(found, c) : \E j \in Of(found, d) : i <= j

\* What the client's own writes leave behind: what it has written and can be read now (sn)
\* or will be (cm) is in the evidence, in this order, unless the client has observed it;
\* what the user has copied is not, and no write of before is still to come, unless the
\* client has polled it.
Board(lastObserved, lastLocal, found, sn, cm) ==
    /\ sn \in Snapshots /\ cm \in Seq([content : Reads, act : {0}])
    /\ sn.act = 0 => sn.content \in Reads \cup {Nothing}
    /\ (sn.act = 0 /\ Of(found, sn.content) = {}) =>
         sn.content = lastObserved /\ sn.content = lastLocal
    /\ sn.act # 0 => Of(found, sn.content) = {} /\ (cm = <<>> \/ sn.content = lastObserved)
    /\ \A i, j \in DOMAIN cm : i <= j => Later(found, cm[i].content, cm[j].content)
    /\ \A i \in DOMAIN cm : Later(found, sn.content, cm[i].content)
    /\ \A i \in DOMAIN cm :
         Of(found, cm[i].content) = {} => sn.act = 0 /\ cm[i].content = sn.content

\* Evidence is in the order of the writes' tokens; the current write has the last token, and
\* its evidence as soon as it has been written.
Tokens(found, tokens) ==
    /\ found \in Seq(Findings) /\ Len(found) <= 2 /\ tokens \in Nat
    /\ \A i \in DOMAIN found : found[i].token <= tokens
    /\ \A i, j \in DOMAIN found : i < j => found[i].token < found[j].token

Proven(k) ==
    /\ Tokens(k.evidence, k.tokens)
    /\ k.write # None =>
         /\ k.write.token = k.tokens
         /\ \A i \in DOMAIN k.evidence :
              k.evidence[i].token = k.tokens => k.evidence[i].content = k.write.content
    /\ (Pending(k) /\ k.write.hasWritten) =>
         \E i \in DOMAIN k.evidence : k.evidence[i].token = k.tokens

\* A copy that is not settled is the event in hand; the guard holds nothing meanwhile.
InHand(k) ==
    /\ k.lastLocal = k.lastObserved \/ k.guard = {}
    /\ (k.baseline /\ ~k.stopped /\ k.lastLocal # k.lastObserved) =>
         k.event # None /\ k.event.content = k.lastObserved
    /\ (k.polling # None /\ ~k.polling.stale) =>
         /\ k.event # None /\ k.event.content = k.lastObserved
         /\ k.polling.content = k.lastObserved
    /\ k.stopped => k.polling = None /\ k.write = None /\ k.event = None

\* What a write has found before it is what the client has observed, a write of its own, or
\* the user has copied since.
Compared(k, sn, cm) ==
    (Pending(k) /\ k.write.hasObservation) =>
        \/ k.write.observed = k.lastObserved
        \/ Of(k.evidence, sn.content) # {}
        \/ sn.act # 0 /\ cm = <<>>

Sound(k, sn, cm) ==
    /\ k \in Clients /\ Proven(k) /\ InHand(k)
    /\ Board(k.lastObserved, k.lastLocal, k.evidence, sn, cm) /\ Compared(k, sn, cm)

\* A write that is late is not late after a copy the client has not found; what is shown
\* looks like it only if it is a write, and the last one.
Clear(w, k) ==
    Len(w.coming) > Len(coming) =>
      /\ seen.act # 0 => k.lastObserved = seen.content
      /\ Same(w.coming[Len(w.coming)].content, seen.content) => seen.act = 0 /\ coming = <<>>

Messages == [id : Nat, content : Contents, act : Nat \ {0}]
Answers == [type : {"event"}, own : BOOLEAN, id : Nat, content : Contents, act : Nat]
             \cup [type : {"ack"}, id : Nat]

GuardInv ==
    /\ Sound(client, seen, coming)
    /\ up \in Seq(Messages) /\ down \in Seq(Answers) /\ acts \in Nat
    /\ client.stopped => up = <<>> /\ down = <<>> /\ ~online
    /\ settings \in [sending : Sendings, receiving : {"all", "blocked", "paused"}]

\* What a step comes to.
Keeps(w) ==
    /\ Sound(w.client, w.seen, w.coming) /\ w.sent \in Seq(Messages)
    /\ ~w.client.stopped

(***************************************************************************)
(* Evidence.                                                                *)
(***************************************************************************)

LEMMA NoneIsNone ==
    None \notin Copies /\ None \notin Writes /\ None \notin Polls
  BY DEF None, Copies, Writes, Polls

\* What a write reads back as looks like what was written, and nothing does.
LEMMA LooksLike ==
    ASSUME NEW c \in Contents
    PROVE  /\ ReadsAs[c] \in Contents /\ ReadsAs[c] \in Reads
           /\ \A s : Same(c, ReadsAs[c]) /\ (Same(ReadsAs[c], s) <=> Same(c, s))
  <1>1. ReadsAs[c] \in Shown /\ Look[ReadsAs[c]] = Look[c] /\ Look[c] # Look[Nothing]
    BY SyncAssumption DEF Shown
  <1>2. ReadsAs[c] # Nothing
    BY <1>1
  <1> QED BY <1>1, <1>2 DEF Same, Shown, Reads

\* Two things read back that look the same are the same.
LEMMA ReadsAlike ==
    ASSUME NEW d \in Reads, NEW e \in Reads, NEW c, Same(c, d), Same(c, e)
    PROVE  d = e
  <1>1. PICK x \in Contents : d = ReadsAs[x]
    BY DEF Reads
  <1>2. PICK y \in Contents : e = ReadsAs[y]
    BY DEF Reads
  <1>3. Look[x] = Look[y]
    BY <1>1, <1>2, SyncAssumption DEF Same
  <1> QED BY <1>1, <1>2, <1>3, SyncAssumption

\* The last of the evidence of a snapshot, and what is left when it is consumed.
LastOf(found, s) == CHOOSE n \in Of(found, s) : \A m \in Of(found, s) : m <= n

Consumed(found, s) ==
    IF Of(found, s) = {} THEN found ELSE SubSeq(found, LastOf(found, s) + 1, Len(found))

LEMMA LastIsLast ==
    ASSUME NEW found \in Seq(Findings), Len(found) <= 2, NEW s, Of(found, s) # {}
    PROVE  /\ LastOf(found, s) \in Of(found, s) /\ LastOf(found, s) \in 1 .. Len(found)
           /\ \A m \in Of(found, s) : m <= LastOf(found, s)
  <1>0. Len(found) \in Nat /\ DOMAIN found = 1 .. Len(found)
    BY LenProperties
  <1>1. Len(found) \in Nat /\ DOMAIN found = 1 .. Len(found) /\ Len(found) \in 0 .. 2
    BY <1>0
  <1>2. Of(found, s) \subseteq {1, 2}
    BY <1>1 DEF Of
  <1>3. \E n \in Of(found, s) : \A m \in Of(found, s) : m <= n
    BY <1>2
  <1>4. LastOf(found, s) \in Of(found, s) /\ \A m \in Of(found, s) : m <= LastOf(found, s)
    BY <1>3 DEF LastOf
  <1> QED BY <1>1, <1>4 DEF Of

\* What is left is shifted, and nothing of it looks like the snapshot.
LEMMA ConsumedIs ==
    ASSUME NEW found \in Seq(Findings), Len(found) <= 2, NEW s
    PROVE  LET left == Consumed(found, s) IN
           /\ left \in Seq(Findings) /\ Len(left) <= 2 /\ Of(left, s) = {}
           /\ Of(found, s) = {} => left = found
           /\ Of(found, s) # {} =>
                /\ Len(left) = Len(found) - LastOf(found, s)
                /\ \A i \in 1 .. Len(left) : left[i] = found[i + LastOf(found, s)]
                /\ \A c : Of(left, c) = {i \in 1 .. Len(left) : i + LastOf(found, s) \in Of(found, c)}
  <1> DEFINE left == Consumed(found, s)
             n == LastOf(found, s)
  <1>0. Len(found) \in Nat /\ DOMAIN found = 1 .. Len(found) /\ \A i \in 1 .. Len(found) : found[i] \in Findings
    BY LenProperties, ElementOfSeq
  <1>1. CASE Of(found, s) = {}
    BY <1>1 DEF Consumed
  <1>2. CASE Of(found, s) # {}
    <2>1. n \in Of(found, s) /\ n \in 1 .. Len(found) /\ \A m \in Of(found, s) : m <= n
      BY <1>2, LastIsLast
    <2>2. left = SubSeq(found, n + 1, Len(found))
      BY <1>2 DEF Consumed
    <2> HIDE DEF n, left
    <2>3. \A i \in (n + 1) .. Len(found) : found[i] \in Findings
      BY <1>0, <2>1
    <2>a. n + 1 \in Int /\ Len(found) \in Int /\ n \in Nat /\ n <= Len(found)
      BY <1>0, <2>1
    <2>b. /\ SubSeq(found, n + 1, Len(found)) \in Seq(Findings)
          /\ Len(SubSeq(found, n + 1, Len(found))) =
               IF n + 1 <= Len(found) THEN Len(found) - (n + 1) + 1 ELSE 0
          /\ \A i \in 1 .. Len(found) - (n + 1) + 1 :
               SubSeq(found, n + 1, Len(found))[i] = found[(n + 1) + i - 1]
      BY <2>a, <2>3, SubSeqProperties
    <2>4. /\ left \in Seq(Findings) /\ Len(left) = Len(found) - n
          /\ \A i \in 1 .. Len(left) : left[i] = found[i + n]
      <3>1. /\ left \in Seq(Findings)
            /\ Len(left) = IF n + 1 <= Len(found) THEN Len(found) - (n + 1) + 1 ELSE 0
            /\ \A i \in 1 .. Len(found) - (n + 1) + 1 : left[i] = found[(n + 1) + i - 1]
        BY <2>b, <2>2
      <3>2. Len(left) = Len(found) - n
        <4>1. Len(left) = IF n + 1 <= Len(found) THEN Len(found) - (n + 1) + 1 ELSE 0
          BY <3>1
        <4>2. CASE n + 1 <= Len(found)
          <5>1. Len(left) = Len(found) - (n + 1) + 1
            BY <4>1, <4>2
          <5> QED BY <1>0, <2>a, <5>1
        <4>3. CASE ~(n + 1 <= Len(found))
          <5>1. Len(left) = 0
            BY <4>1, <4>3
          <5>2. \A a, b \in Nat : a <= b /\ ~(a + 1 <= b) => b = a
            OBVIOUS
          <5>3. Len(found) = n
            BY <1>0, <2>a, <4>3, <5>2
          <5>4. \A a \in Nat : 0 = a - a
            OBVIOUS
          <5> QED BY <2>a, <5>1, <5>3, <5>4
        <4> QED BY <4>2, <4>3
      <3>3. \A i \in 1 .. Len(left) : left[i] = found[i + n]
        <4> SUFFICES ASSUME NEW i \in 1 .. Len(left) PROVE left[i] = found[i + n]
          OBVIOUS
        <4>1. i \in 1 .. Len(found) - (n + 1) + 1 /\ (n + 1) + i - 1 = i + n
          BY <1>0, <2>a, <3>2
        <4> QED BY <3>1, <4>1
      <3> QED BY <3>1, <3>2, <3>3
    <2>5. DOMAIN left = 1 .. Len(left) /\ Len(left) \in Nat
      BY <2>4, LenProperties
    <2>6. \A c : Of(left, c) = {i \in 1 .. Len(left) : i + n \in Of(found, c)}
      <3> SUFFICES ASSUME NEW c
                   PROVE  Of(left, c) = {i \in 1 .. Len(left) : i + n \in Of(found, c)}
        OBVIOUS
      <3>1. \A i \in 1 .. Len(left) : i + n \in DOMAIN found /\ left[i] = found[i + n]
        BY <1>0, <2>1, <2>4, <2>5
      <3> QED BY <2>5, <3>1 DEF Of
    <2>7. Of(left, s) = {}
      BY <1>0, <2>1, <2>4, <2>6
    <2> QED BY <1>0, <1>2, <2>1, <2>4, <2>6, <2>7 DEF n, left
  <1> QED BY <1>1, <1>2

Unread == [content : Reads, act : {0}]

\* The elements of what is still to come.
LEMMA ComingIs ==
    ASSUME NEW cm \in Seq(Unread)
    PROVE  /\ DOMAIN cm = 1 .. Len(cm) /\ Len(cm) \in Nat /\ (cm = <<>> <=> Len(cm) = 0)
           /\ \A i \in DOMAIN cm : cm[i] \in Unread /\ cm[i].content \in Reads
                                   /\ cm[i].content \in Shown /\ cm[i].act = 0
  <1>1. DOMAIN cm = 1 .. Len(cm) /\ Len(cm) \in Nat /\ (cm = <<>> <=> Len(cm) = 0)
    BY LenProperties, EmptySeq
  <1>2. \A i \in DOMAIN cm : cm[i] \in Unread
    BY <1>1, ElementOfSeq
  <1>3. Reads \subseteq Shown
    BY LooksLike DEF Reads, Shown
  <1> QED BY <1>1, <1>2, <1>3 DEF Unread

\* The user has copied, with nothing to come: any client that has no evidence of it fits.
LEMMA BoardCopied ==
    ASSUME NEW lo, NEW ll, NEW found, NEW sn \in Snapshots, sn.act # 0,
           Of(found, sn.content) = {}
    PROVE  Board(lo, ll, found, sn, <<>>)
  <1>1. <<>> \in Seq(Unread) /\ DOMAIN <<>> = {}
    OBVIOUS
  <1> QED BY <1>1 DEF Board, Unread

LEMMA NothingFound == \A s : Of(<<>>, s) = {}
  BY DEF Of

\* The client observes the snapshot and consumes its evidence.
LEMMA BoardConsumed ==
    ASSUME NEW lo, NEW ll, NEW found \in Seq(Findings), Len(found) <= 2, NEW sn, NEW cm,
           Board(lo, ll, found, sn, cm)
    PROVE  Board(sn.content, sn.content, Consumed(found, sn.content), sn, cm)
  <1> DEFINE left == Consumed(found, sn.content)
             n == LastOf(found, sn.content)
  <1>1. sn \in Snapshots /\ cm \in Seq(Unread)
    BY DEF Board, Unread
  <1>2. CASE Of(found, sn.content) = {}
    BY <1>2, ConsumedIs DEF Board
  <1>3. CASE Of(found, sn.content) # {}
    <2>1. /\ Of(left, sn.content) = {} /\ Len(left) = Len(found) - n
          /\ left \in Seq(Findings)
          /\ \A c : Of(left, c) = {i \in 1 .. Len(left) : i + n \in Of(found, c)}
      BY <1>3, ConsumedIs
    <2>2. n \in Of(found, sn.content) /\ n \in 1 .. Len(found)
      BY <1>3, LastIsLast
    <2>3. Len(left) \in Nat /\ Len(found) \in Nat /\ DOMAIN found = 1 .. Len(found)
      BY <2>1, LenProperties
    <2> HIDE DEF left, n
    <2>4. sn.act = 0 /\ sn.content \in Reads
      <3>1. sn.act = 0 /\ sn.content # Nothing
        BY <1>1, <1>3 DEF Board, Of, Same, Snapshots
      <3> QED BY <3>1 DEF Board
    <2>5. \A c, d : Later(found, c, d) => Later(left, c, d)
      <3> SUFFICES ASSUME NEW c, NEW d, Later(found, c, d), NEW i \in Of(left, c)
                   PROVE  \E j \in Of(left, d) : i <= j
        BY DEF Later
      <3>1. i \in 1 .. Len(left) /\ i + n \in Of(found, c)
        BY <2>1
      <3>2. PICK j \in Of(found, d) : i + n <= j
        BY <3>1 DEF Later
      <3>3. j \in 1 .. Len(found)
        BY <2>3 DEF Of
      <3>4. j - n \in 1 .. Len(left) /\ (j - n) + n = j /\ i <= j - n
        BY <2>1, <2>2, <2>3, <3>1, <3>2, <3>3
      <3>5. j - n \in Of(left, d)
        BY <2>1, <3>4
      <3> QED BY <3>4, <3>5
    <2>6. \A i \in DOMAIN cm : Of(left, cm[i].content) = {} => cm[i].content = sn.content
      <3> SUFFICES ASSUME NEW i \in DOMAIN cm, Of(left, cm[i].content) = {}
                   PROVE  cm[i].content = sn.content
        OBVIOUS
      <3>1. PICK m \in Of(found, cm[i].content) : n <= m
        BY <2>2 DEF Board, Later
      <3>2. m \in 1 .. Len(found)
        BY <2>3 DEF Of
      <3>3. m = n
        <4>1. ASSUME m # n PROVE FALSE
          <5>1. m - n \in 1 .. Len(left) /\ (m - n) + n = m
            BY <2>1, <2>2, <2>3, <3>1, <3>2, <4>1
          <5>2. m - n \in Of(left, cm[i].content)
            BY <2>1, <3>1, <5>1
          <5> QED BY <5>2
        <4> QED BY <4>1
      <3>4. Same(found[n].content, sn.content) /\ Same(found[n].content, cm[i].content)
        BY <2>2, <3>1, <3>3 DEF Of
      <3>5. cm[i].content \in Reads
        BY <1>1, ComingIs
      <3> QED BY <2>4, <3>4, <3>5, ReadsAlike
    <2>7. Board(sn.content, sn.content, left, sn, cm)
      BY <2>1, <2>4, <2>5, <2>6 DEF Board
    <2> QED BY <2>7 DEF left
  <1> QED BY <1>2, <1>3

\* The client reads back its last write: no evidence is needed any more.
LEMMA BoardConfirmed ==
    ASSUME NEW lo, NEW ll, NEW found \in Seq(Findings), Len(found) <= 2, NEW sn, NEW cm,
           Board(lo, ll, found, sn, cm), Len(found) \in Of(found, sn.content)
    PROVE  Board(sn.content, sn.content, <<>>, sn, cm)
  <1>1. sn \in Snapshots /\ cm \in Seq(Unread)
    BY DEF Board, Unread
  <1>2. sn.act = 0 /\ sn.content \in Reads
    <2>1. sn.act = 0 /\ sn.content # Nothing
      BY <1>1 DEF Board, Of, Same, Snapshots
    <2> QED BY <2>1 DEF Board
  <1>3. \A i \in DOMAIN cm : cm[i].content = sn.content
    <2> SUFFICES ASSUME NEW i \in DOMAIN cm PROVE cm[i].content = sn.content
      OBVIOUS
    <2>1. PICK m \in Of(found, cm[i].content) : Len(found) <= m
      BY DEF Board, Later
    <2>2. m = Len(found)
      BY <2>1, LenProperties DEF Of
    <2>3. Same(found[m].content, sn.content) /\ Same(found[m].content, cm[i].content)
      BY <2>1, <2>2 DEF Of
    <2> QED BY <1>1, <1>2, <2>3, ComingIs, ReadsAlike
  <1>4. \A c, d : Later(<<>>, c, d)
    BY NothingFound DEF Later
  <1> QED BY <1>1, <1>2, <1>3, <1>4, NothingFound DEF Board, Unread

\* A late write is seen.
LEMMA BoardLands ==
    ASSUME NEW lo, NEW ll, NEW found, NEW sn, NEW cm, Board(lo, ll, found, sn, cm), cm # <<>>
    PROVE  /\ Board(lo, ll, found, Head(cm), Tail(cm))
           /\ Of(found, sn.content) # {} => Of(found, Head(cm).content) # {}
  <1> DEFINE h == Head(cm)
             t == Tail(cm)
  <1>1. sn \in Snapshots /\ cm \in Seq(Unread)
    BY DEF Board, Unread
  <1>2. /\ h = cm[1] /\ 1 \in DOMAIN cm /\ t \in Seq(Unread) /\ Len(t) = Len(cm) - 1
        /\ \A i \in DOMAIN t : t[i] = cm[i + 1] /\ i + 1 \in DOMAIN cm
    <2>1. /\ t \in Seq(Unread) /\ Len(t) = Len(cm) - 1
          /\ \A i \in 1 .. Len(t) : t[i] = cm[i + 1]
      BY <1>1, HeadTailProperties
    <2>2. DOMAIN t = 1 .. Len(t) /\ DOMAIN cm = 1 .. Len(cm) /\ Len(cm) \in Nat /\ Len(cm) # 0
      BY <1>1, <2>1, ComingIs
    <2> QED BY <2>1, <2>2
  <1> HIDE DEF h, t
  <1>3. h \in Snapshots /\ h.act = 0 /\ h.content \in Reads
    <2>1. h \in Unread /\ h.content \in Shown /\ h.act = 0 /\ h.content \in Reads
      BY <1>1, <1>2, ComingIs
    <2> QED BY <2>1 DEF Snapshots, Unread
  <1>4. /\ \A i \in DOMAIN cm : Later(found, h.content, cm[i].content)
        /\ Later(found, sn.content, h.content)
    <2>1. \A i \in DOMAIN cm : 1 <= i
      BY <1>1, ComingIs
    <2> QED BY <1>2, <2>1 DEF Board
  <1>5. \A i, j \in DOMAIN t : i <= j => Later(found, t[i].content, t[j].content)
    <2> SUFFICES ASSUME NEW i \in DOMAIN t, NEW j \in DOMAIN t, i <= j
                 PROVE  Later(found, t[i].content, t[j].content)
      OBVIOUS
    <2>1. i + 1 <= j + 1
      BY <1>2, ComingIs
    <2> QED BY <1>2, <2>1 DEF Board
  <1>6. \A c, d : Later(found, c, d) /\ Of(found, d) = {} => Of(found, c) = {}
    BY DEF Later
  <1>7. Of(found, h.content) = {} => h.content = lo /\ h.content = ll /\ h.content = sn.content
    BY <1>2, <1>4, <1>6 DEF Board
  <1>8. \A i \in DOMAIN t : Of(found, t[i].content) = {} => t[i].content = h.content
    <2> SUFFICES ASSUME NEW i \in DOMAIN t, Of(found, t[i].content) = {}
                 PROVE  t[i].content = h.content
      OBVIOUS
    <2>1. t[i].content = cm[i + 1].content /\ i + 1 \in DOMAIN cm
      BY <1>2
    <2>2. cm[i + 1].content = sn.content /\ Of(found, h.content) = {}
      BY <1>4, <1>6, <2>1 DEF Board
    <2> QED BY <1>7, <2>1, <2>2
  <1>9. Board(lo, ll, found, h, t)
    BY <1>2, <1>3, <1>4, <1>5, <1>7, <1>8 DEF Board, Unread
  <1>10. Of(found, sn.content) # {} => Of(found, h.content) # {}
    BY <1>4, <1>6
  <1> QED BY <1>9, <1>10 DEF h, t

\* What writing adds to the evidence: an entry at the end, or nothing if it is there.
Grown(found, more, tokens, c) ==
    /\ more \in Seq(Findings) /\ Len(more) \in {1, 2} /\ Tokens(more, tokens)
    /\ \A i \in DOMAIN found : i \in DOMAIN more /\ more[i] = found[i]
    /\ more[Len(more)] = [token |-> tokens, content |-> c]
    /\ more = found \/ Len(more) = Len(found) + 1

LEMMA OthersAdded ==
    ASSUME NEW found, NEW tokens, NEW c \in Contents, Tokens(found, tokens),
           \A i \in DOMAIN found : found[i].token = tokens => found[i].content = c,
           Len(found) < 2 \/ \E i \in DOMAIN found : found[i].token = tokens
    PROVE  Grown(found, Append(Others(found, tokens), [token |-> tokens, content |-> c]),
                 tokens, c)
  <1> DEFINE new == [token |-> tokens, content |-> c]
             own == {i \in DOMAIN found : found[i].token = tokens}
             n == Len(found)
  <1>1. /\ found \in Seq(Findings) /\ n \in Nat /\ n <= 2 /\ tokens \in Nat
        /\ DOMAIN found = 1 .. n /\ new \in Findings
    BY LenProperties DEF Tokens, Findings
  <1>2. \A i \in DOMAIN found : found[i] \in Findings
    BY <1>1, ElementOfSeq
  <1>3. CASE own = {}
    <2>1. Others(found, tokens) = found /\ n < 2
      BY <1>3 DEF Others
    <2> DEFINE more == Append(found, new)
    <2>2. /\ more \in Seq(Findings) /\ Len(more) = n + 1 /\ \A i \in 1 .. n : more[i] = found[i]
          /\ more[n + 1] = new
      BY <1>1, AppendProperties
    <2>3. DOMAIN more = 1 .. (n + 1)
      BY <2>2, LenProperties
    <2> HIDE DEF more
    <2>4. n + 1 \in {1, 2} /\ \A i \in DOMAIN found : i \in DOMAIN more /\ more[i] = found[i]
      BY <1>1, <2>1, <2>2, <2>3
    <2>5. \A i \in 1 .. n : more[i].token < tokens /\ more[i].token \in Nat
      <3> SUFFICES ASSUME NEW i \in 1 .. n PROVE more[i].token < tokens /\ more[i].token \in Nat
        OBVIOUS
      <3>1. found[i].token <= tokens /\ found[i].token # tokens /\ found[i].token \in Nat
        BY <1>1, <1>2, <1>3 DEF Tokens, Findings
      <3> QED BY <1>1, <2>2, <3>1
    <2>6. new.token = tokens
      OBVIOUS
    <2>7. \A i \in DOMAIN more : i \in 1 .. n \/ i = n + 1
      BY <1>1, <2>3
    <2>8. \A i \in DOMAIN more : more[i].token <= tokens
      BY <1>1, <2>2, <2>5, <2>6, <2>7
    <2>9. \A i, j \in DOMAIN more : i < j => more[i].token < more[j].token
      <3> SUFFICES ASSUME NEW i \in DOMAIN more, NEW j \in DOMAIN more, i < j
                   PROVE  more[i].token < more[j].token
        OBVIOUS
      <3>1. i \in 1 .. n
        <4>1. i # n + 1
          BY <1>1, <2>7
        <4> QED BY <2>7, <4>1
      <3>2. CASE j = n + 1
        BY <2>2, <2>5, <2>6, <3>1, <3>2
      <3>3. CASE j \in 1 .. n
        BY <1>1, <2>2, <3>1, <3>3 DEF Tokens
      <3> QED BY <2>7, <3>2, <3>3
    <2>10. Tokens(more, tokens)
      BY <1>1, <2>1, <2>2, <2>8, <2>9 DEF Tokens
    <2>11. Grown(found, more, tokens, c)
      BY <2>2, <2>4, <2>10 DEF Grown
    <2> QED BY <2>1, <2>11 DEF more
  <1>4. CASE own # {}
    <2> DEFINE m == CHOOSE i \in own : TRUE
    <2>1. m \in own
      BY <1>4
    <2>2. Others(found, tokens) = SubSeq(found, 1, m - 1) \o SubSeq(found, m + 1, n)
      BY <1>4 DEF Others
    <2> HIDE DEF m
    <2>3. m \in 1 .. n /\ found[m].token = tokens /\ found[m].content = c
      BY <1>1, <2>1
    <2>4. m = n
      <3>1. ASSUME m # n PROVE FALSE
        <4>a. m \in Nat /\ m >= 1 /\ m <= n
          BY <1>1, <2>3
        <4>b. m < n /\ n >= 1
          BY <1>1, <4>a, <3>1
        <4>1. n \in DOMAIN found /\ m \in DOMAIN found /\ m < n
          BY <1>1, <2>3, <4>b
        <4>2. tokens < found[n].token /\ found[n].token <= tokens /\ found[n].token \in Nat
          BY <1>1, <1>2, <2>3, <4>1 DEF Tokens, Findings
        <4> QED BY <1>1, <4>2
      <3> QED BY <3>1
    <2>5. n \in 1 .. n
      BY <2>3, <2>4
    <2>6. found[n] = new
      <3>1. found[n] \in Findings
        BY <1>1, <1>2, <2>5
      <3> QED BY <2>3, <2>4, <3>1 DEF Findings
    <2>7. SubSeq(found, n + 1, n) = <<>>
      BY <1>1, SubSeqEmpty
    <2>8. SubSeq(found, 1, n - 1) \in Seq(Findings)
      <3>1. \A i \in 1 .. (n - 1) : found[i] \in Findings
        BY <1>1, <1>2
      <3>2. 1 \in Int /\ n - 1 \in Int
        BY <1>1
      <3> QED BY <3>1, <3>2, SubSeqProperties
    <2>9. Others(found, tokens) = SubSeq(found, 1, n - 1)
      BY <2>2, <2>4, <2>7, <2>8, ConcatEmptySeq
    <2>10. Append(Others(found, tokens), new) = found
      <3>1. SubSeq(found, 1, n) = SubSeq(found, 1, n - 1) \o <<found[n]>>
        <4>1. 1 \in 1 .. Len(found) /\ n \in 1 .. Len(found)
          BY <1>1, <2>5
        <4> QED BY <1>1, <4>1, SubSeqRecursiveSecond
      <3>2. SubSeq(found, 1, n) = found
        BY <1>1, SubSeqFull
      <3>3. Append(SubSeq(found, 1, n - 1), new) = SubSeq(found, 1, n - 1) \o <<new>>
        BY <1>1, <2>8, AppendIsConcat
      <3> QED BY <2>6, <2>9, <3>1, <3>2, <3>3
    <2>11. n \in {1, 2}
      BY <1>1, <2>5
    <2>12. Grown(found, found, tokens, c)
      BY <1>1, <2>6, <2>11 DEF Grown
    <2> QED BY <2>10, <2>12
  <1> QED BY <1>3, <1>4

\* There is evidence of what was written, and of all there was before.
LEMMA GrownFinds ==
    ASSUME NEW found, NEW more, NEW tokens, NEW c \in Contents, Grown(found, more, tokens, c)
    PROVE  /\ Len(more) \in Of(more, ReadsAs[c])
           /\ \A s : Of(found, s) \subseteq Of(more, s)
           /\ \A s, i : i \in Of(more, s) =>
                i \in 1 .. Len(more) /\ (i \in Of(found, s) \/ (i = Len(more) /\ Same(c, s)))
  <1>0. more \in Seq(Findings) /\ Len(more) \in {1, 2} /\ more[Len(more)].content = c
    BY DEF Grown
  <1>1. DOMAIN more = 1 .. Len(more) /\ Len(more) \in Nat /\ Len(more) \in DOMAIN more
    <2>1. DOMAIN more = 1 .. Len(more)
      BY <1>0, LenProperties
    <2> QED BY <1>0, <2>1
  <1>2. Len(more) \in Of(more, ReadsAs[c])
    <2>1. Same(c, ReadsAs[c])
      BY LooksLike
    <2> QED BY <1>0, <1>1, <2>1 DEF Of
  <1>3. \A s : Of(found, s) \subseteq Of(more, s)
    BY DEF Grown, Of
  <1>4. ASSUME NEW s, NEW i, i \in Of(more, s)
        PROVE  i \in 1 .. Len(more) /\ (i \in Of(found, s) \/ (i = Len(more) /\ Same(c, s)))
    <2>1. i \in 1 .. Len(more) /\ Same(more[i].content, s)
      BY <1>1, <1>4 DEF Of
    <2>2. CASE i = Len(more)
      BY <2>1, <2>2 DEF Grown
    <2>3. CASE i # Len(more)
      <3>1. CASE more = found
        BY <1>4, <2>1, <3>1
      <3>2. CASE Len(more) = Len(found) + 1
        <4>1. i \in 1 .. Len(found)
          BY <1>1, <2>1, <2>3, <3>2 DEF Grown
        <4> QED BY <2>1, <4>1 DEF Grown, Of
      <3> QED BY <3>1, <3>2 DEF Grown
    <2> QED BY <2>1, <2>2, <2>3
  <1> QED BY <1>2, <1>3, <1>4

\* A write that is seen at once.
LEMMA BoardWritten ==
    ASSUME NEW lo, NEW ll, NEW found, NEW more, NEW tokens, NEW c \in Contents,
           Grown(found, more, tokens, c)
    PROVE  Board(lo, ll, more, Written(ReadsAs[c]), <<>>)
  <1>1. Of(more, ReadsAs[c]) # {}
    BY GrownFinds
  <1>2. ReadsAs[c] \in Reads /\ ReadsAs[c] \in Shown
    BY LooksLike DEF Shown
  <1>3. <<>> \in Seq(Unread) /\ DOMAIN <<>> = {}
    OBVIOUS
  <1>4. /\ Written(ReadsAs[c]) \in Snapshots /\ Written(ReadsAs[c]).act = 0
        /\ Written(ReadsAs[c]).content = ReadsAs[c]
    BY <1>2 DEF Written, Snapshots
  <1> QED BY <1>1, <1>2, <1>3, <1>4 DEF Board, Unread

\* A write that is late, but not after a copy that was not found; and what is shown looks
\* like it only if it is the client's last write.
LEMMA BoardLate ==
    ASSUME NEW lo, NEW ll, NEW found, NEW more, NEW tokens, NEW c \in Contents, NEW sn, NEW cm,
           Grown(found, more, tokens, c), Board(lo, ll, found, sn, cm),
           found \in Seq(Findings), sn.act # 0 => sn.content = lo,
           Same(c, sn.content) => sn.act = 0 /\ cm = <<>>
    PROVE  Board(lo, ll, more, sn, Append(cm, Written(ReadsAs[c])))
  <1> DEFINE p == Written(ReadsAs[c])
             next == Append(cm, p)
             n == Len(cm)
  <1>1. sn \in Snapshots /\ cm \in Seq(Unread)
    BY DEF Board, Unread
  <1>2. p \in Unread /\ p.content = ReadsAs[c]
    BY LooksLike DEF Written, Unread
  <1> HIDE DEF p
  <1>3. /\ next \in Seq(Unread) /\ n \in Nat /\ DOMAIN next = 1 .. (n + 1) /\ DOMAIN cm = 1 .. n
        /\ next[n + 1] = p /\ \A i \in DOMAIN cm : next[i] = cm[i]
    <2>1. /\ next \in Seq(Unread) /\ Len(next) = n + 1 /\ next[n + 1] = p
          /\ \A i \in 1 .. n : next[i] = cm[i]
      BY <1>1, <1>2, AppendProperties
    <2>2. DOMAIN next = 1 .. Len(next) /\ DOMAIN cm = 1 .. n /\ n \in Nat
      BY <1>1, <2>1, ComingIs
    <2> QED BY <2>1, <2>2
  <1> HIDE DEF next, n
  <1>4. \A i \in DOMAIN next : (i = n + 1 /\ next[i] = p) \/ (i \in DOMAIN cm /\ next[i] = cm[i])
    BY <1>3
  <1>5. /\ Len(more) \in Of(more, p.content)
        /\ \A s : Of(found, s) \subseteq Of(more, s)
        /\ \A s, i : i \in Of(more, s) =>
             i \in 1 .. Len(more) /\ (i \in Of(found, s) \/ (i = Len(more) /\ Same(c, s)))
    BY <1>2, GrownFinds
  <1>6. \A s : Later(more, s, p.content)
    <2>1. \A s : \A i \in Of(more, s) : i <= Len(more)
      BY <1>5
    <2> QED BY <1>5, <2>1 DEF Later
  <1>7. ~Same(c, sn.content) => Of(more, sn.content) = Of(found, sn.content)
    <2> SUFFICES ASSUME ~Same(c, sn.content)
                 PROVE  Of(more, sn.content) = Of(found, sn.content)
      OBVIOUS
    <2>1. \A i \in Of(more, sn.content) : i \in Of(found, sn.content)
      BY <1>5
    <2> QED BY <1>5, <2>1
  <1>8. \A i \in DOMAIN cm : Later(more, sn.content, cm[i].content)
    <2>1. CASE Same(c, sn.content)
      BY <1>3, <2>1
    <2>2. CASE ~Same(c, sn.content)
      BY <1>5, <1>7, <2>2 DEF Board, Later
    <2> QED BY <2>1, <2>2
  <1>9. \A i \in DOMAIN cm : Of(more, cm[i].content) = {} =>
            sn.act = 0 /\ cm[i].content = sn.content
    <2>1. \A s : Of(more, s) = {} => Of(found, s) = {}
      BY <1>5
    <2> QED BY <2>1 DEF Board
  <1>10. \A i, j \in DOMAIN cm : i <= j => Later(more, cm[i].content, cm[j].content)
    <2> SUFFICES ASSUME NEW i \in DOMAIN cm, NEW j \in DOMAIN cm, i <= j,
                        NEW m \in Of(more, cm[i].content)
                 PROVE  \E l \in Of(more, cm[j].content) : m <= l
      BY DEF Later
    <2>1. Later(found, cm[i].content, cm[j].content)
      BY DEF Board
    <2>2. CASE m \in Of(found, cm[i].content)
      BY <1>5, <2>1, <2>2 DEF Later
    <2>3. CASE m \notin Of(found, cm[i].content)
      <3>1. m = Len(more) /\ Same(c, cm[i].content) /\ Len(more) \in Nat
        BY <1>5, <2>3
      <3>2. Same(c, cm[j].content)
        <4>1. PICK a \in Of(found, cm[i].content) : TRUE
          BY <3>1 DEF Board
        <4>2. PICK b \in Of(found, cm[j].content) : a <= b
          BY <2>1 DEF Later
        <4>3. cm[i].content \in Reads /\ cm[j].content \in Reads
          BY <1>1, ComingIs
        <4>4. CASE a = b
          <5>1. Same(found[a].content, cm[i].content) /\ Same(found[a].content, cm[j].content)
            BY <4>1, <4>2, <4>4 DEF Of
          <5> QED BY <3>1, <4>3, <5>1, ReadsAlike
        <4>5. CASE a # b
          <5>1. m \in Of(more, cm[i].content) /\ found # more
            BY <2>3
          <5>2. Len(more) = Len(found) + 1 /\ Len(more) \in {1, 2}
            BY <5>1 DEF Grown
          <5>3. a \in 1 .. Len(found) /\ b \in 1 .. Len(found)
            BY <4>1, <4>2, LenProperties DEF Of
          <5>4. Len(found) \in Nat
            BY LenProperties
          <5> QED BY <4>2, <4>5, <5>2, <5>3, <5>4
        <4> QED BY <4>4, <4>5
      <3>3. Len(more) \in Of(more, cm[j].content)
        <4>1. more \in Seq(Findings) /\ Len(more) \in {1, 2} /\ more[Len(more)].content = c
          BY DEF Grown
        <4>2. Len(more) \in DOMAIN more
          BY <1>5 DEF Of
        <4> QED BY <3>2, <4>1, <4>2 DEF Of
      <3> QED BY <3>1, <3>3
    <2> QED BY <2>2, <2>3
  <1>11. \A i, j \in DOMAIN next : i <= j => Later(more, next[i].content, next[j].content)
    <2> SUFFICES ASSUME NEW i \in DOMAIN next, NEW j \in DOMAIN next, i <= j
                 PROVE  Later(more, next[i].content, next[j].content)
      OBVIOUS
    <2>1. CASE j = n + 1
      BY <1>3, <1>6, <2>1
    <2>2. CASE j # n + 1
      <3>1. i \in DOMAIN cm /\ j \in DOMAIN cm
        <4>1. j \in 1 .. n /\ i \in 1 .. (n + 1)
          BY <1>3, <1>4, <2>2
        <4> QED BY <1>3, <4>1
      <3> QED BY <1>3, <1>10, <3>1
    <2> QED BY <2>1, <2>2
  <1>12. \A i \in DOMAIN next : Later(more, sn.content, next[i].content)
    BY <1>4, <1>6, <1>8
  <1>13. \A i \in DOMAIN next : Of(more, next[i].content) = {} =>
             sn.act = 0 /\ next[i].content = sn.content
    BY <1>4, <1>5, <1>9
  <1>14. /\ (sn.act = 0 /\ Of(more, sn.content) = {}) => sn.content = lo /\ sn.content = ll
         /\ sn.act # 0 => Of(more, sn.content) = {} /\ sn.content = lo
    <2>1. Of(more, sn.content) = {} => Of(found, sn.content) = {}
      BY <1>5
    <2>2. sn.act # 0 => Of(more, sn.content) = Of(found, sn.content)
      BY <1>7
    <2> QED BY <2>1, <2>2 DEF Board
  <1>15. Board(lo, ll, more, sn, next)
    BY <1>1, <1>3, <1>11, <1>12, <1>13, <1>14 DEF Board, Unread
  <1> QED BY <1>15 DEF next, p

\* A token of the evidence is the last one.
LEMMA LastToken ==
    ASSUME NEW found, NEW tokens, Tokens(found, tokens), NEW i \in DOMAIN found,
           found[i].token = tokens
    PROVE  i = Len(found) /\ found \in Seq(Findings)
  <1>1. found \in Seq(Findings) /\ tokens \in Nat /\ Len(found) \in Nat /\ DOMAIN found = 1 .. Len(found)
    BY LenProperties DEF Tokens
  <1>2. ASSUME i # Len(found) PROVE FALSE
    <2>1. i < Len(found) /\ Len(found) \in DOMAIN found
      BY <1>1, <1>2
    <2>2. found[Len(found)] \in Findings
      BY <1>1, <2>1, ElementOfSeq
    <2>3. tokens < found[Len(found)].token /\ found[Len(found)].token <= tokens
      BY <2>1 DEF Tokens
    <2> QED BY <1>1, <2>2, <2>3 DEF Findings
  <1> QED BY <1>1, <1>2

(***************************************************************************)
(* The methods.                                                             *)
(***************************************************************************)

\* Everything but the write, and but the poll that waits for its source.
SameButWrite(q, k) ==
    /\ q.lastLocal = k.lastLocal /\ q.lastObserved = k.lastObserved
    /\ q.baseline = k.baseline /\ q.guard = k.guard /\ q.waiting = k.waiting
    /\ q.event = k.event /\ q.submitted = k.submitted /\ q.evidence = k.evidence
    /\ q.polling = k.polling /\ q.stopped = k.stopped /\ q.ids = k.ids /\ q.tokens = k.tokens

SameButPolling(q, k) ==
    /\ q.lastLocal = k.lastLocal /\ q.lastObserved = k.lastObserved
    /\ q.baseline = k.baseline /\ q.guard = k.guard /\ q.waiting = k.waiting
    /\ q.event = k.event /\ q.submitted = k.submitted /\ q.evidence = k.evidence
    /\ q.write = k.write /\ q.stopped = k.stopped /\ q.ids = k.ids /\ q.tokens = k.tokens

LEMMA WriteSet ==
    ASSUME NEW k \in Clients, NEW w \in Writes \cup {None}
    PROVE  LET q == [k EXCEPT !.write = w]
           IN  q \in Clients /\ q.write = w /\ SameButWrite(q, k)
  BY DEF Clients, SameButWrite

LEMMA OutdatedIs ==
    ASSUME NEW k \in Clients
    PROVE  LET q == Outdated(k) IN
           /\ q \in Clients /\ SameButPolling(q, k)
           /\ q.polling = None <=> k.polling = None
           /\ q.polling # None => q.polling.stale
  <1> DEFINE q == Outdated(k)
  <1>1. CASE k.polling = None
    BY <1>1 DEF Outdated, SameButPolling
  <1>2. CASE k.polling # None
    <2> DEFINE p == [k.polling EXCEPT !.stale = TRUE]
    <2>1. k.polling \in Polls
      BY <1>2 DEF Clients
    <2>2. p \in Polls /\ p.stale = TRUE
      BY <2>1 DEF Polls
    <2>3. p # None
      BY <2>2, NoneIsNone
    <2>4. q = [k EXCEPT !.polling = p]
      BY <1>2, <2>1 DEF Outdated, Clients, Polls
    <2> HIDE DEF p
    <2>5. q \in Clients /\ SameButPolling(q, k) /\ q.polling = p
      <3> HIDE DEF q
      <3> QED BY <2>2, <2>4 DEF Clients, SameButPolling
    <2> QED BY <1>2, <2>2, <2>3, <2>5
  <1> QED BY <1>1, <1>2

LEMMA CancelIs ==
    ASSUME NEW k \in Clients
    PROVE  LET q == Cancel(k) IN q \in Clients /\ q.write = None /\ SameButWrite(q, k)
  BY WriteSet DEF Cancel

\* A change of what the invariant does not look at.
LEMMA SoundSame ==
    ASSUME NEW k, NEW q \in Clients, NEW sn, NEW cm, Sound(k, sn, cm),
           q.lastLocal = k.lastLocal, q.lastObserved = k.lastObserved,
           q.baseline = k.baseline, q.guard = k.guard, q.event = k.event,
           q.evidence = k.evidence, q.write = k.write, q.polling = k.polling,
           q.stopped = k.stopped, q.tokens = k.tokens
    PROVE  Sound(q, sn, cm)
  BY DEF Sound, Proven, InHand, Compared, Pending

LEMMA OutdatedSound ==
    ASSUME NEW k, NEW sn, NEW cm, Sound(k, sn, cm)
    PROVE  Sound(Outdated(k), sn, cm) /\ Outdated(k).stopped = k.stopped
  <1>1. k \in Clients
    BY DEF Sound
  <1> DEFINE q == Outdated(k)
  <1>2. /\ q \in Clients /\ SameButPolling(q, k)
        /\ q.polling = None <=> k.polling = None
        /\ q.polling # None => q.polling.stale
    BY <1>1, OutdatedIs
  <1> HIDE DEF q
  <1>3. Proven(q) /\ Compared(q, sn, cm)
        /\ Board(q.lastObserved, q.lastLocal, q.evidence, sn, cm)
    BY <1>2 DEF Sound, Proven, Compared, Pending, SameButPolling
  <1>4. InHand(q)
    BY <1>2 DEF Sound, InHand, SameButPolling
  <1>5. Sound(q, sn, cm) /\ q.stopped = k.stopped
    BY <1>2, <1>3, <1>4 DEF Sound, SameButPolling
  <1> QED BY <1>5 DEF q

LEMMA CancelSound ==
    ASSUME NEW k, NEW sn, NEW cm, Sound(k, sn, cm)
    PROVE  Sound(Cancel(k), sn, cm) /\ Cancel(k).stopped = k.stopped
  <1>1. k \in Clients
    BY DEF Sound
  <1> DEFINE q == Cancel(k)
  <1>2. q \in Clients /\ q.write = None /\ SameButWrite(q, k)
    BY <1>1, CancelIs
  <1> HIDE DEF q
  <1>3. Sound(q, sn, cm) /\ q.stopped = k.stopped
    BY <1>2 DEF Sound, Proven, InHand, Compared, Pending, SameButWrite
  <1> QED BY <1>3 DEF q

\* A write with the same content, token, observation and evidence.
LEMMA RewriteSound ==
    ASSUME NEW k, NEW sn, NEW cm, Sound(k, sn, cm), k.write # None, NEW w \in Writes,
           w.content = k.write.content, w.token = k.write.token,
           w.status = "pending" =>
              /\ k.write.status = "pending" /\ w.hasWritten = k.write.hasWritten
              /\ w.observed = k.write.observed /\ w.hasObservation = k.write.hasObservation
    PROVE  Sound([k EXCEPT !.write = w], sn, cm)
  <1>1. k \in Clients
    BY DEF Sound
  <1> DEFINE q == [k EXCEPT !.write = w]
  <1>2. q \in Clients /\ q.write = w /\ SameButWrite(q, k)
    BY <1>1, WriteSet
  <1> HIDE DEF q
  <1>3. Pending(q) => Pending(k)
    BY <1>2 DEF Pending
  <1>4. Proven(q)
    BY <1>2, <1>3 DEF Sound, Proven, SameButWrite, Pending
  <1>5. InHand(q) /\ Compared(q, sn, cm)
    <2>1. k.stopped = FALSE
      BY <1>1 DEF Sound, InHand, Clients
    <2> QED BY <1>2, <1>3, <2>1 DEF Sound, InHand, Compared, SameButWrite, Pending
  <1>6. Sound(q, sn, cm)
    BY <1>2, <1>4, <1>5 DEF Sound, SameButWrite
  <1> QED BY <1>6 DEF q

\* scheduleClipboardWriteRetry
LEMMA RetrySound ==
    ASSUME NEW k, NEW sn, NEW cm, Sound(k, sn, cm), Pending(k)
    PROVE  Sound(Retry(k), sn, cm) /\ Retry(k).stopped = k.stopped
  <1>1. k \in Clients /\ k.write # None /\ k.write \in Writes
    BY DEF Sound, Clients, Pending
  <1> DEFINE f == [k.write EXCEPT !.status = "failed", !.timer = FALSE]
             t == [k.write EXCEPT !.timer = TRUE]
  <1>2. /\ f \in Writes /\ f.content = k.write.content /\ f.token = k.write.token
        /\ f.status = "failed"
    BY <1>1 DEF Writes
  <1>3. /\ t \in Writes /\ t.content = k.write.content /\ t.token = k.write.token
        /\ t.status = k.write.status /\ t.hasWritten = k.write.hasWritten
        /\ t.observed = k.write.observed /\ t.hasObservation = k.write.hasObservation
    BY <1>1 DEF Writes
  <1>4. Retry(k) = [k EXCEPT !.write = f] \/ Retry(k) = [k EXCEPT !.write = t]
    BY <1>1 DEF Retry, Clients, Writes
  <1> HIDE DEF f, t
  <1>5. Sound([k EXCEPT !.write = f], sn, cm)
    BY <1>1, <1>2, RewriteSound
  <1>6. Sound([k EXCEPT !.write = t], sn, cm)
    BY <1>1, <1>3, RewriteSound DEF Pending
  <1>7. [k EXCEPT !.write = f].stopped = k.stopped /\ [k EXCEPT !.write = t].stopped = k.stopped
    BY <1>1 DEF Clients
  <1> QED BY <1>4, <1>5, <1>6, <1>7

\* What is on the clipboard and is not known is the user's, and nothing is to come.
LEMMA UnknownIsCopy ==
    ASSUME NEW lo, NEW ll, NEW found, NEW sn, NEW cm, Board(lo, ll, found, sn, cm),
           sn.content # lo, Of(found, sn.content) = {}
    PROVE  sn.act # 0 /\ cm = <<>>
  BY DEF Board

\* observeNewLocalSnapshot
LEMMA NewLocalIs ==
    ASSUME NEW k \in Clients, seen \in Snapshots, seen.act # 0
    PROVE  LET s == seen.content
               q == NewLocal(k, s)
           IN  /\ q \in Clients /\ q.lastObserved = s /\ q.lastLocal = Nothing
               /\ q.evidence = <<>> /\ q.write = None /\ q.guard = {} /\ q.waiting = {}
               /\ s = Nothing => q.event = None
               /\ s # Nothing => q.event \in Copies /\ q.event.content = s
               /\ q.event # None => q.event.act = seen.act /\ q.event.id = q.ids
               /\ q.ids = k.ids + 1 /\ q.submitted = 0
               /\ q.polling # None => q.polling.stale
               /\ q.polling = None <=> k.polling = None
               /\ q.baseline = k.baseline /\ q.stopped = k.stopped /\ q.tokens = k.tokens
  <1> DEFINE s == seen.content
             q == NewLocal(k, s)
             o == Outdated(k)
             c == Cancel(o)
             e == IF s = Nothing THEN None ELSE Copied(k, s, seen.act, "none")
  <1>1. /\ o \in Clients /\ SameButPolling(o, k) /\ (o.polling = None <=> k.polling = None)
        /\ o.polling # None => o.polling.stale
    BY OutdatedIs
  <1> HIDE DEF o
  <1>2. c \in Clients /\ c.write = None /\ SameButWrite(c, o)
    BY <1>1, CancelIs
  <1>3. q = [c EXCEPT !.evidence = <<>>, !.submitted = 0, !.lastLocal = Nothing, !.guard = {},
                      !.lastObserved = s, !.waiting = {}, !.event = e, !.ids = k.ids + 1]
    BY DEF NewLocal, o
  <1> HIDE DEF c
  <1>4. k.ids + 1 \in Nat /\ s \in Shown /\ seen.act \in Nat \ {0}
    BY DEF Clients, Snapshots
  <1>5. /\ e \in Copies \cup {None} /\ (s = Nothing => e = None)
        /\ s # Nothing => e \in Copies /\ e.content = s
        /\ e # None => e.act = seen.act /\ e.id = k.ids + 1
    BY <1>4 DEF Copied, Copies, Shown
  <1> HIDE DEF e, s
  <1>6. <<>> \in Seq(Findings) /\ Nothing \in Shown
    BY DEF Shown
  <1>7. /\ q \in Clients /\ q.lastObserved = s /\ q.lastLocal = Nothing
        /\ q.evidence = <<>> /\ q.write = None /\ q.guard = {} /\ q.waiting = {} /\ q.event = e
        /\ q.polling = c.polling /\ q.baseline = c.baseline /\ q.stopped = c.stopped
        /\ q.tokens = c.tokens /\ q.ids = k.ids + 1 /\ q.submitted = 0
    <2> HIDE DEF q
    <2> QED BY <1>2, <1>3, <1>4, <1>5, <1>6 DEF Clients
  <1>8. /\ c.polling = o.polling /\ c.baseline = k.baseline /\ c.stopped = k.stopped
        /\ c.tokens = k.tokens
    BY <1>1, <1>2 DEF SameButWrite, SameButPolling
  <1> HIDE DEF q
  <1>9. /\ q \in Clients /\ q.lastObserved = s /\ q.lastLocal = Nothing
        /\ q.evidence = <<>> /\ q.write = None /\ q.guard = {} /\ q.waiting = {}
        /\ s = Nothing => q.event = None
        /\ s # Nothing => q.event \in Copies /\ q.event.content = s
        /\ q.event # None => q.event.act = seen.act /\ q.event.id = q.ids
        /\ q.ids = k.ids + 1 /\ q.submitted = 0
        /\ q.polling # None => q.polling.stale
        /\ q.polling = None <=> k.polling = None
        /\ q.baseline = k.baseline /\ q.stopped = k.stopped /\ q.tokens = k.tokens
    BY <1>1, <1>5, <1>7, <1>8
  <1> QED BY <1>9 DEF q, s

\* It does not matter to it what evidence there was.
LEMMA NewLocalForgets ==
    ASSUME NEW k \in Clients, NEW s
    PROVE  NewLocal([k EXCEPT !.evidence = <<>>], s) = NewLocal(k, s)
  <1> DEFINE e == [k EXCEPT !.evidence = <<>>]
             kept == [k EXCEPT !.polling.stale = TRUE]
             fresh == IF s = Nothing THEN None ELSE Copied(k, s, seen.act, "none")
             New1(c) == [c EXCEPT !.evidence = <<>>, !.submitted = 0, !.lastLocal = Nothing,
                                  !.guard = {}, !.lastObserved = s, !.waiting = {},
                                  !.event = fresh, !.ids = k.ids + 1]
  <1>1. e.ids = k.ids /\ e.polling = k.polling
    BY DEF Clients
  <1>2. NewLocal(k, s) = New1(Cancel(Outdated(k)))
    BY DEF NewLocal
  <1>3. NewLocal(e, s) = New1(Cancel(Outdated(e)))
    BY <1>1 DEF NewLocal, Copied
  <1> DEFINE a == Cancel(Outdated(e))
             b == Cancel(Outdated(k))
  <1>4. a = [b EXCEPT !.evidence = <<>>]
    BY DEF Cancel, Outdated, Clients
  <1>5. b \in Clients
    BY OutdatedIs, CancelIs
  <1> HIDE DEF a, b, fresh
  <1>6. New1(a) = New1(b)
    BY <1>4, <1>5 DEF Clients
  <1> QED BY <1>2, <1>3, <1>6 DEF a, b

LEMMA NewLocalSound ==
    ASSUME NEW k \in Clients, ~k.stopped, seen \in Snapshots, seen.act # 0, coming = <<>>
    PROVE  Sound(NewLocal(k, seen.content), seen, coming)
           /\ ~NewLocal(k, seen.content).stopped
  <1> DEFINE s == seen.content
             q == NewLocal(k, s)
  <1>1. /\ q \in Clients /\ q.lastObserved = s /\ q.lastLocal = Nothing
        /\ q.evidence = <<>> /\ q.write = None /\ q.guard = {} /\ q.waiting = {}
        /\ s = Nothing => q.event = None
        /\ s # Nothing => q.event \in Copies /\ q.event.content = s
        /\ q.polling # None => q.polling.stale
        /\ q.baseline = k.baseline /\ q.stopped = k.stopped /\ q.tokens = k.tokens
    BY NewLocalIs
  <1> HIDE DEF q
  <1>2. Proven(q)
    <2>1. <<>> \in Seq(Findings) /\ Len(<<>>) = 0 /\ DOMAIN <<>> = {} /\ q.tokens \in Nat
      BY <1>1 DEF Clients
    <2> QED BY <1>1, <2>1 DEF Proven, Tokens, Pending
  <1>3. InHand(q)
    BY <1>1, NoneIsNone DEF InHand
  <1>4. Board(q.lastObserved, q.lastLocal, q.evidence, seen, coming)
    BY <1>1, BoardCopied, NothingFound
  <1>5. Compared(q, seen, coming)
    BY <1>1 DEF Compared, Pending
  <1>6. Sound(q, seen, coming) /\ ~q.stopped
    BY <1>1, <1>2, <1>3, <1>4, <1>5 DEF Sound
  <1> QED BY <1>6 DEF q

\* Evidence of a write that is not read back is not consumed with what looks otherwise.
LEMMA ConsumedProves ==
    ASSUME NEW found, NEW tokens, Tokens(found, tokens), NEW s
    PROVE  /\ Tokens(Consumed(found, s), tokens)
           /\ \A i \in DOMAIN Consumed(found, s) : \E j \in DOMAIN found :
                Consumed(found, s)[i] = found[j]
           /\ \A i \in DOMAIN found :
                (found[i].token = tokens /\ ~Same(found[i].content, s)) =>
                  \E j \in DOMAIN Consumed(found, s) : Consumed(found, s)[j].token = tokens
  <1> DEFINE left == Consumed(found, s)
             n == LastOf(found, s)
  <1>1. /\ found \in Seq(Findings) /\ Len(found) <= 2 /\ tokens \in Nat
        /\ Len(found) \in Nat /\ DOMAIN found = 1 .. Len(found)
    BY LenProperties DEF Tokens
  <1>2. left \in Seq(Findings) /\ Len(left) <= 2 /\ Len(left) \in Nat /\ DOMAIN left = 1 .. Len(left)
    BY <1>1, ConsumedIs, LenProperties
  <1>3. CASE Of(found, s) = {}
    <2>1. left = found
      BY <1>1, <1>3, ConsumedIs
    <2> QED BY <2>1
  <1>4. CASE Of(found, s) # {}
    <2>1. /\ Len(left) = Len(found) - n /\ \A i \in 1 .. Len(left) : left[i] = found[i + n]
          /\ n \in Of(found, s) /\ n \in 1 .. Len(found)
      BY <1>1, <1>4, ConsumedIs, LastIsLast
    <2> HIDE DEF left, n
    <2>2. \A i \in DOMAIN left : i + n \in DOMAIN found /\ left[i] = found[i + n]
      BY <1>1, <1>2, <2>1
    <2>3. \A i \in DOMAIN left : left[i].token <= tokens
      BY <2>2 DEF Tokens
    <2>4. \A i, j \in DOMAIN left : i < j => left[i].token < left[j].token
      <3> SUFFICES ASSUME NEW i \in DOMAIN left, NEW j \in DOMAIN left, i < j
                   PROVE  left[i].token < left[j].token
        OBVIOUS
      <3>1. i + n < j + n
        BY <1>1, <1>2, <2>1
      <3> QED BY <2>2, <3>1 DEF Tokens
    <2>5. Tokens(left, tokens)
      BY <1>1, <1>2, <2>3, <2>4 DEF Tokens
    <2>6. \A i \in DOMAIN found : (found[i].token = tokens /\ ~Same(found[i].content, s)) =>
              \E j \in DOMAIN left : left[j].token = tokens
      <3> SUFFICES ASSUME NEW i \in DOMAIN found, found[i].token = tokens,
                          ~Same(found[i].content, s)
                   PROVE  \E j \in DOMAIN left : left[j].token = tokens
        OBVIOUS
      <3>1. i = Len(found)
        BY LastToken
      <3>2. i # n
        BY <2>1 DEF Of
      <3>3. i - n \in DOMAIN left /\ (i - n) + n = i
        BY <1>1, <1>2, <2>1, <3>1, <3>2
      <3> QED BY <2>2, <3>3
    <2>7. \A i \in DOMAIN left : \E j \in DOMAIN found : left[i] = found[j]
      BY <2>2
    <2> QED BY <2>5, <2>6, <2>7 DEF left
  <1> QED BY <1>3, <1>4

\* consumeWriteEvidence
LEMMA ConsumeIs ==
    ASSUME NEW k \in Clients, NEW s
    PROVE  Consume(k, s) = [k EXCEPT !.evidence = Consumed(k.evidence, s)]
  <1>1. EvidenceFor(k, s) = Of(k.evidence, s)
    BY DEF EvidenceFor, Of
  <1>2. CASE Of(k.evidence, s) = {}
    BY <1>1, <1>2 DEF Consume, Consumed, Clients
  <1>3. CASE Of(k.evidence, s) # {}
    <2>1. (CHOOSE n \in EvidenceFor(k, s) : \A m \in EvidenceFor(k, s) : m <= n)
            = LastOf(k.evidence, s)
      BY DEF EvidenceFor, Of, LastOf
    <2>2. Consume(k, s) =
            [k EXCEPT !.evidence = SubSeq(@, LastOf(k.evidence, s) + 1, Len(@))]
      BY <1>1, <1>3, <2>1 DEF Consume
    <2> QED BY <1>3, <2>2 DEF Consumed, Clients
  <1> QED BY <1>2, <1>3

\* What a write has found is set anew.
LEMMA ObservedIs ==
    ASSUME NEW w \in Writes, NEW s \in Shown
    PROVE  LET q == [w EXCEPT !.observed = s, !.hasObservation = TRUE] IN
           /\ q \in Writes /\ q.observed = s /\ q.hasObservation
           /\ q.content = w.content /\ q.token = w.token /\ q.status = w.status
           /\ q.hasWritten = w.hasWritten /\ q.accept = w.accept /\ q.remote = w.remote
           /\ q.attempt = w.attempt /\ q.own = w.own /\ q.timer = w.timer
  BY DEF Writes

\* rememberKnownSnapshot
LEMMA RememberIs ==
    ASSUME NEW k \in Clients, NEW s \in Shown, Len(k.evidence) <= 2
    PROVE  LET q == Remember(k, s) IN
           /\ q \in Clients /\ q.lastObserved = s /\ q.lastLocal = s /\ q.baseline = TRUE
           /\ q.guard = k.guard /\ q.event = k.event /\ q.stopped = k.stopped
           /\ q.tokens = k.tokens /\ q.evidence = Consumed(k.evidence, s)
           /\ q.ids = k.ids /\ q.submitted = k.submitted
           /\ q.polling = None <=> k.polling = None
           /\ q.polling # None => q.polling.stale \/ (q.polling = k.polling /\ s = k.lastObserved)
           /\ q.write = IF Pending(k)
                        THEN [k.write EXCEPT !.observed = s, !.hasObservation = TRUE]
                        ELSE k.write
  <1> DEFINE o == IF s = k.lastObserved THEN k ELSE Outdated(k)
             r == [o EXCEPT !.lastObserved = s, !.lastLocal = s, !.baseline = TRUE]
             v == IF Pending(k) THEN [k.write EXCEPT !.observed = s, !.hasObservation = TRUE]
                  ELSE k.write
             w == [r EXCEPT !.write = v]
  <1>1. /\ o \in Clients /\ SameButPolling(o, k) /\ (o.polling = None <=> k.polling = None)
        /\ o.polling # None => o.polling.stale \/ (o.polling = k.polling /\ s = k.lastObserved)
    BY OutdatedIs DEF SameButPolling
  <1> HIDE DEF o
  <1>2. /\ r \in Clients /\ r.lastObserved = s /\ r.lastLocal = s /\ r.baseline = TRUE
        /\ r.guard = o.guard /\ r.event = o.event /\ r.stopped = o.stopped
        /\ r.tokens = o.tokens /\ r.evidence = o.evidence /\ r.polling = o.polling
        /\ r.write = o.write /\ r.ids = o.ids /\ r.submitted = o.submitted
    BY <1>1 DEF Clients
  <1> HIDE DEF r
  <1>3. r.write = k.write
    BY <1>1, <1>2 DEF SameButPolling
  <1>4. v \in Writes \cup {None}
    <2>1. k.write \in Writes \cup {None} /\ (Pending(k) => k.write \in Writes)
      BY DEF Clients, Pending
    <2> QED BY <2>1, ObservedIs
  <1>5. (IF Pending(r) THEN [r EXCEPT !.write.observed = s, !.write.hasObservation = TRUE]
         ELSE r) = w
    <2>1. Pending(r) <=> Pending(k)
      BY <1>3 DEF Pending
    <2>2. CASE Pending(k)
      <3>1. k.write \in Writes
        BY <2>2 DEF Clients, Pending
      <3> QED BY <1>2, <1>3, <2>1, <2>2, <3>1 DEF Clients, Writes
    <2>3. CASE ~Pending(k)
      BY <1>2, <1>3, <2>1, <2>3 DEF Clients
    <2> QED BY <2>2, <2>3
  <1> HIDE DEF v
  <1>6. w \in Clients /\ w.write = v /\ SameButWrite(w, r)
    BY <1>2, <1>4, WriteSet
  <1>7. Remember(k, s) = Consume(w, s)
    BY <1>5 DEF Remember, o, r
  <1> HIDE DEF w
  <1> DEFINE q == Remember(k, s)
  <1>8. w.evidence = k.evidence /\ Consumed(k.evidence, s) \in Seq(Findings)
    <2>1. w.evidence = k.evidence
      BY <1>1, <1>2, <1>6 DEF SameButWrite, SameButPolling
    <2>2. k.evidence \in Seq(Findings)
      BY DEF Clients
    <2> QED BY <2>1, <2>2, ConsumedIs
  <1>9. q = [w EXCEPT !.evidence = Consumed(k.evidence, s)]
    BY <1>6, <1>7, <1>8, ConsumeIs
  <1> HIDE DEF q
  <1>10. /\ q \in Clients /\ q.evidence = Consumed(k.evidence, s)
         /\ q.lastObserved = w.lastObserved /\ q.lastLocal = w.lastLocal
         /\ q.baseline = w.baseline /\ q.guard = w.guard /\ q.event = w.event
         /\ q.stopped = w.stopped /\ q.tokens = w.tokens /\ q.polling = w.polling
         /\ q.write = w.write /\ q.ids = w.ids /\ q.submitted = w.submitted
    BY <1>6, <1>8, <1>9 DEF Clients
  <1>11. /\ q.lastObserved = s /\ q.lastLocal = s /\ q.baseline = TRUE
         /\ q.guard = k.guard /\ q.event = k.event /\ q.stopped = k.stopped
         /\ q.tokens = k.tokens /\ q.polling = o.polling /\ q.write = v
         /\ q.ids = k.ids /\ q.submitted = k.submitted
    BY <1>1, <1>2, <1>6, <1>10 DEF SameButWrite, SameButPolling
  <1> QED BY <1>1, <1>10, <1>11 DEF q, v

LEMMA RememberSound ==
    ASSUME NEW k, NEW sn, NEW cm, Sound(k, sn, cm),
           ~(Pending(k) /\ k.write.hasWritten /\ Same(k.write.content, sn.content))
    PROVE  Sound(Remember(k, sn.content), sn, cm)
           /\ Remember(k, sn.content).stopped = k.stopped
  <1> DEFINE s == sn.content
             q == Remember(k, s)
  <1>1. /\ k \in Clients /\ s \in Shown /\ Len(k.evidence) <= 2 /\ k.evidence \in Seq(Findings)
        /\ Tokens(k.evidence, k.tokens)
    BY DEF Sound, Proven, Tokens, Board, Snapshots
  <1>2. /\ q \in Clients /\ q.lastObserved = s /\ q.lastLocal = s /\ q.baseline = TRUE
        /\ q.guard = k.guard /\ q.event = k.event /\ q.stopped = k.stopped
        /\ q.tokens = k.tokens /\ q.evidence = Consumed(k.evidence, s)
        /\ q.polling = None <=> k.polling = None
        /\ q.polling # None => q.polling.stale \/ (q.polling = k.polling /\ s = k.lastObserved)
        /\ q.write = IF Pending(k)
                     THEN [k.write EXCEPT !.observed = s, !.hasObservation = TRUE]
                     ELSE k.write
    BY <1>1, RememberIs
  <1> HIDE DEF q, s
  <1>3. Pending(k) =>
          /\ Pending(q) /\ q.write.observed = s /\ q.write.hasWritten = k.write.hasWritten
          /\ q.write.content = k.write.content /\ q.write.token = k.write.token
    <2> SUFFICES ASSUME Pending(k)
                 PROVE  /\ Pending(q) /\ q.write.observed = s
                        /\ q.write.hasWritten = k.write.hasWritten
                        /\ q.write.content = k.write.content /\ q.write.token = k.write.token
      OBVIOUS
    <2>1. k.write \in Writes /\ k.write.status = "pending"
      BY <1>1 DEF Clients, Pending
    <2>2. q.write = [k.write EXCEPT !.observed = s, !.hasObservation = TRUE]
      BY <1>2
    <2>3. /\ q.write \in Writes /\ q.write.status = "pending" /\ q.write.observed = s
          /\ q.write.hasWritten = k.write.hasWritten
          /\ q.write.content = k.write.content /\ q.write.token = k.write.token
      BY <1>1, <2>1, <2>2 DEF Writes
    <2> QED BY <2>3, NoneIsNone DEF Pending
  <1>4. ~Pending(k) => ~Pending(q) /\ q.write = k.write
    BY <1>2 DEF Pending
  <1>5. /\ Tokens(q.evidence, q.tokens)
        /\ \A i \in DOMAIN q.evidence : \E j \in DOMAIN k.evidence : q.evidence[i] = k.evidence[j]
        /\ \A i \in DOMAIN k.evidence :
             (k.evidence[i].token = k.tokens /\ ~Same(k.evidence[i].content, s)) =>
               \E j \in DOMAIN q.evidence : q.evidence[j].token = k.tokens
    BY <1>1, <1>2, ConsumedProves
  <1>6. Proven(q)
    <2>1. q.write # None =>
            /\ q.write.token = q.tokens
            /\ \A i \in DOMAIN q.evidence :
                 q.evidence[i].token = q.tokens => q.evidence[i].content = q.write.content
      <3>1. q.write # None => k.write # None /\ q.write.token = k.write.token
                              /\ q.write.content = k.write.content
        BY <1>3, <1>4 DEF Pending
      <3> QED BY <1>2, <1>5, <3>1 DEF Sound, Proven
    <2>2. (Pending(q) /\ q.write.hasWritten) =>
             \E i \in DOMAIN q.evidence : q.evidence[i].token = q.tokens
      <3> SUFFICES ASSUME Pending(q), q.write.hasWritten
                   PROVE  \E i \in DOMAIN q.evidence : q.evidence[i].token = q.tokens
        OBVIOUS
      <3>1. Pending(k) /\ k.write.hasWritten /\ k.write # None
        BY <1>3, <1>4 DEF Pending
      <3>2. PICK i \in DOMAIN k.evidence : k.evidence[i].token = k.tokens
        BY <3>1 DEF Sound, Proven
      <3>3. k.evidence[i].content = k.write.content
        BY <3>1, <3>2 DEF Sound, Proven
      <3> QED BY <1>2, <1>5, <3>1, <3>2, <3>3 DEF s
    <2> QED BY <1>5, <2>1, <2>2 DEF Proven
  <1>7. InHand(q)
    <2>1. k.stopped => q.polling = None /\ q.write = None /\ q.event = None
      BY <1>2, <1>4 DEF Sound, InHand, Pending
    <2>2. (q.polling # None /\ ~q.polling.stale) =>
             q.event # None /\ q.event.content = q.lastObserved /\ q.polling.content = q.lastObserved
      BY <1>2 DEF Sound, InHand
    <2> QED BY <1>2, <2>1, <2>2 DEF InHand
  <1>8. Board(q.lastObserved, q.lastLocal, q.evidence, sn, cm)
    <2>1. Board(k.lastObserved, k.lastLocal, k.evidence, sn, cm)
      BY DEF Sound
    <2> QED BY <1>1, <1>2, <2>1, BoardConsumed DEF s
  <1>9. Compared(q, sn, cm)
    BY <1>2, <1>3, <1>4 DEF Compared
  <1>10. Sound(q, sn, cm)
    BY <1>2, <1>6, <1>7, <1>8, <1>9 DEF Sound
  <1> QED BY <1>2, <1>10 DEF q, s

\* confirmWrite
LEMMA ConfirmIs ==
    ASSUME NEW k \in Clients, Pending(k), NEW s \in Shown
    PROVE  LET q == Confirm(k, s) IN
           /\ q \in Clients /\ q.lastLocal = s /\ q.lastObserved = s /\ q.evidence = <<>>
           /\ q.write # None /\ q.write.status = "succeeded" /\ ~q.write.timer
           /\ q.write.content = k.write.content /\ q.write.token = k.write.token
           /\ q.event = None /\ q.baseline /\ (q.polling # None => q.polling.stale)
           /\ q.polling = None <=> k.polling = None
           /\ q.stopped = k.stopped /\ q.tokens = k.tokens
           /\ q.ids = k.ids /\ q.submitted = k.submitted
           /\ q.write.own = k.write.own /\ q.write.remote = k.write.remote
  <1> DEFINE o == Outdated(k)
             v == [k.write EXCEPT !.status = "succeeded", !.timer = FALSE, !.actual = s]
             q == Confirm(k, s)
  <1>1. k.write \in Writes
    BY DEF Clients, Pending
  <1>2. /\ o \in Clients /\ SameButPolling(o, k) /\ (o.polling = None <=> k.polling = None)
        /\ o.polling # None => o.polling.stale
    BY <1>1, OutdatedIs
  <1> HIDE DEF o
  <1>3. /\ v \in Writes /\ v.status = "succeeded" /\ v.content = k.write.content
        /\ v.token = k.write.token /\ ~v.timer /\ v # None
        /\ v.own = k.write.own /\ v.remote = k.write.remote
    <2>1. /\ v \in Writes /\ v.status = "succeeded" /\ v.content = k.write.content
          /\ v.token = k.write.token /\ ~v.timer
          /\ v.own = k.write.own /\ v.remote = k.write.remote
      BY <1>1 DEF Writes
    <2> QED BY <2>1, NoneIsNone
  <1>4. k.write.content \in Shown
    BY <1>1 DEF Writes, Shown
  <1> DEFINE a == [o EXCEPT !.guard = o.guard \cup {k.write.content, s}, !.lastLocal = s,
                             !.lastObserved = s, !.event = None, !.waiting = {},
                             !.baseline = TRUE, !.evidence = <<>>]
  <1>5. /\ a \in Clients /\ a.lastLocal = s /\ a.lastObserved = s /\ a.evidence = <<>>
        /\ a.write = k.write /\ a.polling = o.polling /\ a.stopped = o.stopped
        /\ a.tokens = o.tokens /\ a.event = None /\ a.baseline /\ a.ids = o.ids
        /\ a.submitted = o.submitted
    <2>1. <<>> \in Seq(Findings) /\ None \in Copies \cup {None} /\ {} \in SUBSET Contents
      OBVIOUS
    <2>2. o.write = k.write
      BY <1>2 DEF SameButPolling
    <2> QED BY <1>1, <1>2, <1>4, <2>1, <2>2 DEF Clients
  <1>a. Confirm(k, s) = [a EXCEPT !.write.status = "succeeded", !.write.timer = FALSE,
                                  !.write.actual = s]
    BY DEF Confirm, o
  <1> HIDE DEF a
  <1>b. q = [a EXCEPT !.write = v]
    <2> DEFINE v1 == [k.write EXCEPT !.status = "succeeded", !.timer = FALSE]
               a1 == [a EXCEPT !.write.status = "succeeded", !.write.timer = FALSE]
    <2>1. v1 \in Writes /\ v = [v1 EXCEPT !.actual = s]
      BY <1>1 DEF Writes
    <2>2. a1 = [a EXCEPT !.write = v1]
      BY <1>1, <1>5 DEF Clients, Writes
    <2>3. Confirm(k, s) = [a1 EXCEPT !.write.actual = s]
      BY <1>a
    <2> HIDE DEF v1, a1, v, q
    <2>4. a1 \in Clients /\ a1.write = v1
      BY <1>5, <2>1, <2>2, WriteSet
    <2>5. Confirm(k, s) = [a1 EXCEPT !.write = v]
      BY <2>1, <2>3, <2>4 DEF Clients, Writes
    <2> QED BY <1>5, <2>2, <2>4, <2>5 DEF Clients, q
  <1> HIDE DEF v
  <1>6. /\ q \in Clients /\ q.write = v /\ SameButWrite(q, a)
    <2> HIDE DEF q
    <2> QED BY <1>3, <1>5, <1>b, WriteSet
  <1> HIDE DEF q
  <1>7. /\ q \in Clients /\ q.lastLocal = s /\ q.lastObserved = s /\ q.evidence = <<>>
        /\ q.write # None /\ q.write.status = "succeeded" /\ ~q.write.timer
        /\ q.write.content = k.write.content /\ q.write.token = k.write.token
        /\ q.event = None /\ q.baseline /\ (q.polling # None => q.polling.stale)
        /\ q.polling = None <=> k.polling = None
        /\ q.stopped = k.stopped /\ q.tokens = k.tokens
        /\ q.ids = k.ids /\ q.submitted = k.submitted
        /\ q.write.own = k.write.own /\ q.write.remote = k.write.remote
    BY <1>2, <1>3, <1>5, <1>6 DEF SameButWrite, SameButPolling
  <1> QED BY <1>7 DEF q

LEMMA ConfirmSound ==
    ASSUME NEW k, NEW sn, NEW cm, Sound(k, sn, cm), Pending(k), k.write.hasWritten,
           Same(k.write.content, sn.content)
    PROVE  Sound(Confirm(k, sn.content), sn, cm) /\ ~Confirm(k, sn.content).stopped
  <1> DEFINE s == sn.content
             q == Confirm(k, s)
  <1>1. /\ k \in Clients /\ k.write # None /\ s \in Shown /\ Tokens(k.evidence, k.tokens)
    BY DEF Sound, Clients, Pending, Proven, Board, Snapshots
  <1>6. /\ q \in Clients /\ q.lastLocal = s /\ q.lastObserved = s /\ q.evidence = <<>>
        /\ q.write # None /\ q.write.status = "succeeded" /\ q.write.token = k.write.token
        /\ q.polling # None => q.polling.stale
        /\ q.stopped = k.stopped /\ q.tokens = k.tokens
    BY <1>1, ConfirmIs
  <1>7. ~k.stopped
    BY <1>1 DEF Sound, InHand
  <1> HIDE DEF q
  <1>8. Proven(q)
    <2>1. <<>> \in Seq(Findings) /\ Len(<<>>) = 0 /\ DOMAIN <<>> = {} /\ q.tokens \in Nat
      BY <1>6 DEF Clients
    <2>2. q.write.token = q.tokens /\ ~Pending(q)
      BY <1>1, <1>6 DEF Sound, Proven, Pending
    <2> QED BY <1>6, <2>1, <2>2 DEF Proven, Tokens
  <1>9. InHand(q)
    BY <1>6, <1>7 DEF InHand
  <1>10. Board(q.lastObserved, q.lastLocal, q.evidence, sn, cm)
    <2>1. PICK i \in DOMAIN k.evidence : k.evidence[i].token = k.tokens
      BY DEF Sound, Proven
    <2>2. k.evidence[i].content = k.write.content
      BY <1>1, <2>1 DEF Sound, Proven
    <2>3. i = Len(k.evidence) /\ k.evidence \in Seq(Findings) /\ Len(k.evidence) <= 2
      BY <1>1, <2>1, LastToken DEF Tokens
    <2>4. Len(k.evidence) \in Of(k.evidence, sn.content)
      BY <2>1, <2>2, <2>3 DEF Of
    <2>5. Board(k.lastObserved, k.lastLocal, k.evidence, sn, cm)
      BY DEF Sound
    <2> QED BY <1>6, <2>3, <2>4, <2>5, BoardConfirmed
  <1>11. Compared(q, sn, cm)
    BY <1>6 DEF Compared, Pending
  <1>12. Sound(q, sn, cm) /\ ~q.stopped
    BY <1>6, <1>7, <1>8, <1>9, <1>10, <1>11 DEF Sound
  <1> QED BY <1>12 DEF q, s

\* writeEvent
LEMMA EvidencedIs ==
    ASSUME NEW k \in Clients, Proven(k), Pending(k), ~Full(k)
    PROVE  LET e == Evidenced(k) IN
           /\ e \in Clients /\ Proven(e) /\ Pending(e)
           /\ Grown(k.evidence, e.evidence, k.tokens, k.write.content)
           /\ e.lastLocal = k.lastLocal /\ e.lastObserved = k.lastObserved
           /\ e.baseline = k.baseline /\ e.guard = k.guard /\ e.event = k.event
           /\ e.polling = k.polling /\ e.stopped = k.stopped /\ e.tokens = k.tokens
           /\ e.write.content = k.write.content /\ e.write.hasWritten
           /\ e.write.observed = k.write.observed
           /\ e.write.hasObservation = k.write.hasObservation
           /\ e.write.timer = k.write.timer /\ e.write.accept = k.write.accept
           /\ e.write.own = k.write.own /\ e.write.remote = k.write.remote
           /\ e.ids = k.ids /\ e.submitted = k.submitted
  <1> DEFINE more == Append(Others(k.evidence, k.write.token),
                            [token |-> k.write.token, content |-> k.write.content])
             v == [k.write EXCEPT !.hasWritten = TRUE]
             e == Evidenced(k)
  <1>1. /\ k.write \in Writes /\ k.write # None /\ k.write.token = k.tokens
        /\ k.write.content \in Contents /\ k.write.status = "pending"
        /\ Tokens(k.evidence, k.tokens)
    BY DEF Clients, Pending, Proven, Writes
  <1>2. Len(k.evidence) < 2 \/ \E i \in DOMAIN k.evidence : k.evidence[i].token = k.tokens
    <2>1. Len(k.evidence) \in Nat /\ MaxUnconfirmed \in Nat /\ MaxUnconfirmed <= 2
      BY <1>1, LenProperties, SyncAssumption DEF Tokens
    <2> QED BY <1>1, <2>1 DEF Full
  <1>3. Grown(k.evidence, more, k.tokens, k.write.content)
    <2>1. \A i \in DOMAIN k.evidence :
             k.evidence[i].token = k.tokens => k.evidence[i].content = k.write.content
      BY <1>1 DEF Proven
    <2> QED BY <1>1, <1>2, <2>1, OthersAdded
  <1>4. /\ v \in Writes /\ v.content = k.write.content /\ v.token = k.write.token
        /\ v.status = "pending" /\ v.hasWritten /\ v.observed = k.write.observed
        /\ v.hasObservation = k.write.hasObservation
        /\ v.timer = k.write.timer /\ v.accept = k.write.accept
        /\ v.own = k.write.own /\ v.remote = k.write.remote
    BY <1>1 DEF Writes
  <1>5. e = [k EXCEPT !.evidence = more, !.write = v]
    BY <1>1 DEF Evidenced, Clients, Writes
  <1>6. more \in Seq(Findings)
    BY <1>3 DEF Grown
  <1> HIDE DEF more, v
  <1>7. /\ e \in Clients /\ e.evidence = more /\ e.write = v
        /\ e.lastLocal = k.lastLocal /\ e.lastObserved = k.lastObserved
        /\ e.baseline = k.baseline /\ e.guard = k.guard /\ e.event = k.event
        /\ e.polling = k.polling /\ e.stopped = k.stopped /\ e.tokens = k.tokens
        /\ e.ids = k.ids /\ e.submitted = k.submitted
    <2> HIDE DEF e
    <2> QED BY <1>4, <1>5, <1>6 DEF Clients
  <1> HIDE DEF e
  <1>8. Pending(e)
    BY <1>4, <1>7, NoneIsNone DEF Pending
  <1>9. Proven(e)
    <2>1. Tokens(more, k.tokens) /\ more[Len(more)] = [token |-> k.tokens, content |-> k.write.content]
          /\ Len(more) \in {1, 2} /\ more \in Seq(Findings)
      BY <1>3 DEF Grown
    <2>2. DOMAIN more = 1 .. Len(more)
      BY <2>1, LenProperties
    <2>3. Len(more) \in DOMAIN more /\ more[Len(more)].token = k.tokens
          /\ more[Len(more)].content = k.write.content
      BY <2>1, <2>2
    <2>4. \A i \in DOMAIN more : more[i].token = k.tokens => more[i].content = k.write.content
      BY <2>1, <2>3, LastToken
    <2> QED BY <1>1, <1>4, <1>7, <2>1, <2>3, <2>4 DEF Proven
  <1> QED BY <1>3, <1>4, <1>7, <1>8, <1>9 DEF e

\* applyClipboardWrite from the write on.
LEMMA PerformIs ==
    ASSUME NEW k, Sound(k, seen, coming), Pending(k), ~Full(k), NEW r \in Results,
           k.write.hasObservation, k.write.observed = seen.content,
           Clear(Perform(k, r), k)
    PROVE  LET w == Perform(k, r)
               e == Evidenced(k)
           IN  /\ w.sent = <<>>
               /\ \/ w.client = Retry(k) /\ w.seen = seen /\ w.coming = coming
                  \/ /\ Sound(e, w.seen, w.coming)
                     /\ w.seen = seen \/ (w.seen.act = 0 /\ Of(e.evidence, w.seen.content) # {})
                     /\ \/ w.client = Retry(e)
                        \/ /\ w.client = Confirm(e, w.seen.content)
                           /\ Same(k.write.content, w.seen.content)
  <1> DEFINE w == Perform(k, r)
             e == Evidenced(k)
             put == Written(ReadsAs[k.write.content])
             slow == r.write = "late" \/ coming # <<>>
             now == IF slow THEN seen ELSE put
             next == IF slow THEN Append(coming, put) ELSE coming
  <1>1. /\ k \in Clients /\ Proven(k) /\ InHand(k) /\ k.write # None /\ k.write \in Writes
        /\ Board(k.lastObserved, k.lastLocal, k.evidence, seen, coming)
        /\ k.evidence \in Seq(Findings) /\ coming \in Seq(Unread) /\ k.write.content \in Contents
    BY DEF Sound, Clients, Pending, Writes, Board, Unread
  <1>2. k.stopped = FALSE
    BY <1>1 DEF InHand, Clients
  <1>4. CASE r.write = "fails"
    <2>1. w = [client |-> Retry(k), seen |-> seen, coming |-> coming, sent |-> <<>>]
      BY <1>4 DEF Perform, OnlyClient
    <2> QED BY <2>1
  <1>5. CASE r.write # "fails"
    <2>1. /\ e \in Clients /\ Proven(e) /\ Pending(e)
          /\ Grown(k.evidence, e.evidence, k.tokens, k.write.content)
          /\ e.lastLocal = k.lastLocal /\ e.lastObserved = k.lastObserved
          /\ e.baseline = k.baseline /\ e.guard = k.guard /\ e.event = k.event
          /\ e.polling = k.polling /\ e.stopped = k.stopped /\ e.tokens = k.tokens
          /\ e.write.content = k.write.content /\ e.write.hasWritten
          /\ e.write.observed = k.write.observed
          /\ e.write.hasObservation = k.write.hasObservation
      BY <1>1, EvidencedIs
    <2> DEFINE c == CASE r.after /\ Same(k.write.content, now.content) -> Confirm(e, now.content)
                      [] r.after /\ ~Same(k.write.content, now.content) /\ ~Known(e, now.content)
                           -> NewLocal(e, now.content)
                      [] OTHER -> Retry(e)
    <2>2. w = [client |-> c, seen |-> now, sent |-> <<>>, coming |-> next]
      BY <1>5 DEF Perform
    <2>3. w.client = c /\ w.seen = now /\ w.sent = <<>> /\ w.coming = next
      BY <2>2
    <2> HIDE DEF e, c, w
    <2>4. put \in Unread /\ put.content = ReadsAs[k.write.content]
      BY <1>1, LooksLike DEF Written, Unread
    <2> HIDE DEF put
    <2>5. slow => /\ seen.act # 0 => seen.content = k.lastObserved
                  /\ Same(k.write.content, seen.content) => seen.act = 0 /\ coming = <<>>
      <3> SUFFICES ASSUME slow
                   PROVE  /\ seen.act # 0 => seen.content = k.lastObserved
                          /\ Same(k.write.content, seen.content) => seen.act = 0 /\ coming = <<>>
        OBVIOUS
      <3>1. next = Append(coming, put)
        OBVIOUS
      <3>2. Len(next) = Len(coming) + 1 /\ next[Len(next)] = put /\ Len(coming) \in Nat
        <4>1. Len(coming) \in Nat
          BY <1>1, ComingIs
        <4> QED BY <1>1, <2>4, <3>1, <4>1, AppendProperties
      <3>3. Len(w.coming) > Len(coming)
        BY <2>3, <3>2
      <3>4. /\ seen.act # 0 => k.lastObserved = seen.content
            /\ Same(w.coming[Len(w.coming)].content, seen.content) =>
                 seen.act = 0 /\ coming = <<>>
        BY <3>3 DEF w, Clear
      <3>5. w.coming[Len(w.coming)].content = ReadsAs[k.write.content]
        BY <2>3, <2>4, <3>2
      <3> QED BY <1>1, <3>4, <3>5, LooksLike
    <2>6. Board(e.lastObserved, e.lastLocal, e.evidence, now, next)
      <3>1. CASE slow
        <4>1. Board(k.lastObserved, k.lastLocal, e.evidence, seen, Append(coming, put))
          BY <1>1, <2>1, <2>5, <3>1, BoardLate DEF put
        <4> QED BY <2>1, <3>1, <4>1
      <3>2. CASE ~slow
        <4>1. Board(k.lastObserved, k.lastLocal, e.evidence, put, <<>>)
          BY <1>1, <2>1, BoardWritten DEF put
        <4> QED BY <2>1, <3>2, <4>1
      <3> QED BY <3>1, <3>2
    <2>a. slow => seen.content = k.lastObserved \/ Of(e.evidence, seen.content) # {}
      <3>1. Of(k.evidence, seen.content) \subseteq Of(e.evidence, seen.content)
        BY <1>1, <2>1, GrownFinds
      <3> QED BY <1>1, <2>5, <3>1 DEF Board
    <2>7. Compared(e, now, next)
      <3>1. CASE slow
        BY <2>1, <2>a, <3>1 DEF Compared
      <3>2. CASE ~slow
        <4>1. Len(e.evidence) \in Of(e.evidence, now.content)
          BY <1>1, <2>1, <2>4, <3>2, GrownFinds
        <4> QED BY <4>1 DEF Compared
      <3> QED BY <3>1, <3>2
    <2>8. InHand(e)
      <3>1. e.write # None
        BY <2>1 DEF Pending
      <3> QED BY <1>1, <1>2, <2>1, <3>1 DEF InHand
    <2>9. Sound(e, now, next)
      BY <2>1, <2>6, <2>7, <2>8 DEF Sound
    <2>10. c = Retry(e) \/ (c = Confirm(e, now.content) /\ Same(k.write.content, now.content))
      <3>1. CASE slow
        <4>1. Known(e, now.content)
          BY <2>1, <2>a, <3>1 DEF Known, EvidenceFor, Of
        <4> QED BY <4>1 DEF c
      <3>2. CASE ~slow
        <4>1. Same(k.write.content, now.content)
          BY <1>1, <2>4, <3>2, LooksLike
        <4> QED BY <4>1 DEF c
      <3> QED BY <3>1, <3>2
    <2>11. now = seen \/ (now.act = 0 /\ Of(e.evidence, now.content) # {})
      <3>1. CASE slow
        BY <3>1
      <3>2. CASE ~slow
        <4>1. Len(e.evidence) \in Of(e.evidence, now.content)
          BY <1>1, <2>1, <2>4, <3>2, GrownFinds
        <4> QED BY <2>4, <3>2, <4>1 DEF Unread
      <3> QED BY <3>1, <3>2
    <2> HIDE DEF now, next, slow
    <2> QED BY <2>3, <2>9, <2>10, <2>11 DEF w, e
  <1> QED BY <1>4, <1>5

LEMMA PerformKeeps ==
    ASSUME NEW k, Sound(k, seen, coming), Pending(k), ~Full(k), NEW r \in Results,
           k.write.hasObservation, k.write.observed = seen.content,
           Clear(Perform(k, r), k)
    PROVE  Keeps(Perform(k, r))
  <1> DEFINE w == Perform(k, r)
             e == Evidenced(k)
  <1>1. /\ k \in Clients /\ Proven(k) /\ k.stopped = FALSE
    BY DEF Sound, InHand, Pending, Clients
  <1>2. /\ w.sent = <<>>
        /\ \/ w.client = Retry(k) /\ w.seen = seen /\ w.coming = coming
           \/ /\ Sound(e, w.seen, w.coming)
              /\ \/ w.client = Retry(e)
                 \/ w.client = Confirm(e, w.seen.content) /\ Same(k.write.content, w.seen.content)
    BY PerformIs
  <1>3. /\ Pending(e) /\ e.write.content = k.write.content /\ e.write.hasWritten
        /\ e.stopped = k.stopped
    BY <1>1, EvidencedIs
  <1>4. <<>> \in Seq(Messages)
    OBVIOUS
  <1> HIDE DEF w, e
  <1>5. Sound(w.client, w.seen, w.coming) /\ ~w.client.stopped
    <2>1. CASE w.client = Retry(k) /\ w.seen = seen /\ w.coming = coming
      BY <1>1, <2>1, RetrySound
    <2>2. CASE Sound(e, w.seen, w.coming) /\ w.client = Retry(e)
      BY <1>1, <1>3, <2>2, RetrySound
    <2>3. CASE /\ Sound(e, w.seen, w.coming) /\ w.client = Confirm(e, w.seen.content)
               /\ Same(k.write.content, w.seen.content)
      BY <1>3, <2>3, ConfirmSound
    <2> QED BY <1>2, <2>1, <2>2, <2>3
  <1> QED BY <1>2, <1>4, <1>5 DEF Keeps, w

\* What is not known is the user's copy.
LEMMA UnknownSound ==
    ASSUME NEW k, Sound(k, seen, coming), ~Known(k, seen.content)
    PROVE  seen.act # 0 /\ coming = <<>> /\ seen \in Snapshots
  <1>1. seen.content # k.lastObserved /\ Of(k.evidence, seen.content) = {}
    BY DEF Known, EvidenceFor, Of
  <1> QED BY <1>1, UnknownIsCopy DEF Sound, Board

\* A write is about to be made: it has found the snapshot.
LEMMA ObserveSound ==
    ASSUME NEW m \in Clients, Proven(m), InHand(m), Pending(m),
           Board(m.lastObserved, m.lastLocal, m.evidence, seen, coming)
    PROVE  LET w == [m EXCEPT !.write.observed = seen.content, !.write.hasObservation = TRUE] IN
           /\ Sound(w, seen, coming) /\ Pending(w) /\ w.lastObserved = m.lastObserved
           /\ w.stopped = m.stopped /\ w.write.hasObservation
           /\ w.write.observed = seen.content /\ w.write.content = m.write.content
           /\ w.write.timer = m.write.timer /\ w.write.accept = m.write.accept
           /\ w.write.own = m.write.own /\ w.write.remote = m.write.remote
           /\ SameButWrite(w, m)
  <1> DEFINE s == seen.content
             v == [m.write EXCEPT !.observed = s, !.hasObservation = TRUE]
             w == [m EXCEPT !.write.observed = s, !.write.hasObservation = TRUE]
  <1>1. m.write \in Writes /\ m.write # None /\ m.write.status = "pending" /\ s \in Shown
    BY DEF Clients, Pending, Board, Snapshots
  <1>2. /\ v \in Writes /\ v.observed = s /\ v.hasObservation
        /\ v.content = m.write.content /\ v.token = m.write.token /\ v.status = "pending"
        /\ v.hasWritten = m.write.hasWritten /\ v.accept = m.write.accept
        /\ v.timer = m.write.timer /\ v.own = m.write.own /\ v.remote = m.write.remote
    BY <1>1, ObservedIs
  <1>3. w = [m EXCEPT !.write = v]
    BY <1>1 DEF Clients, Writes
  <1> HIDE DEF v, w, s
  <1>4. w \in Clients /\ w.write = v /\ SameButWrite(w, m)
    BY <1>2, <1>3, WriteSet
  <1>5. Pending(w) /\ w.write # None
    BY <1>2, <1>4, NoneIsNone DEF Pending
  <1>6. Proven(w)
    BY <1>1, <1>2, <1>4 DEF Proven, SameButWrite, Pending
  <1>7. InHand(w)
    BY <1>1, <1>4 DEF InHand, SameButWrite, Clients
  <1>8. Board(w.lastObserved, w.lastLocal, w.evidence, seen, coming)
    BY <1>4 DEF SameButWrite
  <1>9. Compared(w, seen, coming)
    <2>1. CASE s = w.lastObserved \/ Of(w.evidence, s) # {}
      BY <1>2, <1>4, <2>1 DEF Compared, s
    <2>2. CASE s # w.lastObserved /\ Of(w.evidence, s) = {}
      BY <1>8, <2>2, UnknownIsCopy DEF Compared, s
    <2> QED BY <2>1, <2>2
  <1>10. Sound(w, seen, coming) /\ w.lastObserved = m.lastObserved /\ w.stopped = m.stopped
    BY <1>4, <1>6, <1>7, <1>8, <1>9 DEF Sound, SameButWrite
  <1> QED BY <1>2, <1>4, <1>5, <1>10 DEF w, s

\* The evidence is let go of as the user has copied, before anything was written.
LEMMA ForgottenSound ==
    ASSUME NEW k, Sound(k, seen, coming), ~Known(k, seen.content)
    PROVE  LET e == [k EXCEPT !.evidence = <<>>] IN
           /\ e \in Clients /\ InHand(e) /\ e.write = k.write /\ e.stopped = k.stopped
           /\ e.lastObserved = k.lastObserved /\ e.tokens = k.tokens /\ e.evidence = <<>>
           /\ e.lastLocal = k.lastLocal
           /\ Board(e.lastObserved, e.lastLocal, e.evidence, seen, coming)
           /\ ~(Pending(k) /\ k.write.hasWritten) => Proven(e)
  <1> DEFINE e == [k EXCEPT !.evidence = <<>>]
  <1>1. k \in Clients /\ Proven(k) /\ InHand(k)
    BY DEF Sound
  <1>2. /\ e \in Clients /\ e.evidence = <<>> /\ e.lastLocal = k.lastLocal
        /\ e.lastObserved = k.lastObserved /\ e.baseline = k.baseline /\ e.guard = k.guard
        /\ e.event = k.event /\ e.write = k.write /\ e.polling = k.polling
        /\ e.stopped = k.stopped /\ e.tokens = k.tokens
    <2>1. <<>> \in Seq(Findings)
      OBVIOUS
    <2> QED BY <1>1, <2>1 DEF Clients
  <1> HIDE DEF e
  <1>3. InHand(e)
    BY <1>1, <1>2 DEF InHand
  <1>4. Board(e.lastObserved, e.lastLocal, e.evidence, seen, coming)
    BY <1>2, UnknownSound, BoardCopied, NothingFound
  <1>5. ~(Pending(k) /\ k.write.hasWritten) => Proven(e)
    <2>1. <<>> \in Seq(Findings) /\ Len(<<>>) = 0 /\ DOMAIN <<>> = {} /\ k.tokens \in Nat
      BY <1>1 DEF Clients
    <2> QED BY <1>1, <1>2, <2>1 DEF Proven, Tokens, Pending
  <1> QED BY <1>2, <1>3, <1>4, <1>5 DEF e

LEMMA OnlyClientKeeps ==
    ASSUME NEW k, Sound(k, seen, coming), ~k.stopped
    PROVE  Keeps(OnlyClient(k))
  <1>1. <<>> \in Seq(Messages)
    OBVIOUS
  <1> QED BY <1>1 DEF Keeps, OnlyClient

LEMMA NewLocalKeeps ==
    ASSUME NEW k \in Clients, ~k.stopped, seen \in Snapshots, seen.act # 0, coming = <<>>
    PROVE  Keeps(OnlyClient(NewLocal(k, seen.content)))
  BY NewLocalSound, OnlyClientKeeps

\* There is evidence of a write that looks like the snapshot.
LEMMA WrittenIsFound ==
    ASSUME NEW k, Proven(k), Pending(k), k.write.hasWritten, NEW s, Same(k.write.content, s)
    PROVE  EvidenceFor(k, s) # {}
  <1>1. k.write # None
    BY DEF Pending
  <1>2. PICK i \in DOMAIN k.evidence : k.evidence[i].token = k.tokens
    BY DEF Proven
  <1>3. k.evidence[i].content = k.write.content
    BY <1>1, <1>2 DEF Proven
  <1> QED BY <1>2, <1>3 DEF EvidenceFor

\* A retry that has nothing to compare with what it finds.
Unsighted(k, r) ==
    /\ k.write.attempt > 1 /\ r.before /\ ~k.write.accept /\ ~k.write.hasObservation
    /\ EvidenceFor(k, seen.content) = {}

\* What a write is made from: the client has observed what is one of its own writes, and
\* keeps no evidence when it does not know what it finds.
Observing(m, k) ==
    LET s == seen.content
    IN  /\ m \in Clients /\ Proven(m) /\ InHand(m) /\ Pending(m) /\ ~m.stopped
        /\ m.lastObserved = k.lastObserved \/ m.lastObserved = s
        /\ Board(m.lastObserved, m.lastLocal, m.evidence, seen, coming)
        /\ \/ m = k /\ Known(k, s) /\ ~k.write.accept
           \/ m = Remember(k, s) /\ Known(k, s) /\ (~k.write.accept => EvidenceFor(k, s) # {})
           \/ /\ m = [k EXCEPT !.evidence = <<>>] /\ ~Known(k, s) /\ ~k.write.accept
              /\ ~(k.write.attempt > 1)

\* applyClipboardWrite, of a write that is pending and permitted
LEMMA ApplyIs ==
    ASSUME NEW k, Sound(k, seen, coming), ~k.stopped, NEW r \in Results, Pending(k),
           k.write.attempt > 1 \/ ~k.write.hasWritten,
           ~(k.write.remote /\ ~Accepts(k.write.own)),
           Unsighted(k, r) => seen.act # 0 /\ coming = <<>>
    PROVE  LET s == seen.content
               w == Apply(k, r)
           IN  \/ /\ w = OnlyClient(Confirm(k, s))
                  /\ k.write.hasWritten /\ Same(k.write.content, s)
               \/ w = OnlyClient(Retry(k)) /\ ~r.before
               \/ /\ seen.act # 0 /\ coming = <<>>
                  /\ w = OnlyClient(NewLocal(k, s))
                  /\ EvidenceFor(k, s) = {}
                  /\ \/ ~Known(k, s)
                     \/ /\ k.write.attempt > 1 /\ r.before /\ ~k.write.accept
                        /\ ~k.write.hasObservation \/ s # k.write.observed
               \/ \E m : /\ Observing(m, k)
                         /\ LET v == [m EXCEPT !.write.observed = s, !.write.hasObservation = TRUE]
                            IN  w = IF Full(v) THEN OnlyClient(Retry(v)) ELSE Perform(v, r)
  <1> DEFINE s == seen.content
             o == IF r.before /\ k.write.accept THEN Remember(k, s) ELSE k
             knownWrite == r.before /\ EvidenceFor(o, s) # {}
             e == IF r.before /\ ~Known(o, s) THEN [o EXCEPT !.evidence = <<>>] ELSE o
             m == IF knownWrite THEN Remember(e, s) ELSE e
             w == [m EXCEPT !.write.observed = s, !.write.hasObservation = TRUE]
             Reread == k.write.attempt > 1 /\ r.before /\ k.write.hasWritten /\ Same(k.write.content, s)
  <1>1. /\ k \in Clients /\ Proven(k) /\ InHand(k) /\ seen \in Snapshots /\ s \in Shown
        /\ Board(k.lastObserved, k.lastLocal, k.evidence, seen, coming)
        /\ Len(k.evidence) <= 2 /\ k.write \in Writes /\ k.write # None
    BY DEF Sound, Board, Proven, Tokens, Snapshots, Clients, Pending
  <1>2. CASE Reread
    BY <1>2 DEF Apply
  <1>3. CASE ~Reread /\ r.before /\ k.write.accept /\ ~Known(k, s)
    <2>1. Apply(k, r) = OnlyClient(NewLocal(k, s))
      BY <1>3 DEF Apply
    <2> QED BY <1>3, <2>1, UnknownSound DEF Known
  <1>4. CASE ~Reread /\ ~r.before
    BY <1>4 DEF Apply
  <1>5. CASE ~Reread /\ r.before /\ (k.write.accept => Known(k, s))
    <2>0. Apply(k, r) = IF Changed(e, s, knownWrite) THEN OnlyClient(NewLocal(e, s))
                        ELSE IF Full(w) THEN OnlyClient(Retry(w)) ELSE Perform(w, r)
      BY <1>5 DEF Apply
    <2>2. ~(k.write.hasWritten /\ Same(k.write.content, s))
      BY <1>5
    <2>3. /\ Sound(Remember(k, s), seen, coming) /\ Remember(k, s).stopped = k.stopped
          /\ Remember(k, s).lastObserved = s /\ Pending(Remember(k, s))
          /\ Remember(k, s).write.accept = k.write.accept
          /\ Remember(k, s).evidence = Consumed(k.evidence, s)
      <3>1. Sound(Remember(k, s), seen, coming) /\ Remember(k, s).stopped = k.stopped
        BY <2>2, RememberSound
      <3>a. /\ Remember(k, s).lastObserved = s
            /\ Remember(k, s).evidence = Consumed(k.evidence, s)
            /\ Remember(k, s).write =
                 IF Pending(k) THEN [k.write EXCEPT !.observed = s, !.hasObservation = TRUE]
                 ELSE k.write
        BY <1>1, RememberIs
      <3>2. /\ Remember(k, s).lastObserved = s
            /\ Remember(k, s).write = [k.write EXCEPT !.observed = s, !.hasObservation = TRUE]
            /\ Remember(k, s).evidence = Consumed(k.evidence, s)
        BY <3>a
      <3> DEFINE v == [k.write EXCEPT !.observed = s, !.hasObservation = TRUE]
      <3>3. v \in Writes /\ v.accept = k.write.accept /\ v.status = "pending"
        BY <1>1, ObservedIs DEF Pending
      <3>4. v # None
        BY <3>3, NoneIsNone
      <3> HIDE DEF v
      <3>5. Remember(k, s).write = v
        BY <3>2 DEF v
      <3> QED BY <3>1, <3>2, <3>3, <3>4, <3>5 DEF Pending
    <2>4. CASE Changed(e, s, knownWrite)
      <3>1. Apply(k, r) = OnlyClient(NewLocal(e, s))
        BY <2>0, <2>4
      <3>2. ~k.write.accept
        <4>1. ASSUME k.write.accept PROVE FALSE
          <5>1. o = Remember(k, s) /\ Known(o, s)
            BY <1>5, <2>3, <4>1 DEF Known
          <5>2. e = o /\ o.write.accept
            BY <2>3, <4>1, <5>1
          <5> QED BY <2>4, <5>2 DEF Changed
        <4> QED BY <4>1
      <3>3. o = k
        BY <3>2
      <3>4. CASE ~Known(k, s)
        <4>1. e = [k EXCEPT !.evidence = <<>>]
          BY <1>5, <3>3, <3>4
        <4>2. NewLocal(e, s) = NewLocal(k, s)
          BY <1>1, <4>1, NewLocalForgets
        <4> HIDE DEF e
        <4> QED BY <3>1, <3>4, <4>2, UnknownSound DEF Known
      <3>5. CASE Known(k, s)
        <4>1. e = k
          BY <3>3, <3>5
        <4>2. knownWrite <=> EvidenceFor(k, s) # {}
          BY <1>5, <3>3
        <4> HIDE DEF e, knownWrite
        <4>3. /\ k.write.attempt > 1 /\ EvidenceFor(k, s) = {}
              /\ ~k.write.hasObservation \/ s # k.write.observed
          BY <2>4, <4>1, <4>2 DEF Changed
        <4>4. seen.act # 0 /\ coming = <<>>
          <5>1. CASE ~k.write.hasObservation
            BY <1>5, <3>2, <4>3, <5>1 DEF Unsighted
          <5>2. CASE k.write.hasObservation /\ s # k.write.observed
            <6>1. Of(k.evidence, s) = {}
              BY <4>3 DEF EvidenceFor, Of
            <6>2. k.write.observed = k.lastObserved \/ (seen.act # 0 /\ coming = <<>>)
              BY <5>2, <6>1 DEF Sound, Compared
            <6> QED BY <1>1, <5>2, <6>1, <6>2, UnknownIsCopy
          <5> QED BY <4>3, <5>1, <5>2
        <4> QED BY <1>5, <3>1, <3>2, <4>1, <4>3, <4>4
      <3> QED BY <3>4, <3>5
    <2>5. CASE ~Changed(e, s, knownWrite)
      <3>1. Observing(m, k)
        <4>1. CASE k.write.accept
          <5>1. o = Remember(k, s) /\ Known(o, s)
            BY <1>5, <2>3, <4>1 DEF Known
          <5>2. e = o
            BY <5>1
          <5>3. EvidenceFor(o, s) = {}
            <6>1. k.evidence \in Seq(Findings)
              BY <1>1 DEF Clients
            <6>2. Of(o.evidence, s) = {}
              BY <1>1, <2>3, <5>1, <6>1, ConsumedIs
            <6> QED BY <6>2 DEF EvidenceFor, Of
          <5>4. m = Remember(k, s)
            BY <5>1, <5>2, <5>3
          <5> HIDE DEF m
          <5> QED BY <1>5, <2>3, <4>1, <5>4 DEF Sound, Observing
        <4>2. CASE ~k.write.accept /\ ~Known(k, s)
          <5>1. o = k /\ e = [k EXCEPT !.evidence = <<>>]
            BY <1>5, <4>2
          <5>2. EvidenceFor(k, s) = {} /\ (~k.write.hasObservation \/ s # k.write.observed)
            BY <4>2 DEF Known
          <5>3. m = e
            BY <5>1, <5>2
          <5>4. /\ e \in Clients /\ InHand(e) /\ e.write = k.write /\ e.stopped = k.stopped
                /\ e.lastObserved = k.lastObserved
                /\ Board(e.lastObserved, e.lastLocal, e.evidence, seen, coming)
                /\ ~(Pending(k) /\ k.write.hasWritten) => Proven(e)
            BY <4>2, <5>1, ForgottenSound
          <5>5. ~knownWrite
            BY <5>1, <5>2
          <5> HIDE DEF e, m, knownWrite
          <5>6. ~(k.write.attempt > 1)
            BY <2>5, <4>2, <5>2, <5>4, <5>5 DEF Changed
          <5>7. Proven(e) /\ Pending(e)
            BY <5>4, <5>6 DEF Pending
          <5> QED BY <4>2, <5>1, <5>3, <5>4, <5>6, <5>7 DEF Observing
        <4>3. CASE ~k.write.accept /\ Known(k, s)
          <5>1. o = k /\ e = k
            BY <4>3
          <5>2. m = IF EvidenceFor(k, s) # {} THEN Remember(k, s) ELSE k
            BY <1>5, <5>1
          <5> HIDE DEF m
          <5> QED BY <1>1, <2>3, <4>3, <5>2 DEF Sound, Observing
        <4> QED BY <1>5, <4>1, <4>2, <4>3
      <3>2. Apply(k, r) = IF Full(w) THEN OnlyClient(Retry(w)) ELSE Perform(w, r)
        BY <2>0, <2>5
      <3> HIDE DEF m
      <3> QED BY <3>1, <3>2
    <2> QED BY <2>4, <2>5
  <1> QED BY <1>2, <1>3, <1>4, <1>5

\* applyClipboardWrite
LEMMA ApplyKeeps ==
    ASSUME NEW k, Sound(k, seen, coming), ~k.stopped, NEW r \in Results,
           Pending(k) => /\ k.write.attempt > 1 \/ ~k.write.hasWritten
                         /\ Unsighted(k, r) => seen.act # 0 /\ coming = <<>>,
           Clear(Apply(k, r), k)
    PROVE  Keeps(Apply(k, r))
  <1> DEFINE s == seen.content
  <1>1. k \in Clients /\ seen \in Snapshots
    BY DEF Sound, Board
  <1>2. CASE ~Pending(k)
    BY <1>2, OnlyClientKeeps DEF Apply
  <1>3. CASE Pending(k) /\ k.write.remote /\ ~Accepts(k.write.own)
    BY <1>3, CancelSound, OnlyClientKeeps DEF Apply
  <1>4. CASE Pending(k) /\ ~(k.write.remote /\ ~Accepts(k.write.own))
    <2>1. CASE /\ Apply(k, r) = OnlyClient(Confirm(k, s))
               /\ k.write.hasWritten /\ Same(k.write.content, s)
      BY <1>4, <2>1, ConfirmSound, OnlyClientKeeps
    <2>2. CASE Apply(k, r) = OnlyClient(Retry(k))
      BY <1>4, <2>2, RetrySound, OnlyClientKeeps
    <2>3. CASE Apply(k, r) = OnlyClient(NewLocal(k, s)) /\ seen.act # 0 /\ coming = <<>>
      BY <1>1, <2>3, NewLocalKeeps
    <2>4. ASSUME NEW m, Observing(m, k),
                 LET v == [m EXCEPT !.write.observed = s, !.write.hasObservation = TRUE]
                 IN  Apply(k, r) = IF Full(v) THEN OnlyClient(Retry(v)) ELSE Perform(v, r)
          PROVE  Keeps(Apply(k, r))
      <3> DEFINE v == [m EXCEPT !.write.observed = s, !.write.hasObservation = TRUE]
      <3>1. /\ m \in Clients /\ Proven(m) /\ InHand(m) /\ Pending(m) /\ ~m.stopped
            /\ m.lastObserved = k.lastObserved \/ m.lastObserved = s
            /\ Board(m.lastObserved, m.lastLocal, m.evidence, seen, coming)
        BY <2>4 DEF Observing
      <3>2. /\ Sound(v, seen, coming) /\ Pending(v) /\ v.lastObserved = m.lastObserved
            /\ v.stopped = m.stopped /\ v.write.hasObservation /\ v.write.observed = s
        BY <3>1, ObserveSound
      <3>3. Apply(k, r) = IF Full(v) THEN OnlyClient(Retry(v)) ELSE Perform(v, r)
        BY <2>4
      <3> HIDE DEF v
      <3>4. CASE Full(v)
        <4>1. Apply(k, r) = OnlyClient(Retry(v))
          BY <3>3, <3>4
        <4> QED BY <3>1, <3>2, <4>1, RetrySound, OnlyClientKeeps
      <3>5. CASE ~Full(v)
        <4>1. Apply(k, r) = Perform(v, r)
          BY <3>3, <3>5
        <4>2. Clear(Perform(v, r), v)
          BY <3>1, <3>2, <4>1 DEF Clear
        <4>3. Keeps(Perform(v, r))
          BY <3>2, <3>5, <4>2, PerformKeeps
        <4> QED BY <4>1, <4>3
      <3> QED BY <3>4, <3>5
    <2> QED BY <1>4, <2>1, <2>2, <2>3, <2>4, ApplyIs
  <1> QED BY <1>2, <1>3, <1>4

(***************************************************************************)
(* The methods that begin a write, send or hear.                            *)
(***************************************************************************)

\* A client that has settled what it has observed, or done nothing of the kind.
LEMMA SettledSound ==
    ASSUME NEW k, NEW q \in Clients, NEW sn, NEW cm, Sound(k, sn, cm), InHand(q),
           q.lastLocal = k.lastLocal \/ q.lastLocal = k.lastObserved,
           q.lastObserved = k.lastObserved, q.evidence = k.evidence, q.write = k.write,
           q.tokens = k.tokens
    PROVE  Sound(q, sn, cm)
  <1>1. Board(q.lastObserved, q.lastLocal, q.evidence, sn, cm)
    BY DEF Sound, Board
  <1>2. Proven(q) /\ Compared(q, sn, cm)
    BY DEF Sound, Proven, Compared, Pending
  <1> QED BY <1>1, <1>2 DEF Sound

\* A write of c is begun.
Begun(k, c, own, remote, accept) ==
    [Cancel(Outdated(k)) EXCEPT
       !.tokens = k.tokens + 1,
       !.write = [kind |-> "write", content |-> c, own |-> own, remote |-> remote,
                  accept |-> accept, status |-> "pending", attempt |-> 1,
                  timer |-> FALSE, hasWritten |-> FALSE, actual |-> Nothing,
                  token |-> k.tokens + 1, observed |-> k.lastObserved,
                  hasObservation |-> k.baseline]]

LEMMA BegunSound ==
    ASSUME NEW k, Sound(k, seen, coming), ~k.stopped, NEW c \in Contents, NEW own \in BOOLEAN,
           NEW remote \in BOOLEAN, NEW accept \in BOOLEAN
    PROVE  LET q == Begun(k, c, own, remote, accept) IN
           /\ Sound(q, seen, coming) /\ ~q.stopped /\ Pending(q)
           /\ q.lastObserved = k.lastObserved /\ q.evidence = k.evidence
           /\ q.baseline = k.baseline /\ q.event = k.event
           /\ q.ids = k.ids /\ q.submitted = k.submitted
           /\ q.polling # None => q.polling.stale
           /\ ~q.write.hasWritten /\ q.write.attempt = 1 /\ ~q.write.timer
           /\ q.write.content = c /\ q.write.own = own /\ q.write.remote = remote
           /\ q.write.accept = accept /\ q.write.observed = k.lastObserved
           /\ q.write.hasObservation = k.baseline
  <1> DEFINE i == Cancel(Outdated(k))
             v == [kind |-> "write", content |-> c, own |-> own, remote |-> remote,
                   accept |-> accept, status |-> "pending", attempt |-> 1,
                   timer |-> FALSE, hasWritten |-> FALSE, actual |-> Nothing,
                   token |-> k.tokens + 1, observed |-> k.lastObserved,
                   hasObservation |-> k.baseline]
             q == [i EXCEPT !.tokens = k.tokens + 1, !.write = v]
  <1>1. k \in Clients /\ Proven(k) /\ k.tokens \in Nat /\ k.lastObserved \in Shown
        /\ k.baseline \in BOOLEAN
    BY DEF Sound, Clients
  <1>2. /\ i \in Clients /\ Sound(i, seen, coming) /\ i.stopped = k.stopped
        /\ i.lastObserved = k.lastObserved /\ i.tokens = k.tokens /\ i.write = None
        /\ i.evidence = k.evidence /\ i.baseline = k.baseline /\ i.event = k.event
        /\ i.ids = k.ids /\ i.submitted = k.submitted
        /\ i.polling # None => i.polling.stale
    BY <1>1, OutdatedIs, OutdatedSound, CancelIs, CancelSound DEF SameButWrite, SameButPolling
  <1>3. k.tokens + 1 \in Nat /\ Nothing \in Shown
    BY <1>1 DEF Shown
  <1>4. v \in Writes
    BY <1>1, <1>3 DEF Writes
  <1>5. /\ v.token = k.tokens + 1 /\ ~v.hasWritten /\ v.attempt = 1 /\ ~v.timer
        /\ v.observed = k.lastObserved /\ v.status = "pending" /\ v # None
        /\ v.content = c /\ v.own = own /\ v.remote = remote /\ v.accept = accept
        /\ v.hasObservation = k.baseline
    BY <1>4, NoneIsNone
  <1>6. Begun(k, c, own, remote, accept) = q
    BY DEF Begun
  <1> HIDE DEF i, v
  <1>7. /\ q \in Clients /\ q.write = v /\ q.tokens = k.tokens + 1
        /\ q.lastLocal = i.lastLocal /\ q.lastObserved = i.lastObserved
        /\ q.baseline = i.baseline /\ q.guard = i.guard /\ q.event = i.event
        /\ q.evidence = i.evidence /\ q.polling = i.polling /\ q.stopped = i.stopped
        /\ q.ids = i.ids /\ q.submitted = i.submitted
    <2>1. i \in Clients /\ v \in Writes /\ k.tokens + 1 \in Nat
      BY <1>2, <1>3, <1>4
    <2> QED BY <2>1 DEF Clients
  <1> HIDE DEF q
  <1>8. Proven(q)
    <2>1. Tokens(i.evidence, k.tokens)
      BY <1>2 DEF Sound, Proven
    <2>2. \A j \in DOMAIN i.evidence : i.evidence[j].token \in Nat
      <3>1. i.evidence \in Seq(Findings)
        BY <2>1 DEF Tokens
      <3>2. \A j \in DOMAIN i.evidence : i.evidence[j] \in Findings
        BY <3>1, LenProperties, ElementOfSeq
      <3> QED BY <3>2 DEF Findings
    <2>3. \A j \in DOMAIN i.evidence : i.evidence[j].token <= k.tokens + 1 /\ i.evidence[j].token # k.tokens + 1
      BY <1>1, <2>1, <2>2 DEF Tokens
    <2>4. Tokens(q.evidence, q.tokens)
      BY <1>1, <1>7, <2>1, <2>3 DEF Tokens
    <2> QED BY <1>5, <1>7, <2>3, <2>4 DEF Proven
  <1>9. InHand(q)
    BY <1>1, <1>2, <1>5, <1>7 DEF Sound, InHand
  <1>10. Board(q.lastObserved, q.lastLocal, q.evidence, seen, coming)
    BY <1>2, <1>7 DEF Sound
  <1>11. Compared(q, seen, coming)
    BY <1>2, <1>5, <1>7 DEF Compared
  <1>12. Sound(q, seen, coming) /\ Pending(q)
    BY <1>5, <1>7, <1>8, <1>9, <1>10, <1>11 DEF Sound, Pending
  <1> QED BY <1>2, <1>5, <1>6, <1>7, <1>12

\* beginWrite
LEMMA BeginKeeps ==
    ASSUME NEW k, Sound(k, seen, coming), ~k.stopped, NEW c \in Contents, NEW own \in BOOLEAN,
           NEW remote \in BOOLEAN, NEW accept \in BOOLEAN, NEW r \in Results,
           Clear(Begin(k, c, own, remote, accept, r), k)
    PROVE  Keeps(Begin(k, c, own, remote, accept, r))
  <1> DEFINE q == Begun(k, c, own, remote, accept)
  <1>1. Begin(k, c, own, remote, accept, r) = Apply(q, r)
    BY DEF Begin, Begun
  <1>2. /\ Sound(q, seen, coming) /\ ~q.stopped /\ q.lastObserved = k.lastObserved
        /\ ~q.write.hasWritten /\ q.write.attempt = 1
    BY BegunSound
  <1> HIDE DEF q
  <1>3. Clear(Apply(q, r), q)
    BY <1>1, <1>2 DEF Clear
  <1>4. ~Unsighted(q, r)
    BY <1>2 DEF Unsighted
  <1>5. Keeps(Apply(q, r))
    BY <1>2, <1>3, <1>4, ApplyKeeps
  <1> QED BY <1>1, <1>5

\* acknowledgeLocalEvent
LEMMA AcknowledgeSound ==
    ASSUME NEW k, Sound(k, seen, coming), NEW id
    PROVE  LET q == Acknowledge(k, id) IN
           /\ Sound(q, seen, coming) /\ q.stopped = k.stopped
           /\ q.lastObserved = k.lastObserved
  <1>1. k \in Clients /\ InHand(k)
    BY DEF Sound
  <1>2. CASE k.event = None \/ k.event.id # id
    BY <1>2 DEF Acknowledge
  <1>3. CASE ~(k.event = None \/ k.event.id # id)
    <2> DEFINE a == [k EXCEPT !.waiting = @ \ {k.event.content}]
               b == [a EXCEPT !.lastLocal = k.event.content, !.baseline = TRUE]
    <2>1. a \in Clients /\ Sound(a, seen, coming) /\ a.stopped = k.stopped
          /\ a.lastObserved = k.lastObserved
      <3>1. /\ a \in Clients
            /\ a.lastLocal = k.lastLocal /\ a.lastObserved = k.lastObserved
            /\ a.baseline = k.baseline /\ a.guard = k.guard /\ a.event = k.event
            /\ a.evidence = k.evidence /\ a.write = k.write /\ a.polling = k.polling
            /\ a.stopped = k.stopped /\ a.tokens = k.tokens
        BY <1>1 DEF Clients
      <3> HIDE DEF a
      <3> QED BY <3>1, SoundSame
    <2>2. Acknowledge(k, id) = IF k.lastObserved = k.event.content THEN b ELSE a
      BY <1>3 DEF Acknowledge
    <2> HIDE DEF a
    <2>3. CASE k.lastObserved = k.event.content
      <3>1. k.event.content \in Shown
        BY <1>1, <2>3 DEF Clients
      <3>2. /\ b \in Clients /\ b.lastLocal = k.event.content /\ b.baseline = TRUE
            /\ b.lastObserved = a.lastObserved /\ b.guard = a.guard /\ b.event = a.event
            /\ b.evidence = a.evidence /\ b.write = a.write /\ b.polling = a.polling
            /\ b.stopped = a.stopped /\ b.tokens = a.tokens
        BY <2>1, <3>1 DEF Clients
      <3> HIDE DEF b
      <3>3. InHand(b)
        BY <2>1, <2>3, <3>2 DEF Sound, InHand
      <3>4. b.lastLocal = a.lastObserved
        BY <2>1, <2>3, <3>2
      <3>5. Sound(b, seen, coming)
        BY <2>1, <3>2, <3>3, <3>4, SettledSound
      <3> QED BY <2>1, <2>2, <2>3, <3>2, <3>5
    <2>4. CASE k.lastObserved # k.event.content
      BY <2>1, <2>2, <2>4
    <2> QED BY <2>3, <2>4
  <1> QED BY <1>2, <1>3

\* sendLocalSnapshot, of the copy in hand
LEMMA SendIs ==
    ASSUME NEW k \in Clients, NEW s \in Contents, k.event # None, k.event.content = s,
           settings.sending \in Sendings
    PROVE  LET w == Send(k, s)
               q == w.client
           IN  /\ w.seen = seen /\ w.coming = coming
               /\ q \in Clients /\ q.event \in Copies /\ q.event.content = s
               /\ q.event.act = k.event.act
               /\ \/ q.event.id = k.event.id /\ q.ids = k.ids
                  \/ q.event.id = k.ids + 1 /\ q.ids = k.ids + 1
               /\ q.lastObserved = k.lastObserved /\ q.baseline = k.baseline
               /\ q.guard = k.guard /\ q.evidence = k.evidence /\ q.write = k.write
               /\ q.polling = k.polling /\ q.stopped = k.stopped /\ q.tokens = k.tokens
               /\ \/ /\ w.sent = <<>> /\ q.submitted = k.submitted
                     /\ q.lastLocal = k.lastLocal \/ q.lastLocal = s
                  \/ /\ w.sent = <<[id |-> q.event.id, content |-> s, act |-> k.event.act]>>
                     /\ q.submitted = q.event.id /\ q.lastLocal = k.lastLocal
  <1> DEFINE route == settings.sending
             again == k.event # None /\ k.event.route \in {"none", route}
             e1 == [k EXCEPT !.event.route = route]
             e2 == [k EXCEPT !.event = Copied(k, s, Author(k, s), route), !.ids = k.ids + 1]
             e == IF again THEN e1 ELSE e2
             x == [e EXCEPT !.submitted = e.event.id, !.waiting = @ \cup {s}]
             n == [k EXCEPT !.lastLocal = s]
             m == [id |-> e.event.id, content |-> s, act |-> Author(k, s)]
  <1>1. k.event \in Copies /\ s \in Shown
    BY DEF Clients, Shown
  <1>2. Author(k, s) = k.event.act /\ k.event.act \in Nat \ {0}
    BY <1>1 DEF Author, Copies
  <1>3. CASE route = "nobody"
    <2>1. Send(k, s) = OnlyClient(n)
      BY <1>3 DEF Send
    <2>2. /\ n \in Clients /\ n.lastLocal = s /\ n.baseline = k.baseline
          /\ n.lastObserved = k.lastObserved /\ n.guard = k.guard /\ n.event = k.event
          /\ n.evidence = k.evidence /\ n.write = k.write /\ n.polling = k.polling
          /\ n.stopped = k.stopped /\ n.tokens = k.tokens /\ n.ids = k.ids
          /\ n.submitted = k.submitted
      BY <1>1 DEF Clients
    <2> HIDE DEF n
    <2> QED BY <1>1, <2>1, <2>2 DEF OnlyClient
  <1>4. CASE route = "deferred"
    <2>1. Send(k, s) = OnlyClient(k)
      BY <1>4 DEF Send
    <2> QED BY <1>1, <2>1 DEF OnlyClient
  <1>5. CASE route # "nobody" /\ route # "deferred"
    <2>1. Send(k, s) = IF online THEN [OnlyClient(x) EXCEPT !.sent = <<m>>] ELSE OnlyClient(e)
      BY <1>5 DEF Send
    <2>2. /\ e \in Clients /\ e.event \in Copies /\ e.event.content = s
          /\ e.event.act = k.event.act
          /\ \/ e.event.id = k.event.id /\ e.ids = k.ids
             \/ e.event.id = k.ids + 1 /\ e.ids = k.ids + 1
          /\ e.lastLocal = k.lastLocal /\ e.lastObserved = k.lastObserved
          /\ e.baseline = k.baseline /\ e.guard = k.guard /\ e.submitted = k.submitted
          /\ e.evidence = k.evidence /\ e.write = k.write /\ e.polling = k.polling
          /\ e.stopped = k.stopped /\ e.tokens = k.tokens
      <3>1. CASE again
        <4> DEFINE v == [k.event EXCEPT !.route = route]
        <4>1. v \in Copies /\ v.content = s /\ v.act = k.event.act /\ v.id = k.event.id
          BY <1>1 DEF Copies
        <4>2. e = [k EXCEPT !.event = v]
          BY <1>1, <3>1 DEF Clients, Copies
        <4> HIDE DEF v, e
        <4> QED BY <1>1, <4>1, <4>2 DEF Clients
      <3>2. CASE ~again
        <4> DEFINE v == Copied(k, s, Author(k, s), route)
        <4>1. /\ v \in Copies /\ v.content = s /\ v.act = k.event.act /\ v.id = k.ids + 1
              /\ k.ids + 1 \in Nat
          BY <1>1, <1>2 DEF Copies, Copied, Clients
        <4>2. e = [k EXCEPT !.event = v, !.ids = k.ids + 1]
          BY <3>2
        <4> HIDE DEF v, e
        <4> QED BY <1>1, <4>1, <4>2 DEF Clients
      <3> QED BY <3>1, <3>2
    <2> HIDE DEF e
    <2>3. /\ x \in Clients /\ x.submitted = e.event.id /\ x.ids = e.ids
          /\ x.lastLocal = e.lastLocal /\ x.lastObserved = e.lastObserved
          /\ x.baseline = e.baseline /\ x.guard = e.guard /\ x.event = e.event
          /\ x.evidence = e.evidence /\ x.write = e.write /\ x.polling = e.polling
          /\ x.stopped = e.stopped /\ x.tokens = e.tokens
      <3>1. e.event.id \in Nat
        BY <2>2 DEF Copies
      <3> QED BY <1>1, <2>2, <3>1 DEF Clients
    <2> HIDE DEF x
    <2>4. CASE online
      <3> DEFINE w == [OnlyClient(x) EXCEPT !.sent = <<m>>]
      <3>1. /\ w.client = x /\ w.seen = seen /\ w.coming = coming
            /\ w.sent = <<[id |-> x.event.id, content |-> s, act |-> k.event.act]>>
        BY <1>2, <2>3 DEF OnlyClient
      <3>2. Send(k, s) = w
        BY <2>1, <2>4
      <3> HIDE DEF w
      <3> QED BY <2>2, <2>3, <3>1, <3>2
    <2>5. CASE ~online
      <3>1. Send(k, s) = OnlyClient(e)
        BY <2>1, <2>5
      <3> QED BY <2>2, <3>1 DEF OnlyClient
    <2> QED BY <2>4, <2>5
  <1> QED BY <1>3, <1>4, <1>5

LEMMA SendKeeps ==
    ASSUME NEW k, Sound(k, seen, coming), ~k.stopped, NEW s, s = k.lastObserved,
           k.event # None, k.event.content = s, settings.sending \in Sendings
    PROVE  Keeps(Send(k, s))
  <1> DEFINE w == Send(k, s)
             q == w.client
  <1>1. /\ k \in Clients /\ InHand(k) /\ k.event \in Copies /\ s \in Contents
        /\ k.event.act \in Nat \ {0}
    BY NoneIsNone DEF Sound, Clients, Copies
  <1>2. /\ w.seen = seen /\ w.coming = coming
        /\ q \in Clients /\ q.event \in Copies /\ q.event.content = s
        /\ q.lastObserved = k.lastObserved /\ q.baseline = k.baseline
        /\ q.guard = k.guard /\ q.evidence = k.evidence /\ q.write = k.write
        /\ q.polling = k.polling /\ q.stopped = k.stopped /\ q.tokens = k.tokens
        /\ q.lastLocal = k.lastLocal \/ q.lastLocal = s
        /\ w.sent = <<>> \/ w.sent = <<[id |-> q.event.id, content |-> s, act |-> k.event.act]>>
    BY <1>1, SendIs
  <1> HIDE DEF w
  <1>3. InHand(q)
    BY <1>1, <1>2, NoneIsNone DEF InHand
  <1>4. Sound(q, seen, coming) /\ ~q.stopped
    BY <1>2, <1>3, SettledSound
  <1>5. w.sent \in Seq(Messages)
    <2> DEFINE m == [id |-> q.event.id, content |-> s, act |-> k.event.act]
    <2>1. m \in Messages
      BY <1>1, <1>2 DEF Messages, Copies
    <2> HIDE DEF m
    <2>2. <<m>> \in Seq(Messages) /\ <<>> \in Seq(Messages)
      BY <2>1
    <2> QED BY <1>2, <2>2 DEF m
  <1> QED BY <1>2, <1>4, <1>5 DEF Keeps, w

\* processLocalSnapshot, of what is not one of the client's own writes
LEMMA LocalKeeps ==
    ASSUME NEW k, Sound(k, seen, coming), ~k.stopped, EvidenceFor(k, seen.content) = {},
           settings.sending \in Sendings
    PROVE  Keeps(Local(k, seen.content))
  <1> DEFINE s == seen.content
             n == IF s = k.lastObserved THEN k ELSE NewLocal(k, s)
             set == [n EXCEPT !.lastLocal = s, !.baseline = TRUE]
             unguarded == [set EXCEPT !.guard = @ \ {s}]
             asked == [n EXCEPT !.polling = [kind |-> "polling", content |-> s, stale |-> FALSE]]
  <1>1. s \in Shown /\ k \in Clients
    BY DEF Sound, Board, Snapshots
  <1>2. Sound(n, seen, coming) /\ ~n.stopped /\ n.lastObserved = s
    <2>1. CASE s = k.lastObserved
      BY <2>1
    <2>2. CASE s # k.lastObserved
      <3>1. Of(k.evidence, s) = {}
        BY DEF EvidenceFor, Of
      <3>2. Board(k.lastObserved, k.lastLocal, k.evidence, seen, coming)
        BY DEF Sound
      <3>3. seen.act # 0 /\ coming = <<>>
        BY <2>2, <3>1, <3>2, UnknownIsCopy
      <3>4. seen \in Snapshots
        BY <3>2 DEF Board
      <3> QED BY <1>1, <2>2, <3>3, <3>4, NewLocalSound, NewLocalIs
    <2> QED BY <2>1, <2>2
  <1>3. Local(k, s) =
          IF s = Nothing THEN OnlyClient([set EXCEPT !.waiting = {}])
          ELSE IF ~n.baseline THEN OnlyClient(set)
          ELSE IF s = n.lastLocal \/ s \in n.waiting THEN OnlyClient(n)
          ELSE IF s \in n.guard THEN OnlyClient(unguarded)
          ELSE IF settings.sending = "nobody" THEN OnlyClient(set)
          ELSE IF asks THEN OnlyClient(asked) ELSE Send(n, s)
    BY DEF Local
  <1> HIDE DEF n
  <1>4. n \in Clients /\ InHand(n)
    BY <1>2 DEF Sound
  <1>5. /\ set \in Clients /\ set.lastLocal = s /\ set.lastObserved = n.lastObserved
        /\ set.baseline = TRUE /\ set.guard = n.guard /\ set.event = n.event
        /\ set.evidence = n.evidence /\ set.write = n.write /\ set.polling = n.polling
        /\ set.stopped = n.stopped /\ set.tokens = n.tokens
    BY <1>1, <1>4 DEF Clients
  <1>6. Sound(set, seen, coming) /\ ~set.stopped
    <2> HIDE DEF set
    <2>1. InHand(set)
      BY <1>2, <1>4, <1>5 DEF InHand
    <2> QED BY <1>2, <1>5, <2>1, SettledSound
  <1>7. Keeps(OnlyClient(n)) /\ Keeps(OnlyClient(set))
    BY <1>2, <1>6, OnlyClientKeeps
  <1>8. Keeps(OnlyClient([set EXCEPT !.waiting = {}]))
    <2> HIDE DEF set
    <2> DEFINE q == [set EXCEPT !.waiting = {}]
    <2>1. /\ q \in Clients /\ q.lastLocal = set.lastLocal /\ q.lastObserved = set.lastObserved
          /\ q.baseline = set.baseline /\ q.guard = set.guard /\ q.event = set.event
          /\ q.evidence = set.evidence /\ q.write = set.write /\ q.polling = set.polling
          /\ q.stopped = set.stopped /\ q.tokens = set.tokens
      BY <1>5 DEF Clients
    <2> HIDE DEF q
    <2>2. Sound(q, seen, coming) /\ ~q.stopped
      BY <1>6, <2>1, SoundSame
    <2>3. Keeps(OnlyClient(q))
      BY <2>2, OnlyClientKeeps
    <2> QED BY <2>3 DEF q
  <1>9. Keeps(OnlyClient(unguarded))
    <2> HIDE DEF set
    <2>0. set.guard \ {s} \in SUBSET Shown
      BY <1>5 DEF Clients
    <2>1. /\ unguarded \in Clients /\ unguarded.lastLocal = set.lastLocal
          /\ unguarded.lastObserved = set.lastObserved
          /\ unguarded.baseline = set.baseline /\ unguarded.event = set.event
          /\ unguarded.evidence = set.evidence /\ unguarded.write = set.write
          /\ unguarded.polling = set.polling
          /\ unguarded.stopped = set.stopped /\ unguarded.tokens = set.tokens
      BY <1>5, <2>0 DEF Clients
    <2> HIDE DEF unguarded
    <2>2. InHand(unguarded)
      BY <1>2, <1>5, <1>6, <2>1 DEF Sound, InHand
    <2>3. Sound(unguarded, seen, coming) /\ ~unguarded.stopped
      BY <1>6, <2>1, <2>2, SettledSound
    <2> QED BY <2>3, OnlyClientKeeps
  <1>10. CASE s # Nothing /\ n.baseline /\ s # n.lastLocal
    <2>1. n.event # None /\ n.event.content = s /\ s \in Contents
      BY <1>1, <1>2, <1>4, <1>10 DEF InHand, Shown
    <2>2. Keeps(Send(n, s))
      BY <1>2, <2>1, SendKeeps
    <2>3. Keeps(OnlyClient(asked))
      <3> DEFINE p == [kind |-> "polling", content |-> s, stale |-> FALSE]
      <3>1. p \in Polls /\ p.content = s
        BY <2>1 DEF Polls
      <3>2. asked = [n EXCEPT !.polling = p]
        OBVIOUS
      <3> HIDE DEF p, asked
      <3>3. /\ asked \in Clients /\ asked.lastLocal = n.lastLocal
            /\ asked.lastObserved = n.lastObserved /\ asked.polling = p
            /\ asked.baseline = n.baseline /\ asked.guard = n.guard /\ asked.event = n.event
            /\ asked.evidence = n.evidence /\ asked.write = n.write
            /\ asked.stopped = n.stopped /\ asked.tokens = n.tokens
        BY <1>4, <3>1, <3>2 DEF Clients
      <3>4. InHand(asked)
        BY <1>2, <1>4, <2>1, <3>1, <3>3 DEF InHand
      <3>5. Sound(asked, seen, coming) /\ ~asked.stopped
        BY <1>2, <3>3, <3>4, SettledSound
      <3> QED BY <3>5, OnlyClientKeeps
    <2> HIDE DEF set, unguarded, asked
    <2> QED BY <1>3, <1>7, <1>9, <1>10, <2>2, <2>3
  <1> HIDE DEF set, unguarded, asked
  <1> QED BY <1>3, <1>7, <1>8, <1>9, <1>10

\* processLocalSnapshot
LEMMA ProcessKeeps ==
    ASSUME NEW k, Sound(k, seen, coming), ~k.stopped, settings.sending \in Sendings
    PROVE  Keeps(Process(k, seen.content))
  <1> DEFINE s == seen.content
             c == IF Pending(k) /\ k.write.remote /\ ~Accepts(k.write.own) THEN Cancel(k) ELSE k
  <1>1. Sound(c, seen, coming) /\ ~c.stopped
    BY CancelSound
  <1>2. Process(k, s) =
          IF Pending(c) /\ c.write.hasWritten /\ Same(c.write.content, s)
          THEN OnlyClient(Confirm(c, s))
          ELSE IF (Pending(c) /\ c.write.accept /\ Known(c, s)) \/ Recognised(c, s)
          THEN OnlyClient(Remember(c, s)) ELSE Local(c, s)
    BY DEF Process
  <1> HIDE DEF c
  <1>3. CASE Pending(c) /\ c.write.hasWritten /\ Same(c.write.content, s)
    BY <1>1, <1>2, <1>3, ConfirmSound, OnlyClientKeeps
  <1>4. CASE ~(Pending(c) /\ c.write.hasWritten /\ Same(c.write.content, s))
    <2>1. Keeps(OnlyClient(Remember(c, s)))
      BY <1>1, <1>4, RememberSound, OnlyClientKeeps
    <2>2. ~Recognised(c, s) => Keeps(Local(c, s))
      BY <1>1, LocalKeeps DEF Recognised
    <2> QED BY <1>2, <1>4, <2>1, <2>2
  <1> QED BY <1>3, <1>4

\* A copy or selection makes the client forget what it has submitted.
LEMMA SubmittedSound ==
    ASSUME NEW k, Sound(k, seen, coming)
    PROVE  LET q == [k EXCEPT !.submitted = 0] IN
           /\ Sound(q, seen, coming) /\ q.stopped = k.stopped /\ q.lastObserved = k.lastObserved
  <1> DEFINE q == [k EXCEPT !.submitted = 0]
  <1>1. k \in Clients
    BY DEF Sound
  <1>2. /\ q \in Clients
        /\ q.lastLocal = k.lastLocal /\ q.lastObserved = k.lastObserved
        /\ q.baseline = k.baseline /\ q.guard = k.guard /\ q.event = k.event
        /\ q.evidence = k.evidence /\ q.write = k.write /\ q.polling = k.polling
        /\ q.stopped = k.stopped /\ q.tokens = k.tokens
    BY <1>1 DEF Clients
  <1> HIDE DEF q
  <1>3. Sound(q, seen, coming)
    BY <1>2, SoundSame
  <1> QED BY <1>2, <1>3 DEF q

\* applyRemoteEvent, for an event of this device
LEMMA HearOwnKeeps ==
    ASSUME Sound(client, seen, coming), ~client.stopped, NEW m, m.content \in Contents,
           NEW r \in Results, ~Confused(HearOwn(m, r))
    PROVE  Keeps(HearOwn(m, r))
  <1> DEFINE k == Acknowledge(client, m.id)
             n == [k EXCEPT !.submitted = 0]
             s == seen.content
             there == /\ r.before /\ s = m.content /\ n.evidence = <<>>
                      /\ ~(n.write # None /\ n.write.remote /\ n.write.hasWritten)
  <1>1. Sound(k, seen, coming) /\ ~k.stopped /\ k.lastObserved = client.lastObserved
    BY AcknowledgeSound
  <1>2. HearOwn(m, r) =
          IF ~EchoIsDue(m) THEN OnlyClient(k)
          ELSE IF r.before /\ ~Known(n, s) THEN OnlyClient(NewLocal(n, s))
          ELSE IF ~Accepts(TRUE) THEN OnlyClient(n)
          ELSE IF there THEN OnlyClient(Cancel(n))
          ELSE Begin(n, m.content, TRUE, TRUE, TRUE, r)
    BY DEF HearOwn
  <1> HIDE DEF k
  <1>3. Sound(n, seen, coming) /\ ~n.stopped /\ n.lastObserved = client.lastObserved
    BY <1>1, SubmittedSound
  <1> HIDE DEF n, there
  <1>4. CASE ~EchoIsDue(m)
    <2>1. HearOwn(m, r) = OnlyClient(k)
      BY <1>2, <1>4
    <2> QED BY <1>1, <2>1, OnlyClientKeeps
  <1>5. CASE EchoIsDue(m) /\ r.before /\ ~Known(n, s)
    <2>1. HearOwn(m, r) = OnlyClient(NewLocal(n, s))
      BY <1>2, <1>5
    <2>2. n \in Clients
      BY <1>3 DEF Sound
    <2> QED BY <1>3, <1>5, <2>1, <2>2, UnknownSound, NewLocalKeeps
  <1>6. CASE EchoIsDue(m) /\ ~(r.before /\ ~Known(n, s)) /\ ~Accepts(TRUE)
    <2>1. HearOwn(m, r) = OnlyClient(n)
      BY <1>2, <1>6
    <2> QED BY <1>3, <2>1, OnlyClientKeeps
  <1>7. CASE EchoIsDue(m) /\ ~(r.before /\ ~Known(n, s)) /\ Accepts(TRUE) /\ there
    <2>1. HearOwn(m, r) = OnlyClient(Cancel(n))
      BY <1>2, <1>7
    <2> QED BY <1>3, <2>1, CancelSound, OnlyClientKeeps
  <1>8. CASE EchoIsDue(m) /\ ~(r.before /\ ~Known(n, s)) /\ Accepts(TRUE) /\ ~there
    <2>1. HearOwn(m, r) = Begin(n, m.content, TRUE, TRUE, TRUE, r)
      BY <1>2, <1>8
    <2> DEFINE w == Begin(n, m.content, TRUE, TRUE, TRUE, r)
    <2>2. Clear(w, n)
      BY <1>3, <2>1 DEF Confused, Clear
    <2>3. Keeps(w)
      BY <1>3, <2>2, BeginKeeps
    <2> QED BY <2>1, <2>3
  <1> QED BY <1>4, <1>5, <1>6, <1>7, <1>8

(***************************************************************************)
(* The steps.                                                               *)
(***************************************************************************)

\* A step of the client that keeps what its methods keep.
LEMMA BringsKeeps ==
    ASSUME GuardInv, NEW step, NEW d, NEW n, Brings(step, d, n), Keeps(step)
    PROVE  /\ Sound(client', seen', coming') /\ ~client'.stopped
           /\ up' \in Seq(Messages)
  <1>1. /\ client' = step.client /\ seen' = step.seen /\ coming' = step.coming
        /\ up' = up \o step.sent
    BY DEF Brings, Yields
  <1>2. up \in Seq(Messages) /\ step.sent \in Seq(Messages)
    BY DEF GuardInv, Keeps
  <1>3. up \o step.sent \in Seq(Messages)
    BY <1>2, ConcatProperties
  <1> QED BY <1>1, <1>3 DEF Keeps

LEMMA PollKeeps ==
    ASSUME GuardInv, Poll
    PROVE  GuardInv'
  <1>1. Sound(client, seen, coming) /\ ~client.stopped /\ settings.sending \in Sendings
    BY DEF GuardInv, Poll
  <1>2. Brings(Process(client, seen.content), due, heeded)
    BY DEF Poll, Becomes
  <1>3. Sound(client', seen', coming') /\ ~client'.stopped /\ up' \in Seq(Messages)
    BY <1>1, <1>2, ProcessKeeps, BringsKeeps
  <1> QED BY <1>3 DEF GuardInv, Poll

LEMMA SourceAnsweredKeeps ==
    ASSUME GuardInv, NEW ignored \in BOOLEAN, NEW read \in BOOLEAN, SourceAnswered(ignored, read)
    PROVE  GuardInv'
  <1> DEFINE p == client.polling
             k == [client EXCEPT !.polling = None]
             s == seen.content
             q == [k EXCEPT !.lastLocal = p.content]
             step == IF p.stale \/ ~read THEN OnlyClient(k)
                     ELSE IF s # p.content THEN Process(k, s)
                     ELSE IF ignored THEN OnlyClient(q) ELSE Send(k, p.content)
  <1>1. /\ Sound(client, seen, coming) /\ settings.sending \in Sendings
        /\ client \in Clients /\ InHand(client) /\ p # None
    BY DEF GuardInv, SourceAnswered, Sound
  <1>2. ~client.stopped /\ p \in Polls
    BY <1>1 DEF InHand, Clients
  <1>3. Brings(step, due, heeded)
    BY DEF SourceAnswered, Becomes
  <1>4. /\ k \in Clients /\ k.polling = None
        /\ k.lastLocal = client.lastLocal /\ k.lastObserved = client.lastObserved
        /\ k.baseline = client.baseline /\ k.guard = client.guard /\ k.event = client.event
        /\ k.evidence = client.evidence /\ k.write = client.write
        /\ k.stopped = client.stopped /\ k.tokens = client.tokens
    BY <1>1 DEF Clients
  <1> HIDE DEF k
  <1>5. Sound(k, seen, coming) /\ ~k.stopped
    <2>1. InHand(k)
      BY <1>1, <1>2, <1>4 DEF InHand
    <2> QED BY <1>1, <1>2, <1>4, <2>1, SettledSound
  <1>6. Keeps(OnlyClient(k)) /\ Keeps(Process(k, s))
    BY <1>1, <1>5, OnlyClientKeeps, ProcessKeeps
  <1>7. CASE p.stale \/ ~read \/ s # p.content
    <2>1. Keeps(step)
      BY <1>6, <1>7
    <2> HIDE DEF step
    <2>2. Sound(client', seen', coming') /\ ~client'.stopped /\ up' \in Seq(Messages)
      BY <1>3, <2>1, BringsKeeps
    <2> QED BY <2>2 DEF GuardInv, SourceAnswered
  <1>8. CASE ~p.stale /\ read /\ s = p.content
    <2>1. /\ k.event # None /\ k.event.content = k.lastObserved
          /\ p.content = k.lastObserved /\ p.content \in Shown
      BY <1>1, <1>2, <1>4, <1>8 DEF InHand, Polls, Shown
    <2>2. Keeps(OnlyClient(q))
      <3>1. /\ q \in Clients /\ q.lastLocal = p.content /\ q.lastObserved = k.lastObserved
            /\ q.baseline = k.baseline /\ q.guard = k.guard /\ q.event = k.event
            /\ q.evidence = k.evidence /\ q.write = k.write /\ q.polling = k.polling
            /\ q.stopped = k.stopped /\ q.tokens = k.tokens
        BY <1>4, <2>1 DEF Clients
      <3> HIDE DEF q, p
      <3>2. InHand(q)
        BY <1>4, <1>5, <2>1, <3>1 DEF InHand
      <3>3. Sound(q, seen, coming) /\ ~q.stopped
        BY <1>5, <2>1, <3>1, <3>2, SettledSound
      <3> QED BY <3>3, OnlyClientKeeps
    <2>3. Keeps(Send(k, p.content))
      <3> HIDE DEF p
      <3> QED BY <1>1, <1>5, <2>1, SendKeeps
    <2>4. Keeps(step)
      <3> HIDE DEF q, p
      <3> QED BY <1>8, <2>2, <2>3
    <2> HIDE DEF step
    <2>5. Sound(client', seen', coming') /\ ~client'.stopped /\ up' \in Seq(Messages)
      BY <1>3, <2>4, BringsKeeps
    <2> QED BY <2>5 DEF GuardInv, SourceAnswered
  <1> QED BY <1>7, <1>8

\* The write is tried again.
LEMMA RetriedSound ==
    ASSUME Sound(client, seen, coming), client.write # None
    PROVE  LET k == [client EXCEPT !.write.timer = FALSE, !.write.attempt = @ + 1] IN
           /\ Sound(k, seen, coming) /\ ~k.stopped /\ SameButWrite(k, client)
           /\ k.write # None /\ k.write.attempt > 1 /\ ~k.write.timer
           /\ k.write.content = client.write.content /\ k.write.own = client.write.own
           /\ k.write.remote = client.write.remote /\ k.write.accept = client.write.accept
           /\ k.write.status = client.write.status
           /\ k.write.hasWritten = client.write.hasWritten
           /\ k.write.observed = client.write.observed
           /\ k.write.hasObservation = client.write.hasObservation
  <1> DEFINE v == [client.write EXCEPT !.timer = FALSE, !.attempt = @ + 1]
             k == [client EXCEPT !.write.timer = FALSE, !.write.attempt = @ + 1]
  <1>1. client \in Clients /\ InHand(client) /\ client.write # None
    BY DEF Sound
  <1>2. client.write \in Writes /\ ~client.stopped
    BY <1>1 DEF Clients, InHand
  <1>4. /\ v \in Writes /\ v.content = client.write.content /\ v.token = client.write.token
        /\ v.status = client.write.status /\ v.hasWritten = client.write.hasWritten
        /\ v.observed = client.write.observed
        /\ v.hasObservation = client.write.hasObservation /\ v.attempt > 1
        /\ v.accept = client.write.accept /\ v.own = client.write.own
        /\ v.remote = client.write.remote /\ ~v.timer
    <2>1. client.write.attempt + 1 \in Nat \ {0} /\ client.write.attempt + 1 > 1
      BY <1>2 DEF Writes
    <2>2. v = [client.write EXCEPT !.timer = FALSE, !.attempt = client.write.attempt + 1]
      BY <1>2 DEF Writes
    <2> DEFINE next == client.write.attempt + 1
    <2> HIDE DEF v, next
    <2>3. v = [client.write EXCEPT !.timer = FALSE, !.attempt = next]
      BY <2>2 DEF next
    <2>4. next \in Nat \ {0} /\ next > 1
      BY <2>1 DEF next
    <2> QED BY <1>2, <2>3, <2>4 DEF Writes
  <1>5. k = [client EXCEPT !.write = v]
    BY <1>1, <1>2 DEF Clients, Writes
  <1> HIDE DEF v, k
  <1>6. k \in Clients /\ k.write = v /\ SameButWrite(k, client)
    BY <1>1, <1>4, <1>5, WriteSet
  <1>7. Sound(k, seen, coming)
    BY <1>1, <1>4, <1>5, RewriteSound
  <1>8. ~k.stopped /\ k.write # None
    BY <1>2, <1>4, <1>6, NoneIsNone DEF SameButWrite
  <1> QED BY <1>4, <1>6, <1>7, <1>8 DEF k

LEMMA RetryWriteKeeps ==
    ASSUME ~confused', GuardInv, NEW r \in Results, RetryWrite(r)
    PROVE  GuardInv'
  <1> DEFINE k == [client EXCEPT !.write.timer = FALSE, !.write.attempt = @ + 1]
             step == Apply(k, r)
             d == IF Unseeing(r) THEN Due(seen.content) ELSE due
             n == IF Unseeing(r) THEN seen.act ELSE heeded
  <1>0. Yields(step, d, n, Blind(r))
    BY DEF RetryWrite
  <1>1. Sound(client, seen, coming) /\ client.write # None /\ ~Blind(r)
    BY <1>0 DEF GuardInv, RetryWrite, Yields
  <1>2. Brings(step, d, n) /\ ~Confused(step)
    BY <1>0, <1>1 DEF Brings, Yields
  <1>3. /\ Sound(k, seen, coming) /\ ~k.stopped /\ SameButWrite(k, client)
        /\ k.write.attempt > 1 /\ k.write.accept = client.write.accept
        /\ k.write.hasObservation = client.write.hasObservation
    BY <1>1, RetriedSound
  <1> HIDE DEF k
  <1>4. k.lastObserved = client.lastObserved /\ k.evidence = client.evidence
    BY <1>3 DEF SameButWrite
  <1>5. Unsighted(k, r) => seen.act # 0 /\ coming = <<>>
    <2>1. EvidenceFor(k, seen.content) = EvidenceFor(client, seen.content)
      BY <1>4 DEF EvidenceFor
    <2>2. Unsighted(k, r) => Unseeing(r)
      BY <1>3, <2>1 DEF Unsighted, Unseeing
    <2> QED BY <1>1, <2>2 DEF Blind
  <1>6. Clear(step, k)
    BY <1>2, <1>4 DEF Confused, Clear
  <1>7. Keeps(step)
    BY <1>3, <1>5, <1>6, ApplyKeeps
  <1> HIDE DEF step, d, n
  <1>8. Sound(client', seen', coming') /\ ~client'.stopped /\ up' \in Seq(Messages)
    BY <1>2, <1>7, BringsKeeps
  <1> QED BY <1>8 DEF GuardInv, RetryWrite

LEMMA HearKeeps ==
    ASSUME ~confused', GuardInv, NEW r \in Results, Hear(r)
    PROVE  GuardInv'
  <1> DEFINE m == Head(down)
  <1>1. /\ Sound(client, seen, coming) /\ ~client.stopped /\ down \in Seq(Answers)
        /\ down # <<>>
    BY DEF GuardInv, Hear
  <1>2. m \in Answers /\ down' \in Seq(Answers)
    BY <1>1, HeadTailProperties DEF Hear
  <1> HIDE DEF m
  <1>3. \/ \E d : Brings(OnlyClient(Acknowledge(client, m.id)), d, heeded)
        \/ m.type = "event" /\ m.own /\ \E d : Brings(HearOwn(m, r), d, heeded)
        \/ m.type = "event" /\ \E d :
             Brings(Begin(client, m.content, FALSE, TRUE, FALSE, r), d, heeded)
        \/ \E d : Brings(OnlyClient(client), d, heeded)
    BY DEF Hear, Becomes, m
  <1>4. m.type = "event" => m.content \in Contents
    BY <1>2 DEF Answers
  <1>5. Sound(client', seen', coming') /\ ~client'.stopped /\ up' \in Seq(Messages)
    <2>1. ASSUME NEW d, Brings(OnlyClient(Acknowledge(client, m.id)), d, heeded)
          PROVE  Sound(client', seen', coming') /\ ~client'.stopped /\ up' \in Seq(Messages)
      <3>1. Keeps(OnlyClient(Acknowledge(client, m.id)))
        BY <1>1, AcknowledgeSound, OnlyClientKeeps
      <3> QED BY <2>1, <3>1, BringsKeeps
    <2>2. ASSUME m.type = "event", NEW d, Brings(HearOwn(m, r), d, heeded)
          PROVE  Sound(client', seen', coming') /\ ~client'.stopped /\ up' \in Seq(Messages)
      <3>1. ~Confused(HearOwn(m, r))
        BY <2>2 DEF Brings, Yields
      <3>2. Keeps(HearOwn(m, r))
        BY <1>1, <1>4, <2>2, <3>1, HearOwnKeeps
      <3> QED BY <2>2, <3>2, BringsKeeps
    <2>3. ASSUME m.type = "event", NEW d,
                 Brings(Begin(client, m.content, FALSE, TRUE, FALSE, r), d, heeded)
          PROVE  Sound(client', seen', coming') /\ ~client'.stopped /\ up' \in Seq(Messages)
      <3> DEFINE w == Begin(client, m.content, FALSE, TRUE, FALSE, r)
      <3>1. ~Confused(w)
        BY <2>3 DEF Brings, Yields
      <3>2. Clear(w, client)
        BY <3>1 DEF Confused, Clear
      <3>3. Keeps(w)
        BY <1>1, <1>4, <2>3, <3>2, BeginKeeps
      <3> QED BY <2>3, <3>3, BringsKeeps
    <2>4. ASSUME NEW d, Brings(OnlyClient(client), d, heeded)
          PROVE  Sound(client', seen', coming') /\ ~client'.stopped /\ up' \in Seq(Messages)
      <3>1. Keeps(OnlyClient(client))
        BY <1>1, OnlyClientKeeps
      <3> QED BY <2>4, <3>1, BringsKeeps
    <2> QED BY <1>3, <2>1, <2>2, <2>3, <2>4
  <1> QED BY <1>2, <1>5 DEF GuardInv, Hear

LEMMA SelectKeeps ==
    ASSUME ~confused', GuardInv, NEW c \in Contents, NEW own \in BOOLEAN, NEW r \in Results,
           Select(c, own, r)
    PROVE  GuardInv'
  <1> DEFINE k == [client EXCEPT !.submitted = 0]
             w == Begin(k, c, own, FALSE, FALSE, r)
  <1>1. /\ Sound(k, seen, coming) /\ k.stopped = client.stopped
        /\ k.lastObserved = client.lastObserved
    BY SubmittedSound DEF GuardInv
  <1> HIDE DEF k
  <1>2. acts' \in Nat
    BY DEF GuardInv, Select
  <1>3. CASE client.stopped
    <2> DEFINE q == Cancel(Outdated(k))
    <2>1. w = OnlyClient(q)
      BY <1>1, <1>3 DEF Begin
    <2>2. Sound(q, seen, coming)
      BY <1>1, OutdatedSound, CancelSound
    <2>3. Brings(w, due, heeded)
      BY <1>3 DEF Select, Becomes, k
    <2> HIDE DEF w, q
    <2>4. Brings(OnlyClient(q), due, heeded)
      BY <2>1, <2>3
    <2> DEFINE o == OnlyClient(q)
    <2>a. o.client = q /\ o.seen = seen /\ o.coming = coming /\ o.sent = <<>>
      BY DEF OnlyClient
    <2> HIDE DEF o
    <2>b. Brings(o, due, heeded)
      BY <2>4 DEF o
    <2>5. client' = q /\ seen' = seen /\ coming' = coming /\ up' = up \o <<>>
      BY <2>a, <2>b DEF Brings, Yields
    <2>6. up' = <<>> /\ down' = <<>> /\ ~online'
      BY <1>3, <2>5 DEF GuardInv, Select
    <2>7. Sound(client', seen', coming') /\ <<>> \in Seq(Messages) /\ <<>> \in Seq(Answers)
      BY <2>2, <2>5
    <2> QED BY <1>2, <2>6, <2>7 DEF GuardInv, Select
  <1>4. CASE ~client.stopped
    <2>1. Brings(w, Due(c), acts') /\ ~Confused(w)
      BY <1>4 DEF Select, Brings, Yields, k
    <2>2. Clear(w, k)
      BY <1>1, <2>1 DEF Confused, Clear
    <2>3. Keeps(w)
      BY <1>1, <1>4, <2>2, BeginKeeps
    <2> HIDE DEF w
    <2>4. Sound(client', seen', coming') /\ ~client'.stopped /\ up' \in Seq(Messages)
      BY <2>1, <2>3, BringsKeeps
    <2> QED BY <1>2, <2>4 DEF GuardInv, Select
  <1> QED BY <1>3, <1>4

LEMMA PasteKeeps ==
    ASSUME GuardInv, NEW read \in BOOLEAN, Paste(read)
    PROVE  GuardInv'
  <1> DEFINE k == client
             s == seen.content
             step == OnlyClient(IF read /\ ~Known(k, s) THEN NewLocal(k, s) ELSE Cancel(k))
  <1>1. Sound(k, seen, coming) /\ k \in Clients /\ ~k.stopped
    BY DEF GuardInv, Paste, Sound, InHand
  <1>2. Brings(step, due, heeded)
    BY DEF Paste, Becomes
  <1>3. Keeps(step)
    <2>1. CASE read /\ ~Known(k, s)
      BY <1>1, <2>1, UnknownSound, NewLocalKeeps
    <2>2. CASE ~(read /\ ~Known(k, s))
      BY <1>1, <2>2, CancelSound, OnlyClientKeeps
    <2> QED BY <2>1, <2>2
  <1> HIDE DEF step
  <1>4. Sound(client', seen', coming') /\ ~client'.stopped /\ up' \in Seq(Messages)
    BY <1>2, <1>3, BringsKeeps
  <1> QED BY <1>4 DEF GuardInv, Paste

LEMMA ChangesKeep ==
    ASSUME GuardInv
    PROVE  /\ \A s \in [sending : Sendings, receiving : {"all", "blocked", "paused"}] :
                ChangeSettings(s) => GuardInv'
           /\ \A x \in Sendings : ChangeDevices(x) => GuardInv'
  <1>1. ASSUME NEW s \in [sending : Sendings, receiving : {"all", "blocked", "paused"}],
               ChangeSettings(s)
        PROVE  GuardInv'
    <2>1. /\ client' = Cancel(Outdated(client)) \/ client' = Outdated(client)
          /\ settings' = s /\ UNCHANGED <<seen, coming, up, down, online, acts>>
      BY <1>1 DEF ChangeSettings, os, hub
    <2>2. Sound(client', seen, coming) /\ client'.stopped = client.stopped
      BY <2>1, OutdatedSound, CancelSound DEF GuardInv
    <2> QED BY <2>1, <2>2 DEF GuardInv
  <1>2. ASSUME NEW x \in Sendings, ChangeDevices(x)
        PROVE  GuardInv'
    <2>1. /\ settings' = [settings EXCEPT !.sending = x]
          /\ UNCHANGED <<client, seen, coming, up, down, online, acts>>
      BY <1>2 DEF ChangeDevices, os, hub, ghosts
    <2> QED BY <2>1 DEF GuardInv
  <1> QED BY <1>1, <1>2

LEMMA StopKeeps ==
    ASSUME GuardInv, Stop
    PROVE  GuardInv'
  <1> DEFINE k == Cancel(client)
             q == [k EXCEPT !.stopped = TRUE, !.event = None, !.submitted = 0,
                            !.waiting = {}, !.polling = None]
  <1>1. client \in Clients /\ Sound(k, seen, coming) /\ k \in Clients /\ k.write = None
    BY CancelSound, CancelIs DEF GuardInv, Sound
  <1>2. /\ client' = q /\ up' = <<>> /\ down' = <<>> /\ ~online'
        /\ UNCHANGED <<seen, coming, settings, acts>>
    BY DEF Stop, os
  <1> HIDE DEF k
  <1>3. /\ q \in Clients /\ q.stopped /\ q.event = None /\ q.polling = None
        /\ q.lastLocal = k.lastLocal /\ q.lastObserved = k.lastObserved
        /\ q.baseline = k.baseline /\ q.guard = k.guard
        /\ q.evidence = k.evidence /\ q.write = k.write /\ q.tokens = k.tokens
    BY <1>1 DEF Clients
  <1> HIDE DEF q
  <1>4. InHand(q)
    BY <1>1, <1>3 DEF Sound, InHand
  <1>5. Sound(q, seen, coming)
    BY <1>1, <1>3, <1>4, SettledSound
  <1>6. <<>> \in Seq(Messages) /\ <<>> \in Seq(Answers)
    OBVIOUS
  <1> QED BY <1>2, <1>5, <1>6 DEF GuardInv

LEMMA StartKeeps ==
    ASSUME GuardInv, NEW read \in BOOLEAN, Start(read)
    PROVE  GuardInv'
  <1> DEFINE k == [client EXCEPT !.stopped = FALSE, !.baseline = FALSE]
             s == seen.content
             e == IF Known(k, s) THEN k ELSE [k EXCEPT !.evidence = <<>>]
             q == [e EXCEPT !.lastLocal = s, !.lastObserved = s, !.baseline = TRUE]
             x == Consume(q, s)
  <1>1. /\ Sound(client, seen, coming) /\ client \in Clients /\ client.stopped
        /\ client.write = None /\ client.polling = None /\ s \in Shown
    BY DEF GuardInv, Start, Sound, InHand, Board, Snapshots
  <1>2. /\ client' = (IF read THEN x ELSE k)
        /\ UNCHANGED <<seen, coming, up, down, settings, acts>>
    BY DEF Start, os, ghosts
  <1>3. /\ k \in Clients /\ ~k.stopped /\ ~k.baseline /\ k.polling = None /\ k.write = None
        /\ k.lastLocal = client.lastLocal /\ k.lastObserved = client.lastObserved
        /\ k.guard = client.guard /\ k.evidence = client.evidence /\ k.tokens = client.tokens
    BY <1>1 DEF Clients
  <1> HIDE DEF k
  <1>4. Sound(k, seen, coming)
    <2>1. InHand(k)
      BY <1>1, <1>3 DEF Sound, InHand
    <2> QED BY <1>1, <1>3, <2>1, SettledSound
  <1>5. /\ e \in Clients /\ InHand(e) /\ Proven(e) /\ ~e.stopped /\ e.polling = None
        /\ e.write = None
        /\ Board(e.lastObserved, e.lastLocal, e.evidence, seen, coming)
    <2>1. CASE Known(k, s)
      BY <1>3, <1>4, <2>1 DEF Sound
    <2>2. CASE ~Known(k, s)
      <3>1. e = [k EXCEPT !.evidence = <<>>]
        BY <2>2
      <3>2. e.polling = k.polling
        BY <1>3, <3>1 DEF Clients
      <3> HIDE DEF e
      <3> QED BY <1>3, <1>4, <2>2, <3>1, <3>2, ForgottenSound DEF Pending
    <2> QED BY <2>1, <2>2
  <1> HIDE DEF e
  <1>6. /\ q \in Clients /\ q.lastLocal = s /\ q.lastObserved = s /\ q.baseline = TRUE
        /\ q.guard = e.guard /\ q.event = e.event /\ q.evidence = e.evidence
        /\ q.write = None /\ q.polling = None /\ ~q.stopped /\ q.tokens = e.tokens
    BY <1>1, <1>5 DEF Clients
  <1> HIDE DEF q
  <1> DEFINE left == Consumed(e.evidence, s)
  <1>7. /\ e.evidence \in Seq(Findings) /\ Len(e.evidence) <= 2
        /\ Tokens(e.evidence, e.tokens)
    BY <1>5 DEF Proven, Tokens
  <1>8. left \in Seq(Findings) /\ Tokens(left, e.tokens) /\ Board(s, s, left, seen, coming)
    BY <1>5, <1>7, ConsumedIs, ConsumedProves, BoardConsumed
  <1>9. x = [q EXCEPT !.evidence = left]
    BY <1>6, ConsumeIs
  <1> HIDE DEF left, x
  <1>10. /\ x \in Clients /\ x.lastLocal = s /\ x.lastObserved = s /\ x.evidence = left
         /\ x.write = None /\ x.polling = None /\ ~x.stopped /\ x.tokens = e.tokens
    BY <1>6, <1>8, <1>9 DEF Clients
  <1>11. Sound(x, seen, coming)
    <2>1. InHand(x) /\ Proven(x) /\ Compared(x, seen, coming)
      BY <1>8, <1>10 DEF InHand, Proven, Compared, Pending
    <2> QED BY <1>8, <1>10, <2>1 DEF Sound
  <1> QED BY <1>2, <1>3, <1>4, <1>10, <1>11 DEF GuardInv

LEMMA CopyKeeps ==
    ASSUME GuardInv, NEW c \in Shown, Copy(c)
    PROVE  GuardInv'
  <1>1. /\ Sound(client, seen, coming) /\ acts \in Nat /\ Distinct(c)
        /\ seen' = User(c, acts + 1) /\ coming' = <<>> /\ acts' = acts + 1
        /\ UNCHANGED <<client, settings, up, down, online>>
    BY DEF GuardInv, Copy, hub
  <1>2. seen' \in Snapshots /\ seen'.act # 0 /\ seen'.content = c
    BY <1>1 DEF User, Snapshots
  <1>3. Of(client.evidence, c) = {}
    BY <1>1 DEF Distinct, Held, Of, Same
  <1>4. Board(client.lastObserved, client.lastLocal, client.evidence, seen', coming')
    BY <1>1, <1>2, <1>3, BoardCopied
  <1>5. Compared(client, seen', coming')
    BY <1>1, <1>2 DEF Compared
  <1>6. Sound(client', seen', coming')
    BY <1>1, <1>4, <1>5 DEF Sound
  <1> QED BY <1>1, <1>6 DEF GuardInv

LEMMA LandKeeps ==
    ASSUME GuardInv, Land
    PROVE  GuardInv'
  <1>1. /\ Sound(client, seen, coming) /\ coming # <<>>
        /\ seen' = Head(coming) /\ coming' = Tail(coming)
        /\ UNCHANGED <<client, settings, up, down, online, acts>>
    BY DEF GuardInv, Land, hub, ghosts
  <1>2. /\ Board(client.lastObserved, client.lastLocal, client.evidence, seen', coming')
        /\ Of(client.evidence, seen.content) # {} => Of(client.evidence, seen'.content) # {}
    BY <1>1, BoardLands DEF Sound
  <1>3. Compared(client, seen', coming')
    BY <1>1, <1>2 DEF Sound, Compared
  <1>4. Sound(client', seen', coming')
    BY <1>1, <1>2, <1>3 DEF Sound
  <1> QED BY <1>1, <1>4 DEF GuardInv

LEMMA HubKeeps ==
    ASSUME GuardInv,
           Store \/ (\E c \in Contents : PeerCopies(c)) \/ Disconnect \/ Reconnect
    PROVE  GuardInv'
  <1>1. /\ Sound(client, seen, coming) /\ up \in Seq(Messages) /\ down \in Seq(Answers)
        /\ client.stopped => up = <<>> /\ down = <<>> /\ ~online
    BY DEF GuardInv
  <1>2. <<>> \in Seq(Messages) /\ <<>> \in Seq(Answers)
    OBVIOUS
  <1>3. CASE Store
    <2> DEFINE m == Head(up)
               event == Event(TRUE, m.id, m.content, m.act)
               told == IF m.id \in stored THEN <<>> ELSE <<event>>
    <2>1. /\ up # <<>> /\ up' = Tail(up) /\ down' = down \o told \o <<Ack(m.id)>>
          /\ UNCHANGED <<client, seen, coming, settings, online, acts>>
      BY <1>3 DEF Store, os, ghosts
    <2>2. m \in Messages /\ up' \in Seq(Messages)
      BY <1>1, <2>1, HeadTailProperties
    <2>3. event \in Answers /\ Ack(m.id) \in Answers
      <3> HIDE DEF m
      <3>1. m.id \in Nat /\ m.content \in Contents /\ m.act \in Nat
        BY <2>2 DEF Messages
      <3> QED BY <3>1 DEF Answers, Event, Ack
    <2> HIDE DEF event
    <2>4. told \in Seq(Answers) /\ <<Ack(m.id)>> \in Seq(Answers)
      BY <2>3
    <2> HIDE DEF told, m
    <2>5. down' \in Seq(Answers)
      <3>1. down \o told \in Seq(Answers)
        BY <1>1, <2>4, ConcatProperties
      <3> QED BY <2>1, <2>4, <3>1, ConcatProperties
    <2>6. ~client.stopped
      BY <1>1, <2>1
    <2> QED BY <2>1, <2>2, <2>5, <2>6 DEF GuardInv
  <1>4. ASSUME NEW c \in Contents, PeerCopies(c)
        PROVE  GuardInv'
    <2>1. /\ online /\ down' = Append(down, Event(FALSE, 0, c, 0))
          /\ UNCHANGED <<client, seen, coming, settings, online, up, acts>>
      BY <1>4 DEF PeerCopies, os, ghosts
    <2>2. Event(FALSE, 0, c, 0) \in Answers
      BY DEF Event, Answers
    <2>3. down' \in Seq(Answers)
      BY <1>1, <2>1, <2>2, AppendProperties
    <2> QED BY <1>1, <2>1, <2>3 DEF GuardInv
  <1>5. CASE Disconnect
    BY <1>1, <1>2, <1>5 DEF GuardInv, Disconnect, os, ghosts
  <1>6. CASE Reconnect
    BY <1>1, <1>6 DEF GuardInv, Reconnect, os, ghosts
  <1> QED BY <1>3, <1>4, <1>5, <1>6

LEMMA AckExpiresKeeps ==
    ASSUME GuardInv, AckExpires
    PROVE  GuardInv'
  <1> DEFINE q == [client EXCEPT !.waiting = {}]
  <1>1. Sound(client, seen, coming) /\ client \in Clients
    BY DEF GuardInv, Sound
  <1>2. client' = q /\ UNCHANGED <<seen, coming, settings, online, up, down, acts>>
    <2>1. client' = q
      BY DEF AckExpires
    <2>2. UNCHANGED <<os, settings, hub, ghosts>>
      BY DEF AckExpires
    <2> QED BY <2>1, <2>2 DEF os, hub, ghosts
  <1>3. /\ q \in Clients
        /\ q.lastLocal = client.lastLocal /\ q.lastObserved = client.lastObserved
        /\ q.baseline = client.baseline /\ q.guard = client.guard /\ q.event = client.event
        /\ q.evidence = client.evidence /\ q.write = client.write /\ q.polling = client.polling
        /\ q.stopped = client.stopped /\ q.tokens = client.tokens
    BY <1>1 DEF Clients
  <1> HIDE DEF q
  <1>4. Sound(q, seen, coming)
    BY <1>1, <1>3, SoundSame
  <1> QED BY <1>2, <1>3, <1>4 DEF GuardInv

LEMMA GuardStarts == Init => GuardInv
  <1> SUFFICES ASSUME Init PROVE GuardInv
    OBVIOUS
  <1> DEFINE sn == User(Nothing, 0)
  <1>1. /\ client = [New EXCEPT !.baseline = TRUE] /\ seen = sn /\ coming = <<>>
        /\ up = <<>> /\ down = <<>> /\ acts = 0
        /\ settings \in [sending : {"all", "deferred"}, receiving : {"all"}]
    BY DEF Init
  <1>2. <<>> \in Seq(Findings) /\ Len(<<>>) = 0 /\ DOMAIN <<>> = {}
    OBVIOUS
  <1>3. /\ client \in Clients /\ client.write = None /\ client.polling = None
        /\ client.lastLocal = Nothing /\ client.lastObserved = Nothing /\ client.guard = {}
        /\ client.evidence = <<>> /\ ~client.stopped /\ client.tokens = 0
    BY <1>1, <1>2 DEF New, Clients, Shown
  <1>4. Proven(client)
    BY <1>2, <1>3 DEF Proven, Tokens, Pending
  <1>5. InHand(client) /\ Compared(client, seen, coming)
    BY <1>3 DEF InHand, Compared, Pending
  <1>6. Board(client.lastObserved, client.lastLocal, client.evidence, seen, coming)
    <2>1. sn \in Snapshots /\ sn.act = 0 /\ sn.content = Nothing
      BY DEF User, Snapshots, Shown
    <2>2. <<>> \in Seq([content : Reads, act : {0}])
      OBVIOUS
    <2> QED BY <1>1, <1>2, <1>3, <2>1, <2>2 DEF Board
  <1>7. <<>> \in Seq(Messages) /\ <<>> \in Seq(Answers)
    OBVIOUS
  <1> QED BY <1>1, <1>3, <1>4, <1>5, <1>6, <1>7 DEF GuardInv, Sound, Sendings

(***************************************************************************)
(* No copy is swallowed, not even by a client that has lost track of its    *)
(* writes: what it has observed and has not settled meets an empty guard.   *)
(***************************************************************************)

Fields == {"lastLocal", "lastObserved", "baseline", "guard", "waiting", "event", "submitted",
           "evidence", "write", "polling", "stopped", "ids", "tokens"}

Fit(k) ==
    /\ DOMAIN k = Fields
    /\ k.lastLocal = k.lastObserved \/ k.guard = {}
    /\ k.polling = None \/ DOMAIN k.polling = {"kind", "content", "stale"}
    /\ (k.polling # None /\ ~k.polling.stale) => k.polling.content = k.lastObserved
    /\ k.stopped => k.polling = None

\* What is left as it is, but for a poll that is outdated.
SameFit(q, k) ==
    /\ DOMAIN q = Fields /\ q.lastLocal = k.lastLocal /\ q.lastObserved = k.lastObserved
    /\ q.guard = k.guard /\ q.polling = k.polling /\ q.stopped = k.stopped

LEMMA SameFits ==
    ASSUME NEW k, NEW q, Fit(k), SameFit(q, k)
    PROVE  Fit(q)
  BY DEF Fit, SameFit

LEMMA OutdatedFits ==
    ASSUME NEW k, Fit(k)
    PROVE  LET q == Outdated(k) IN
           /\ Fit(q) /\ q.lastLocal = k.lastLocal /\ q.lastObserved = k.lastObserved
           /\ q.guard = k.guard /\ q.stopped = k.stopped
           /\ q.polling = None \/ (q.polling.stale /\ DOMAIN q.polling = {"kind", "content", "stale"})
           /\ k.polling = None => q.polling = None
  <1> DEFINE q == Outdated(k)
             p == [k.polling EXCEPT !.stale = TRUE]
  <1>1. CASE k.polling = None
    BY <1>1 DEF Outdated, Fit
  <1>2. CASE k.polling # None
    <2>1. DOMAIN p = {"kind", "content", "stale"} /\ p.stale
      BY <1>2 DEF Fit
    <2>2. q = [k EXCEPT !.polling = p]
      BY <1>2 DEF Outdated, Fit, Fields
    <2> HIDE DEF p
    <2>3. /\ DOMAIN q = Fields /\ q.polling = p /\ q.lastLocal = k.lastLocal
          /\ q.lastObserved = k.lastObserved /\ q.guard = k.guard /\ q.stopped = k.stopped
      <3> HIDE DEF q
      <3> QED BY <2>2 DEF Fit, Fields
    <2> HIDE DEF q
    <2> QED BY <1>2, <2>1, <2>3 DEF Fit, q
  <1> QED BY <1>1, <1>2

LEMMA CancelFits ==
    ASSUME NEW k, Fit(k)
    PROVE  SameFit(Cancel(k), k) /\ Fit(Cancel(k))
  <1>1. SameFit(Cancel(k), k)
    BY DEF Cancel, Fit, SameFit, Fields
  <1> QED BY <1>1, SameFits

LEMMA ConsumeFits ==
    ASSUME NEW k, NEW s, DOMAIN k = Fields
    PROVE  SameFit(Consume(k, s), k)
  <1> DEFINE i == CHOOSE n \in EvidenceFor(k, s) : \A m \in EvidenceFor(k, s) : m <= n
             e == SubSeq(k.evidence, i + 1, Len(k.evidence))
  <1>1. Consume(k, s) = k \/ Consume(k, s) = [k EXCEPT !.evidence = e]
    BY DEF Consume
  <1> HIDE DEF e
  <1> QED BY <1>1 DEF SameFit, Fields

\* A client that has settled what it has observed.
LEMMA SettledFits ==
    ASSUME NEW k, NEW q, Fit(k), DOMAIN q = Fields, q.lastLocal = q.lastObserved,
           q.polling = None \/ (q.polling.stale /\ DOMAIN q.polling = {"kind", "content", "stale"})
             \/ (q.polling = k.polling /\ q.lastObserved = k.lastObserved),
           q.stopped = k.stopped, k.polling = None => q.polling = None
    PROVE  Fit(q)
  BY DEF Fit

\* A client that has taken what it has found for a new copy.
LEMMA NewLocalFits ==
    ASSUME NEW k, NEW s, Fit(k)
    PROVE  LET q == NewLocal(k, s) IN
           /\ Fit(q) /\ q.lastObserved = s /\ q.guard = {}
           /\ q.stopped = k.stopped /\ (k.polling = None => q.polling = None)
  <1> DEFINE o == Cancel(Outdated(k))
             event == IF s = Nothing THEN None ELSE Copied(k, s, seen.act, "none")
             q == [o EXCEPT !.evidence = <<>>, !.submitted = 0, !.lastLocal = Nothing,
                            !.guard = {}, !.lastObserved = s, !.waiting = {}, !.event = event,
                            !.ids = k.ids + 1]
  <1>1. /\ DOMAIN o = Fields /\ o.stopped = k.stopped
        /\ o.polling = None \/ (o.polling.stale /\ DOMAIN o.polling = {"kind", "content", "stale"})
        /\ k.polling = None => o.polling = None
    BY OutdatedFits, CancelFits DEF SameFit
  <1>2. NewLocal(k, s) = q
    BY DEF NewLocal
  <1> HIDE DEF o, event
  <1>3. /\ DOMAIN q = Fields /\ q.lastObserved = s /\ q.guard = {} /\ q.polling = o.polling
        /\ q.stopped = o.stopped
    BY <1>1 DEF Fields
  <1> HIDE DEF q
  <1>4. Fit(q)
    BY <1>1, <1>3 DEF Fit
  <1> QED BY <1>1, <1>2, <1>3, <1>4

LEMMA RememberFits ==
    ASSUME NEW k, NEW s, Fit(k)
    PROVE  Fit(Remember(k, s)) /\ Remember(k, s).stopped = k.stopped
  <1> DEFINE o == IF s = k.lastObserved THEN k ELSE Outdated(k)
             r == [o EXCEPT !.lastObserved = s, !.lastLocal = s, !.baseline = TRUE]
             v == [r.write EXCEPT !.observed = s, !.hasObservation = TRUE]
             w == IF Pending(r) THEN [r EXCEPT !.write = v] ELSE r
             q == Consume(w, s)
  <1>1. /\ DOMAIN o = Fields /\ o.stopped = k.stopped /\ (k.polling = None => o.polling = None)
        /\ o.polling = None \/ (o.polling.stale /\ DOMAIN o.polling = {"kind", "content", "stale"})
             \/ (o.polling = k.polling /\ s = k.lastObserved)
    BY OutdatedFits DEF Fit
  <1> HIDE DEF o
  <1>2. /\ DOMAIN r = Fields /\ r.lastObserved = s /\ r.lastLocal = s
        /\ r.polling = o.polling /\ r.stopped = o.stopped
    BY <1>1 DEF Fields
  <1>3. [r EXCEPT !.write.observed = s, !.write.hasObservation = TRUE] = [r EXCEPT !.write = v]
    <2> DEFINE v1 == [r.write EXCEPT !.observed = s]
               r1 == [r EXCEPT !.write = v1]
    <2>1. r1.write = v1
      BY <1>2 DEF Fields
    <2> HIDE DEF r, v1
    <2> QED BY <1>2, <2>1 DEF Fields, v1
  <1>4. Remember(k, s) = q
    <2> HIDE DEF v
    <2> QED BY <1>3 DEF Remember, o
  <1> HIDE DEF r, v
  <1>5. /\ DOMAIN w = Fields /\ w.lastObserved = s /\ w.lastLocal = s
        /\ w.polling = o.polling /\ w.stopped = o.stopped
    BY <1>2 DEF Fields
  <1> HIDE DEF w
  <1>6. SameFit(q, w)
    BY <1>5, ConsumeFits
  <1> HIDE DEF q
  <1>7. Fit(q) /\ q.stopped = k.stopped
    BY <1>1, <1>5, <1>6, SettledFits DEF SameFit
  <1> QED BY <1>4, <1>7

LEMMA ConfirmFits ==
    ASSUME NEW k, NEW s, Fit(k)
    PROVE  Fit(Confirm(k, s))
  <1> DEFINE o == Outdated(k)
             a == [o EXCEPT !.guard = o.guard \cup {k.write.content, s}, !.lastLocal = s,
                            !.lastObserved = s, !.event = None, !.waiting = {},
                            !.baseline = TRUE, !.evidence = <<>>]
             q == [a EXCEPT !.write.status = "succeeded", !.write.timer = FALSE,
                            !.write.actual = s]
  <1>1. /\ DOMAIN o = Fields /\ o.stopped = k.stopped /\ (k.polling = None => o.polling = None)
        /\ o.polling = None \/ (o.polling.stale /\ DOMAIN o.polling = {"kind", "content", "stale"})
    BY OutdatedFits DEF Fit
  <1>2. Confirm(k, s) = q
    BY DEF Confirm
  <1> HIDE DEF o
  <1>3. /\ DOMAIN a = Fields /\ a.lastObserved = s /\ a.lastLocal = s
        /\ a.polling = o.polling /\ a.stopped = o.stopped
    BY <1>1 DEF Fields
  <1> HIDE DEF a
  <1>4. /\ DOMAIN q = Fields /\ q.lastObserved = s /\ q.lastLocal = s
        /\ q.polling = a.polling /\ q.stopped = a.stopped
    BY <1>3 DEF Fields
  <1> HIDE DEF q
  <1>5. Fit(q)
    BY <1>1, <1>3, <1>4, SettledFits
  <1> QED BY <1>1, <1>2, <1>3, <1>4, <1>5

LEMMA AcknowledgeFits ==
    ASSUME NEW k, NEW id, Fit(k)
    PROVE  Fit(Acknowledge(k, id))
  <1> DEFINE a == [k EXCEPT !.waiting = k.waiting \ {k.event.content}]
             b == [a EXCEPT !.lastLocal = k.event.content, !.baseline = TRUE]
  <1>1. SameFit(a, k)
    BY DEF SameFit, Fit, Fields
  <1>2. \/ Acknowledge(k, id) = k \/ Acknowledge(k, id) = a
        \/ Acknowledge(k, id) = b /\ k.lastObserved = k.event.content
    BY <1>1 DEF Acknowledge, SameFit
  <1> HIDE DEF a
  <1>3. Fit(a) /\ a.stopped = k.stopped
    BY <1>1, SameFits DEF SameFit
  <1>4. /\ DOMAIN b = Fields /\ b.lastLocal = k.event.content /\ b.lastObserved = a.lastObserved
        /\ b.polling = a.polling /\ b.stopped = a.stopped
    BY <1>1 DEF SameFit, Fields
  <1> HIDE DEF b
  <1>5. k.lastObserved = k.event.content => Fit(b)
    BY <1>1, <1>3, <1>4, SettledFits DEF SameFit
  <1> QED BY <1>2, <1>3, <1>4, <1>5

\* scheduleClipboardWriteRetry and writeEvent leave all but the write and the evidence.
LEMMA RetryFits ==
    ASSUME NEW k, Fit(k)
    PROVE  Fit(Retry(k))
  <1>1. SameFit(Retry(k), k)
    BY DEF Retry, SameFit, Fit, Fields
  <1> QED BY <1>1, SameFits

LEMMA PerformFits ==
    ASSUME NEW k, NEW r, Fit(k)
    PROVE  Fit(Perform(k, r).client)
  <1> DEFINE e    == Evidenced(k)
             put  == Written(ReadsAs[k.write.content])
             slow == r.write = "late" \/ coming # <<>>
             now  == IF slow THEN seen ELSE put
             s    == now.content
             next == CASE r.after /\ Same(k.write.content, s) -> Confirm(e, s)
                       [] r.after /\ ~Same(k.write.content, s) /\ ~Known(e, s) -> NewLocal(e, s)
                       [] OTHER -> Retry(e)
  <1>1. Fit(e)
    <2>1. SameFit(e, k)
      BY DEF Evidenced, SameFit, Fit, Fields
    <2> QED BY <2>1, SameFits
  <1>2. CASE r.write = "fails"
    BY <1>2, RetryFits DEF Perform, OnlyClient
  <1>3. CASE r.write # "fails"
    <2>1. Perform(k, r) = [client |-> next, seen |-> now, sent |-> <<>>,
                           coming |-> IF slow THEN Append(coming, put) ELSE coming]
      BY <1>3 DEF Perform
    <2> HIDE DEF e, s, put, slow
    <2>2. next = Confirm(e, s) \/ next = NewLocal(e, s) \/ next = Retry(e)
      OBVIOUS
    <2>3. Fit(next)
      BY <1>1, <2>2, ConfirmFits, NewLocalFits, RetryFits
    <2> HIDE DEF next
    <2> QED BY <2>1, <2>3
  <1> QED BY <1>2, <1>3

LEMMA ApplyFits ==
    ASSUME NEW k, NEW r, Fit(k)
    PROVE  Fit(Apply(k, r).client)
  <1> DEFINE s == seen.content
             o == IF r.before /\ k.write.accept THEN Remember(k, s) ELSE k
             knownWrite == r.before /\ EvidenceFor(o, s) # {}
             e == IF r.before /\ ~Known(o, s) THEN [o EXCEPT !.evidence = <<>>] ELSE o
             m == IF knownWrite THEN Remember(e, s) ELSE e
             w == [m EXCEPT !.write.observed = s, !.write.hasObservation = TRUE]
  <1>1. \/ Apply(k, r) = OnlyClient(k) \/ Apply(k, r) = OnlyClient(Cancel(k))
        \/ Apply(k, r) = OnlyClient(Confirm(k, s)) \/ Apply(k, r) = OnlyClient(NewLocal(k, s))
        \/ Apply(k, r) = OnlyClient(Retry(k)) \/ Apply(k, r) = OnlyClient(NewLocal(e, s))
        \/ Apply(k, r) = OnlyClient(Retry(w)) \/ Apply(k, r) = Perform(w, r)
    BY DEF Apply
  <1>2. Fit(o)
    BY RememberFits
  <1> HIDE DEF o
  <1>3. Fit(e)
    <2>1. SameFit([o EXCEPT !.evidence = <<>>], o)
      BY <1>2 DEF SameFit, Fit, Fields
    <2> QED BY <1>2, <2>1, SameFits
  <1> HIDE DEF e, knownWrite
  <1>4. Fit(m)
    BY <1>3, RememberFits
  <1> HIDE DEF m
  <1>5. Fit(w)
    <2>1. SameFit(w, m)
      BY <1>4 DEF SameFit, Fit, Fields
    <2> QED BY <1>4, <2>1, SameFits
  <1> HIDE DEF w, s
  <1>6. /\ Fit(Cancel(k))
        /\ Fit(Confirm(k, s))
        /\ Fit(Retry(k)) /\ Fit(Retry(w))
    BY <1>5, CancelFits, ConfirmFits, RetryFits
  <1>7. /\ Fit(NewLocal(k, s))
        /\ Fit(NewLocal(e, s))
    BY <1>3, NewLocalFits
  <1>8. Fit(Perform(w, r).client)
    BY <1>5, PerformFits
  <1>9. \A x : OnlyClient(x).client = x
    BY DEF OnlyClient
  <1> QED BY <1>1, <1>6, <1>7, <1>8, <1>9

LEMMA BeginFits ==
    ASSUME NEW k, NEW c, NEW own, NEW remote, NEW accept, NEW r, Fit(k)
    PROVE  Fit(Begin(k, c, own, remote, accept, r).client)
  <1> DEFINE i == Cancel(Outdated(k))
             q == Begun(k, c, own, remote, accept)
  <1>1. Fit(i)
    BY OutdatedFits, CancelFits
  <1>2. CASE k.stopped
    BY <1>1, <1>2 DEF Begin, OnlyClient
  <1>3. CASE ~k.stopped
    <2>1. Begin(k, c, own, remote, accept, r) = Apply(q, r)
      BY <1>3 DEF Begin, Begun
    <2>2. SameFit(q, i)
      <3>1. DOMAIN i = Fields
        BY <1>1 DEF Fit
      <3> HIDE DEF i
      <3>2. \A v : SameFit([i EXCEPT !.tokens = k.tokens + 1, !.write = v], i)
        BY <3>1 DEF SameFit, Fields
      <3> QED BY <3>2 DEF Begun, i
    <2> HIDE DEF q, i
    <2> QED BY <1>1, <2>1, <2>2, SameFits, ApplyFits
  <1> QED BY <1>2, <1>3

\* sendLocalSnapshot, of what the client has observed
LEMMA SendFits ==
    ASSUME NEW k, NEW s, Fit(k), s = k.lastObserved \/ k.guard = {},
           k.polling = None
    PROVE  Fit(Send(k, s).client)
  <1> DEFINE route == settings.sending
             again == k.event # None /\ k.event.route \in {"none", route}
             e == IF again THEN [k EXCEPT !.event.route = route]
                  ELSE [k EXCEPT !.event = Copied(k, s, Author(k, s), route), !.ids = k.ids + 1]
             x == [e EXCEPT !.submitted = e.event.id, !.waiting = e.waiting \cup {s}]
             n == [k EXCEPT !.lastLocal = s]
  <1>1. SameFit(e, k)
    BY DEF SameFit, Fit, Fields
  <1>2. SameFit(x, e)
    <2> HIDE DEF e
    <2> QED BY <1>1 DEF SameFit, Fields
  <1>3. /\ DOMAIN n = Fields /\ n.lastLocal = s /\ n.lastObserved = k.lastObserved
        /\ n.guard = k.guard /\ n.polling = k.polling /\ n.stopped = k.stopped
    BY DEF Fit, Fields
  <1>4. \/ Send(k, s).client = n \/ Send(k, s).client = k
        \/ Send(k, s).client = x \/ Send(k, s).client = e
    <2> DEFINE m == <<[id |-> e.event.id, content |-> s, act |-> Author(k, s)]>>
               on == OnlyClient(x)
    <2>1. \A y : OnlyClient(y).client = y
      BY DEF OnlyClient
    <2>2. [on EXCEPT !.sent = m].client = x
      BY DEF OnlyClient
    <2>3. \/ Send(k, s) = OnlyClient(n) \/ Send(k, s) = OnlyClient(k)
          \/ Send(k, s) = [on EXCEPT !.sent = m] \/ Send(k, s) = OnlyClient(e)
      BY DEF Send
    <2> HIDE DEF n, x, e, m, on
    <2> QED BY <2>1, <2>2, <2>3
  <1> HIDE DEF n, x, e
  <1>5. Fit(n)
    BY <1>3 DEF Fit
  <1> QED BY <1>1, <1>2, <1>4, <1>5, SameFits

\* processLocalSnapshot, while no source application is asked for
LEMMA LocalFits ==
    ASSUME NEW k, NEW s, Fit(k), k.polling = None, ~k.stopped
    PROVE  Fit(Local(k, s).client)
  <1> DEFINE n == IF s = k.lastObserved THEN k ELSE NewLocal(k, s)
             set == [n EXCEPT !.lastLocal = s, !.baseline = TRUE]
             p == [kind |-> "polling", content |-> s, stale |-> FALSE]
             x == [set EXCEPT !.waiting = {}]
             y == [set EXCEPT !.guard = set.guard \ {s}]
             z == [n EXCEPT !.polling = p]
  <1>1. Fit(n) /\ n.lastObserved = s /\ n.polling = None /\ ~n.stopped
    BY NewLocalFits
  <1> HIDE DEF n
  <1>2. /\ DOMAIN set = Fields /\ set.lastLocal = s /\ set.lastObserved = s
        /\ set.polling = None /\ set.stopped = n.stopped
    BY <1>1 DEF Fit, Fields
  <1> HIDE DEF set
  <1>3. /\ DOMAIN x = Fields /\ x.lastLocal = s /\ x.lastObserved = s
        /\ x.polling = None /\ x.stopped = n.stopped
    BY <1>2 DEF Fields
  <1>4. /\ DOMAIN y = Fields /\ y.lastLocal = s /\ y.lastObserved = s
        /\ y.polling = None /\ y.stopped = n.stopped
    BY <1>2 DEF Fields
  <1>5. /\ DOMAIN z = Fields /\ z.lastLocal = n.lastLocal /\ z.lastObserved = s
        /\ z.polling = p /\ z.stopped = n.stopped /\ z.guard = n.guard
    BY <1>1 DEF Fit, Fields
  <1>6. /\ DOMAIN p = {"kind", "content", "stale"} /\ p.content = s
    OBVIOUS
  <1>7. \/ Local(k, s) = OnlyClient(x) \/ Local(k, s) = OnlyClient(set)
        \/ Local(k, s) = OnlyClient(n) \/ Local(k, s) = OnlyClient(y)
        \/ Local(k, s) = OnlyClient(z) \/ Local(k, s) = Send(n, s)
    BY DEF Local, n, set
  <1> HIDE DEF x, y, z, p
  <1>8. Fit(set) /\ Fit(x) /\ Fit(y) /\ Fit(z)
    BY <1>1, <1>2, <1>3, <1>4, <1>5, <1>6 DEF Fit
  <1>9. Fit(Send(n, s).client)
    BY <1>1, SendFits
  <1>10. \A v : OnlyClient(v).client = v
    BY DEF OnlyClient
  <1> QED BY <1>1, <1>7, <1>8, <1>9, <1>10

LEMMA ProcessFits ==
    ASSUME NEW k, NEW s, Fit(k), k.polling = None, ~k.stopped
    PROVE  Fit(Process(k, s).client)
  <1> DEFINE c == IF Pending(k) /\ k.write.remote /\ ~Accepts(k.write.own) THEN Cancel(k) ELSE k
  <1>1. Fit(c) /\ c.polling = None /\ ~c.stopped
    BY CancelFits DEF SameFit
  <1>2. \/ Process(k, s) = OnlyClient(Confirm(c, s))
        \/ Process(k, s) = OnlyClient(Remember(c, s)) \/ Process(k, s) = Local(c, s)
    BY DEF Process
  <1> HIDE DEF c
  <1>3. Fit(Confirm(c, s)) /\ Fit(Remember(c, s)) /\ Fit(Local(c, s).client)
    BY <1>1, ConfirmFits, RememberFits, LocalFits
  <1>4. \A v : OnlyClient(v).client = v
    BY DEF OnlyClient
  <1> QED BY <1>2, <1>3, <1>4

LEMMA SubmittedFits ==
    ASSUME NEW k, Fit(k)
    PROVE  Fit([k EXCEPT !.submitted = 0])
  <1>1. SameFit([k EXCEPT !.submitted = 0], k)
    BY DEF SameFit, Fit, Fields
  <1> QED BY <1>1, SameFits

LEMMA HearOwnFits ==
    ASSUME NEW m, NEW r, Fit(client)
    PROVE  Fit(HearOwn(m, r).client)
  <1> DEFINE k == Acknowledge(client, m.id)
             n == [k EXCEPT !.submitted = 0]
             s == seen.content
  <1>1. Fit(k) /\ Fit(n)
    BY AcknowledgeFits, SubmittedFits
  <1>2. \/ HearOwn(m, r) = OnlyClient(k) \/ HearOwn(m, r) = OnlyClient(NewLocal(n, s))
        \/ HearOwn(m, r) = OnlyClient(n) \/ HearOwn(m, r) = OnlyClient(Cancel(n))
        \/ HearOwn(m, r) = Begin(n, m.content, TRUE, TRUE, TRUE, r)
    BY DEF HearOwn
  <1> HIDE DEF k, n
  <1>3. /\ Fit(NewLocal(n, s)) /\ Fit(Cancel(n))
        /\ Fit(Begin(n, m.content, TRUE, TRUE, TRUE, r).client)
    BY <1>1, NewLocalFits, CancelFits, BeginFits
  <1>4. \A v : OnlyClient(v).client = v
    BY DEF OnlyClient
  <1> QED BY <1>1, <1>2, <1>3, <1>4

LEMMA YieldsFits ==
    ASSUME NEW step, NEW d, NEW n, NEW b, Yields(step, d, n, b), Fit(step.client)
    PROVE  Fit(client')
  BY DEF Yields

LEMMA SourceAnsweredFits ==
    ASSUME Fit(client), NEW ignored, NEW read, SourceAnswered(ignored, read)
    PROVE  Fit(client')
  <1> DEFINE p == client.polling
             s == seen.content
             k == [client EXCEPT !.polling = None]
             q == [k EXCEPT !.lastLocal = p.content]
             step == IF p.stale \/ ~read THEN OnlyClient(k)
                     ELSE IF s # p.content THEN Process(k, s)
                     ELSE IF ignored THEN OnlyClient(q) ELSE Send(k, p.content)
  <1>1. p # None /\ Yields(step, due, heeded, FALSE)
    BY DEF SourceAnswered, Becomes, Brings
  <1>2. ~p.stale => p.content = client.lastObserved
    BY <1>1 DEF Fit
  <1>3. /\ DOMAIN k = Fields /\ k.lastLocal = client.lastLocal /\ k.guard = client.guard
        /\ k.lastObserved = client.lastObserved /\ k.polling = None /\ k.stopped = client.stopped
    BY DEF Fit, Fields
  <1>4. ~k.stopped /\ Fit(k)
    BY <1>1, <1>3 DEF Fit
  <1> HIDE DEF k
  <1>5. /\ DOMAIN q = Fields /\ q.lastLocal = p.content /\ q.lastObserved = k.lastObserved
        /\ q.polling = None /\ q.stopped = k.stopped
    BY <1>3 DEF Fields
  <1> HIDE DEF q, p
  <1>6. Fit(Process(k, s).client)
    BY <1>3, <1>4, ProcessFits
  <1>7. ~p.stale => Fit(q) /\ Fit(Send(k, p.content).client)
    BY <1>2, <1>3, <1>4, <1>5, SendFits DEF Fit
  <1>8. \A v : OnlyClient(v).client = v
    BY DEF OnlyClient
  <1>9. Fit(step.client)
    BY <1>4, <1>6, <1>7, <1>8
  <1> HIDE DEF step
  <1> QED BY <1>1, <1>9, YieldsFits

LEMMA HearFits ==
    ASSUME Fit(client), NEW r, Hear(r)
    PROVE  Fit(client')
  <1> DEFINE m == Head(down)
  <1>1. \/ \E d : Yields(OnlyClient(Acknowledge(client, m.id)), d, heeded, FALSE)
        \/ \E d : Yields(HearOwn(m, r), d, heeded, FALSE)
        \/ \E d : Yields(Begin(client, m.content, FALSE, TRUE, FALSE, r), d, heeded, FALSE)
        \/ \E d : Yields(OnlyClient(client), d, heeded, FALSE)
    BY DEF Hear, Becomes, Brings
  <1> HIDE DEF m
  <1>2. /\ Fit(OnlyClient(Acknowledge(client, m.id)).client) /\ Fit(OnlyClient(client).client)
        /\ Fit(HearOwn(m, r).client)
        /\ Fit(Begin(client, m.content, FALSE, TRUE, FALSE, r).client)
    BY AcknowledgeFits, HearOwnFits, BeginFits DEF OnlyClient
  <1> QED BY <1>1, <1>2, YieldsFits

LEMMA RetryWriteFits ==
    ASSUME Fit(client), NEW r, RetryWrite(r)
    PROVE  Fit(client')
  <1> DEFINE k == [client EXCEPT !.write.timer = FALSE, !.write.attempt = @ + 1]
             d == IF Unseeing(r) THEN Due(seen.content) ELSE due
             n == IF Unseeing(r) THEN seen.act ELSE heeded
  <1>1. Yields(Apply(k, r), d, n, Blind(r))
    BY DEF RetryWrite
  <1>2. SameFit(k, client)
    BY DEF SameFit, Fit, Fields
  <1> HIDE DEF k, d, n
  <1>3. Fit(Apply(k, r).client)
    BY <1>2, SameFits, ApplyFits
  <1> QED BY <1>1, <1>3, YieldsFits

LEMMA SelectFits ==
    ASSUME Fit(client), NEW c, NEW own, NEW r, Select(c, own, r)
    PROVE  Fit(client')
  <1> DEFINE k == [client EXCEPT !.submitted = 0]
             w == Begin(k, c, own, FALSE, FALSE, r)
  <1>1. \E d, n : Yields(w, d, n, FALSE)
    <2>1. Yields(w, due, heeded, FALSE) \/ Yields(w, Due(c), acts', FALSE)
      BY DEF Select, Becomes, Brings
    <2> HIDE DEF w
    <2> QED BY <2>1
  <1>2. Fit(k)
    BY SubmittedFits
  <1> HIDE DEF k
  <1>3. Fit(w.client)
    BY <1>2, BeginFits
  <1> QED BY <1>1, <1>3, YieldsFits

\* start: what the clipboard shows is settled.
LEMMA StartFits ==
    ASSUME Fit(client), NEW read, Start(read)
    PROVE  Fit(client')
  <1> DEFINE k == [client EXCEPT !.stopped = FALSE, !.baseline = FALSE]
             s == seen.content
             e == IF Known(k, s) THEN k ELSE [k EXCEPT !.evidence = <<>>]
             q == [e EXCEPT !.lastLocal = s, !.lastObserved = s, !.baseline = TRUE]
             x == Consume(q, s)
  <1>1. client.polling = None /\ client' = IF read THEN x ELSE k
    BY DEF Start, Fit
  <1>2. /\ DOMAIN k = Fields /\ k.lastLocal = client.lastLocal /\ k.guard = client.guard
        /\ k.lastObserved = client.lastObserved /\ k.polling = None
    BY <1>1 DEF Fit, Fields
  <1> HIDE DEF k
  <1>3. DOMAIN e = Fields /\ e.polling = None
    BY <1>2 DEF Fields
  <1> HIDE DEF e
  <1>4. DOMAIN q = Fields /\ q.polling = None /\ q.lastLocal = s /\ q.lastObserved = s
    BY <1>3 DEF Fields
  <1> HIDE DEF q
  <1>5. SameFit(x, q)
    BY <1>4, ConsumeFits
  <1> HIDE DEF x
  <1>6. Fit(x) /\ Fit(k)
    BY <1>2, <1>4, <1>5 DEF Fit, SameFit
  <1> QED BY <1>1, <1>6

LEMMA FitStep ==
    ASSUME Fit(client), [Next]_vars
    PROVE  Fit(client')
  <1>0. \A v : OnlyClient(v).client = v
    BY DEF OnlyClient
  <1>1. CASE Work
    <2>1. CASE Poll
      <3>1. Yields(Process(client, seen.content), due, heeded, FALSE)
        BY <2>1 DEF Poll, Becomes, Brings
      <3> QED BY <2>1, <3>1, ProcessFits, YieldsFits DEF Poll
    <2>2. CASE Land \/ Store \/ Reconnect
      BY <2>2 DEF Land, Store, Reconnect
    <2>3. CASE AckExpires
      <3>1. client' = [client EXCEPT !.waiting = {}]
        BY <2>3 DEF AckExpires
      <3>2. SameFit(client', client)
        BY <3>1 DEF SameFit, Fit, Fields
      <3> QED BY <3>2, SameFits
    <2>4. ASSUME NEW read \in BOOLEAN, Start(read) PROVE Fit(client')
      BY <2>4, StartFits
    <2>5. ASSUME NEW read \in BOOLEAN, Paste(read) PROVE Fit(client')
      <3> DEFINE s == seen.content
                 q == IF read /\ ~Known(client, s) THEN NewLocal(client, s) ELSE Cancel(client)
      <3>1. Yields(OnlyClient(q), due, heeded, FALSE)
        BY <2>5 DEF Paste, Becomes, Brings
      <3>2. Fit(q)
        BY NewLocalFits, CancelFits
      <3> HIDE DEF q
      <3> QED BY <1>0, <3>1, <3>2, YieldsFits
    <2>6. ASSUME NEW read \in BOOLEAN, NEW ignored \in BOOLEAN, SourceAnswered(ignored, read)
          PROVE  Fit(client')
      BY <2>6, SourceAnsweredFits
    <2>7. ASSUME NEW r \in Results, Hear(r) \/ RetryWrite(r) PROVE Fit(client')
      BY <2>7, HearFits, RetryWriteFits
    <2> QED BY <1>1, <2>1, <2>2, <2>3, <2>4, <2>5, <2>6, <2>7 DEF Work
  <1>2. CASE Disconnect
    BY <1>2 DEF Disconnect
  <1>3. CASE Stop
    <2> DEFINE k == Cancel(client)
    <2>1. client' = [k EXCEPT !.stopped = TRUE, !.event = None, !.submitted = 0,
                             !.waiting = {}, !.polling = None]
      BY <1>3 DEF Stop
    <2>2. SameFit(k, client)
      BY CancelFits
    <2> HIDE DEF k
    <2>3. /\ DOMAIN client' = Fields /\ client'.lastLocal = client.lastLocal
          /\ client'.lastObserved = client.lastObserved /\ client'.guard = client.guard
          /\ client'.polling = None
      BY <2>1, <2>2 DEF SameFit, Fields
    <2> QED BY <2>3 DEF Fit
  <1>4. CASE (\E c \in Shown : Copy(c)) \/ (\E c \in Contents : PeerCopies(c))
    BY <1>4 DEF Copy, PeerCopies
  <1>5. ASSUME NEW c \in Contents, NEW own \in BOOLEAN, NEW r \in Results, Select(c, own, r)
        PROVE  Fit(client')
    BY <1>5, SelectFits
  <1>6. ASSUME NEW s \in [sending : {"all", "some", "nobody", "deferred"},
                          receiving : {"all", "blocked", "paused"}], ChangeSettings(s)
        PROVE  Fit(client')
    <2>1. client' = Cancel(Outdated(client)) \/ client' = Outdated(client)
      BY <1>6 DEF ChangeSettings
    <2> QED BY <2>1, OutdatedFits, CancelFits
  <1>7. CASE \E x \in {"some", "nobody", "deferred"} : ChangeDevices(x)
    BY <1>7 DEF ChangeDevices
  <1>8. CASE UNCHANGED vars
    BY <1>8 DEF vars
  <1> QED BY <1>1, <1>2, <1>3, <1>4, <1>5, <1>6, <1>7, <1>8 DEF Next

\* What the client has observed and has not settled meets an empty guard, in every state.
THEOREM FitInvariant == Spec => []Fit(client)
  <1>1. Init => Fit(client)
    BY DEF Init, New, Fit, Fields
  <1>2. Fit(client) /\ [Next]_vars => Fit(client)'
    BY FitStep
  <1> QED BY <1>1, <1>2, PTL DEF Spec

(***************************************************************************)
(* The theorems.                                                            *)
(***************************************************************************)

\* A client that has lost track stays so.
LEMMA ConfusedStays ==
    ASSUME [Next]_vars, ~confused'
    PROVE  ~confused
  <1>1. CASE Work
    <2>1. CASE Poll
      BY <2>1 DEF Poll, Becomes, Brings, Yields
    <2>2. CASE Land \/ Store \/ Reconnect \/ AckExpires
      BY <2>2 DEF Land, Store, Reconnect, AckExpires, ghosts
    <2>3. ASSUME NEW read \in BOOLEAN, Start(read) \/ Paste(read) PROVE ~confused
      BY <2>3 DEF Start, ghosts, Paste, Becomes, Brings, Yields
    <2>4. ASSUME NEW read \in BOOLEAN, NEW ignored \in BOOLEAN, SourceAnswered(ignored, read)
          PROVE  ~confused
      BY <2>4 DEF SourceAnswered, Becomes, Brings, Yields
    <2>5. ASSUME NEW r \in Results, Hear(r) PROVE ~confused
      BY <2>5 DEF Hear, Becomes, Brings, Yields
    <2>6. ASSUME NEW r \in Results, RetryWrite(r) PROVE ~confused
      BY <2>6 DEF RetryWrite, Yields
    <2> QED BY <1>1, <2>1, <2>2, <2>3, <2>4, <2>5, <2>6 DEF Work
  <1>2. CASE Disconnect \/ Stop
    BY <1>2 DEF Disconnect, Stop, ghosts
  <1>3. ASSUME NEW c \in Shown, Copy(c) PROVE ~confused
    BY <1>3 DEF Copy
  <1>4. ASSUME NEW c \in Contents, PeerCopies(c) PROVE ~confused
    BY <1>4 DEF PeerCopies, ghosts
  <1>5. ASSUME NEW c \in Contents, NEW own \in BOOLEAN, NEW r \in Results, Select(c, own, r)
        PROVE  ~confused
    BY <1>5 DEF Select, Becomes, Brings, Yields
  <1>6. ASSUME NEW s \in [sending : {"all", "some", "nobody", "deferred"},
                          receiving : {"all", "blocked", "paused"}], ChangeSettings(s)
        PROVE  ~confused
    BY <1>6 DEF ChangeSettings
  <1>7. ASSUME NEW x \in {"some", "nobody", "deferred"}, ChangeDevices(x) PROVE ~confused
    BY <1>7 DEF ChangeDevices, ghosts
  <1>8. CASE UNCHANGED vars
    BY <1>8 DEF vars, ghosts
  <1> QED BY <1>1, <1>2, <1>3, <1>4, <1>5, <1>6, <1>7, <1>8 DEF Next

LEMMA GuardStep ==
    ASSUME ~confused', GuardInv, [Next]_vars
    PROVE  GuardInv'
  <1>1. CASE Work
    <2>1. CASE Poll
      BY <2>1, PollKeeps
    <2>2. CASE Land
      BY <2>2, LandKeeps
    <2>3. CASE Store \/ Reconnect
      BY <2>3, HubKeeps
    <2>4. CASE AckExpires
      BY <2>4, AckExpiresKeeps
    <2>5. ASSUME NEW read \in BOOLEAN,
                 \/ Start(read) \/ Paste(read)
                 \/ \E ignored \in BOOLEAN : SourceAnswered(ignored, read)
          PROVE  GuardInv'
      BY <2>5, StartKeeps, PasteKeeps, SourceAnsweredKeeps
    <2>6. ASSUME NEW r \in Results, Hear(r) \/ RetryWrite(r)
          PROVE  GuardInv'
      BY <2>6, HearKeeps, RetryWriteKeeps
    <2> QED BY <1>1, <2>1, <2>2, <2>3, <2>4, <2>5, <2>6 DEF Work
  <1>2. CASE Disconnect \/ \E c \in Contents : PeerCopies(c)
    BY <1>2, HubKeeps
  <1>3. CASE Stop
    BY <1>3, StopKeeps
  <1>4. ASSUME NEW c \in Shown, Copy(c) PROVE GuardInv'
    BY <1>4, CopyKeeps
  <1>5. ASSUME NEW c \in Contents, NEW own \in BOOLEAN, NEW r \in Results, Select(c, own, r)
        PROVE  GuardInv'
    BY <1>5, SelectKeeps
  <1>6. ASSUME NEW s \in [sending : {"all", "some", "nobody", "deferred"},
                          receiving : {"all", "blocked", "paused"}], ChangeSettings(s)
        PROVE  GuardInv'
    BY <1>6, ChangesKeep DEF Sendings
  <1>7. ASSUME NEW x \in {"some", "nobody", "deferred"}, ChangeDevices(x) PROVE GuardInv'
    BY <1>7, ChangesKeep DEF Sendings
  <1>8. CASE UNCHANGED vars
    BY <1>8 DEF vars, os, hub, ghosts, GuardInv
  <1> QED BY <1>1, <1>2, <1>3, <1>4, <1>5, <1>6, <1>7, <1>8 DEF Next

\* What the client's own writes leave behind is in the evidence, in the order in which it
\* will be read, until the client has observed it; a copy that is not settled is in hand:
\* as long as the client has not lost track of its own writes.
THEOREM GuardInvariant == Spec => [](confused \/ GuardInv)
  <1>1. (confused \/ GuardInv) /\ [Next]_vars => (confused \/ GuardInv)'
    BY GuardStep, ConfusedStays
  <1> QED BY GuardStarts, <1>1, PTL DEF Spec

\* The loop guard (sync-service.js, loop-guard.js) takes exactly the client's own writes
\* for its own: no copy of the user is swallowed, whatever happens, and nothing the client
\* has written is sent, unless it has lost track of its writes.
THEOREM LoopGuardExact == Spec => []GuardExact
  <1>1. Fit(client) /\ (confused \/ GuardInv) => GuardExact
    <2> SUFFICES ASSUME Fit(client), confused \/ GuardInv PROVE GuardExact
      OBVIOUS
    <2>1. ASSUME ~confused PROVE \A i \in DOMAIN up : up[i].act # 0
      <3>1. up \in Seq(Messages)
        BY <2>1 DEF GuardInv
      <3>2. \A i \in DOMAIN up : up[i] \in Messages
        BY <3>1, LenProperties, ElementOfSeq
      <3> QED BY <3>2 DEF Messages
    <2> QED BY <2>1 DEF GuardExact, Fit
  <1> QED BY FitInvariant, GuardInvariant, <1>1, PTL

(***************************************************************************)
(* The clipboards converge: the invariant.                                 *)
(***************************************************************************)

\* What the clipboard shows once all writes are seen.
Final(sn, cm) == IF cm = <<>> THEN sn.content ELSE cm[Len(cm)].content

\* The clipboard shows d in the end, or the write in progress will see to it, or will find
\* a copy of the user.
Brought(k, sn, cm, d) ==
    \/ ~Pending(k) /\ Look[Final(sn, cm)] = Look[d]
    \/ Pending(k) /\ Look[k.write.content] = Look[d]
    \/ Pending(k) /\ sn.act # 0 /\ cm = <<>> /\ ~Known(k, sn.content)

\* The client has a baseline to compare with, and its write has found something.
Sighted(k) == k.baseline /\ (Pending(k) => k.write.hasObservation)

\* What a write in progress has found is what the client has observed, if that is still
\* there, though the user put it there; without a baseline nothing is to be sent.
Watched(k, sn) ==
    /\ (k.write # None /\ k.write.timer) => Pending(k)
    /\ (Pending(k) /\ k.write.hasObservation) =>
         /\ (sn.content = k.lastObserved /\ Of(k.evidence, sn.content) = {}) =>
               k.write.observed = sn.content
         /\ (k.write.accept /\ sn.act # 0 /\ k.write.observed = sn.content) =>
               sn.content = k.lastObserved
    /\ (k.baseline /\ ~Sighted(k)) => k.lastLocal = k.lastObserved
    /\ (k.polling # None /\ ~k.polling.stale) => Sighted(k)

\* The events of this device whose echo is still to come.
Own(dn) == {i \in DOMAIN dn : dn[i].type = "event" /\ dn[i].own}
Fresh(u, st) == {i \in DOMAIN u : u[i].id \notin st}

Awaited(u, dn, st) ==
    {[id |-> u[i].id, act |-> u[i].act] : i \in Fresh(u, st)}
      \cup {[id |-> dn[i].id, act |-> dn[i].act] : i \in Own(dn)}

\* Echoes come in the order in which the events were made.
Ordered(u, dn, st, ids) ==
    /\ \A i \in DOMAIN u : u[i].id \in 1 .. ids
    /\ \A i, j \in DOMAIN u : i <= j => u[i].id <= u[j].id
    /\ \A i \in Own(dn) : dn[i].id \in st
    /\ \A i, j \in Own(dn) : i < j => dn[i].id < dn[j].id
    /\ st \subseteq 1 .. ids
    /\ \A i \in Fresh(u, st) : \A n \in st : n < u[i].id
    /\ \A i \in Own(dn) : \A n \in st : n > dn[i].id => \E j \in Own(dn) : dn[j].id = n

\* Every echo that is to come and is not of the last event submitted is of an earlier act
\* than the last one the client knows of (n), or its copy has been sent anew; and a copy of
\* the user the client has not seen yet is later than them all.
Heeds(k, sn, awaited, n, x) ==
    /\ (/\ k.event # None /\ sn.act # 0 /\ sn.content = k.lastObserved
        /\ k.event.content = sn.content) => sn.act <= k.event.act
    /\ \A m, o \in awaited : m.id = o.id => m.act = o.act
    /\ k.event # None => \A m \in awaited :
         (m.id = k.event.id => m.act = k.event.act) /\ (m.act = k.event.act \/ m.act < n)
    /\ (sn.act # 0 /\ sn.content # k.lastObserved) => \A m \in awaited : m.act < sn.act
    /\ ~x => \A m \in awaited : m.id = k.submitted =>
         n <= m.act /\ (sn.act > m.act => sn.content # k.lastObserved)
    /\ \A m \in awaited : m.id # k.submitted =>
         m.act < n \/ \E o \in awaited : o.id > m.id /\ o.act = m.act

Silent(u, dn) == u = <<>> /\ \A i \in DOMAIN dn : dn[i].type = "event" /\ ~dn[i].own

\* The copy in hand has the last id, and no act is later than the last one (a).
Numbered(k, sn, awaited, a) ==
    /\ k.event # None => k.event.id = k.ids /\ k.ids # 0 /\ k.event.act <= a
    /\ a \in Nat /\ sn.act <= a /\ \A m \in awaited : m.act <= a

Answered(k, sn, u, dn, st, n, x, a) ==
    /\ Ordered(u, dn, st, k.ids) /\ n \in Nat /\ x \in BOOLEAN
    /\ Heeds(k, sn, Awaited(u, dn, st), n, x)
    /\ ~Sighted(k) => Silent(u, dn)
    /\ Numbered(k, sn, Awaited(u, dn, st), a)

Permitted(k) == (k.write # None /\ k.write.remote) => Accepts(k.write.own)

ConvergeInv ==
    /\ GuardInv
    /\ Watched(client, seen) /\ Permitted(client)
    /\ Answered(client, seen, up, down, stored, heeded, crossed, acts)
    /\ (due.known /\ ~crossed) => Brought(client, seen, coming, due.content)

(***************************************************************************)
(* What a method does to the client that the echoes are compared with.      *)
(***************************************************************************)

\* It finds a copy of the user (q), after k.
Found(q, k) ==
    /\ q.lastObserved = seen.content /\ q.submitted = 0 /\ q.ids = k.ids + 1
    /\ Sighted(k) => Sighted(q)
    /\ q.event # None =>
         q.event.act = seen.act /\ q.event.id = q.ids /\ q.event.content = seen.content

\* It sends nothing, and observes only what the client has written.
Stays(w, k) ==
    /\ w.sent = <<>> /\ w.client.ids = k.ids /\ w.client.submitted = k.submitted
    /\ w.client.event \in {k.event, None}
    /\ w.seen.act # 0 => w.seen = seen /\ w.client.lastObserved = k.lastObserved
    /\ Sighted(k) => Sighted(w.client)

\* It sends the copy in hand, or would if it could.
Sends(w, k) ==
    /\ w.seen = seen /\ k.lastObserved = seen.content /\ w.client.lastObserved = seen.content
    /\ k.event # None /\ k.event.content = seen.content
    /\ w.client.event # None /\ w.client.event.content = seen.content
    /\ w.client.event.act = k.event.act /\ w.client.event.id = w.client.ids
    /\ w.client.ids \in {k.ids, k.ids + 1} /\ (Sighted(k) => Sighted(w.client))
    /\ \/ w.sent = <<>> /\ w.client.submitted = k.submitted
       \/ /\ w.sent = <<[id |-> w.client.ids, content |-> seen.content, act |-> k.event.act]>>
          /\ w.client.submitted = w.client.ids /\ Sighted(w.client)

Passes(w, k) == Stays(w, k) \/ Sends(w, k)

Finds(w, k) ==
    /\ seen.act # 0 /\ coming = <<>> /\ w.seen = seen /\ w.coming = coming
    /\ w.client.write = None /\ w.client.lastObserved = seen.content
    /\ \E q \in Clients : Found(q, k) /\ Passes(w, q)

\* The client's fields stay what they are to be.
Goes(w) == Watched(w.client, w.seen) /\ Permitted(w.client)

(***************************************************************************)
(* The echoes that are to come.                                             *)
(***************************************************************************)

Named == [id : Nat \ {0}, act : Nat]

\* They are ids and acts.
LEMMA AwaitedIs ==
    ASSUME NEW u \in Seq(Messages), NEW dn \in Seq(Answers), NEW st, NEW ids \in Nat,
           Ordered(u, dn, st, ids)
    PROVE  /\ Awaited(u, dn, st) \subseteq Named
           /\ \A m \in Awaited(u, dn, st) : m.id \in 1 .. ids
  <1>1. \A i \in DOMAIN u : u[i] \in Messages
    BY LenProperties, ElementOfSeq
  <1>2. \A i \in DOMAIN dn : dn[i] \in Answers
    BY LenProperties, ElementOfSeq
  <1>3. ASSUME NEW i \in Fresh(u, st)
        PROVE  u[i].id \in 1 .. ids /\ u[i].act \in Nat
    BY <1>1, <1>3 DEF Fresh, Ordered, Messages
  <1>4. ASSUME NEW i \in Own(dn)
        PROVE  dn[i].id \in 1 .. ids /\ dn[i].act \in Nat
    BY <1>2, <1>4 DEF Own, Ordered, Answers
  <1>5. ASSUME NEW m \in Awaited(u, dn, st)
        PROVE  m \in Named /\ m.id \in 1 .. ids
    <2>1. CASE \E i \in Fresh(u, st) : m = [id |-> u[i].id, act |-> u[i].act]
      BY <1>3, <2>1 DEF Named
    <2>2. CASE \E i \in Own(dn) : m = [id |-> dn[i].id, act |-> dn[i].act]
      BY <1>4, <2>2 DEF Named
    <2> QED BY <1>5, <2>1, <2>2 DEF Awaited
  <1> QED BY <1>5

\* The client passes what is on the clipboard.
LEMMA HeedsStays ==
    ASSUME NEW k, NEW w, NEW awaited \in SUBSET Named, NEW n \in Nat, NEW x,
           Heeds(k, seen, awaited, n, x), Stays(w, k), w.seen.act \in Nat
    PROVE  Heeds(w.client, w.seen, awaited, n, x)
  <1>1. CASE w.seen.act = 0
    <2>1. \A m \in awaited : ~(w.seen.act > m.act)
      BY <1>1 DEF Named
    <2> QED BY <1>1, <2>1 DEF Heeds, Stays
  <1>2. CASE w.seen.act # 0
    BY <1>2 DEF Heeds, Stays
  <1> QED BY <1>1, <1>2

\* It sends.
LEMMA HeedsSends ==
    ASSUME NEW k, NEW w, NEW awaited \in SUBSET Named, NEW more \in SUBSET Named,
           NEW n \in Nat, NEW x \in BOOLEAN, NEW y,
           Heeds(k, seen, awaited, n, x), Sends(w, k), k.ids \in Nat, k.event.act \in Nat,
           k.event.id = k.ids, seen.act \in Nat, \A m \in awaited : m.id <= k.ids,
           y = (x \/ \E i \in DOMAIN w.sent : w.sent[i].act < n),
           more = awaited \/ more = awaited \cup {[id |-> w.client.ids, act |-> k.event.act]},
           w.sent = <<>> => more = awaited,
           w.sent # <<>> =>
             (\E o \in more : o.id = w.client.ids) \/ \A m \in awaited : m.id >= w.client.ids
    PROVE  Heeds(w.client, seen, more, n, y)
  <1> DEFINE q == w.client
             a == k.event.act
             new == [id |-> q.ids, act |-> a]
  <1>1. /\ q.event # None /\ q.event.act = a /\ q.event.id = q.ids /\ q.lastObserved = seen.content
        /\ k.lastObserved = seen.content /\ k.event # None /\ q.ids \in Nat /\ k.ids <= q.ids
        /\ q.ids \in {k.ids, k.ids + 1} /\ q.event.content = seen.content
        /\ k.event.content = seen.content
    BY DEF Sends
  <1> HIDE DEF q
  <1>2. \A m \in awaited : m.id = q.ids => m.act = a
    <2>1. ASSUME NEW m \in awaited, m.id = q.ids PROVE m.id = k.ids
      <3>1. m.id <= k.ids /\ m.id \in Nat
        BY DEF Named
      <3> QED BY <1>1, <2>1, <3>1
    <2> QED BY <1>1, <2>1 DEF Heeds
  <1>3. \A m \in more : m \in awaited \/ m = new
    BY DEF q
  <1>4. \A m \in more : m.id = q.ids => m.act = a
    BY <1>2, <1>3
  <1>5. \A m, o \in more : m.id = o.id => m.act = o.act
    BY <1>2, <1>3 DEF Heeds
  <1>6. \A m \in more : m.act = a \/ m.act < n
    BY <1>1, <1>3 DEF Heeds
  <1>7. CASE w.sent = <<>>
    <2>1. more = awaited /\ q.submitted = k.submitted
      BY <1>7 DEF Sends, q
    <2>2. y = x
      BY <1>7
    <2> QED BY <1>1, <1>4, <1>5, <1>6, <2>1, <2>2 DEF Heeds, q
  <1>8. CASE w.sent # <<>>
    <2>1. q.submitted = q.ids /\ w.sent[1].act = a /\ 1 \in DOMAIN w.sent
      BY <1>8 DEF Sends, q
    <2>2. ~y => ~x /\ n <= a
      <3>1. a \in Nat
        OBVIOUS
      <3>2. ~y => ~x /\ ~(w.sent[1].act < n)
        BY <2>1
      <3> HIDE DEF a
      <3>3. ~(a < n) => n <= a
        BY <3>1
      <3> QED BY <2>1, <3>2, <3>3
    <2>3. seen.act <= a
      <3>1. seen.act # 0 => seen.act <= a
        BY <1>1 DEF Heeds
      <3> QED BY <3>1
    <2>4. ~y => \A m \in more : m.id = q.submitted =>
             n <= m.act /\ (seen.act > m.act => seen.content # q.lastObserved)
      BY <1>4, <2>1, <2>2, <2>3
    <2>5. ASSUME NEW m \in more, m.id # q.submitted
          PROVE  m.act < n \/ \E o \in more : o.id > m.id /\ o.act = m.act
      <3>1. m \in awaited /\ m.id \in Nat /\ m.id <= k.ids
        BY <1>3, <2>1, <2>5 DEF Named
      <3>2. CASE m.id # k.submitted
        BY <3>1, <3>2 DEF Heeds
      <3>3. CASE m.act = a
        <4>1. m.id < q.ids
          BY <1>1, <2>1, <2>5, <3>1
        <4>2. PICK o \in more : o.id = q.ids
          <5>1. ~(m.id >= q.ids) /\ q = w.client
            BY <1>1, <3>1, <4>1 DEF q
          <5> QED BY <1>8, <3>1, <5>1
        <4> QED BY <1>4, <3>3, <4>1, <4>2
      <3> QED BY <1>6, <3>2, <3>3
    <2> QED BY <1>1, <1>4, <1>5, <1>6, <2>3, <2>4, <2>5 DEF Heeds, q
  <1> QED BY <1>7, <1>8

\* It finds a copy that is later than all the echoes still to come.
LEMMA HeedsFound ==
    ASSUME NEW k, NEW q, NEW awaited \in SUBSET Named, NEW n \in Nat, NEW x,
           Heeds(k, seen, awaited, n, x), Found(q, k), k.ids \in Nat, seen.act \in Nat \ {0},
           \A m \in awaited : m.id <= k.ids,
           seen.content # k.lastObserved \/ awaited = {}
    PROVE  Heeds(q, seen, awaited, seen.act, x)
  <1>1. \A m \in awaited : m.act < seen.act /\ m.id \in Nat \ {0} /\ m.id # k.ids + 1
    BY DEF Heeds, Named
  <1> QED BY <1>1 DEF Heeds, Found

\* What the client knows of the echoes still holds when it sends nothing,
LEMMA AnsweredStays ==
    ASSUME NEW k \in Clients, NEW w, NEW u \in Seq(Messages), NEW dn \in Seq(Answers), NEW st,
           NEW n, NEW x, NEW a, Answered(k, seen, u, dn, st, n, x, a),
           Stays(w, k), w.seen \in Snapshots
    PROVE  Answered(w.client, w.seen, u, dn, st, n, x, a)
  <1> DEFINE awaited == Awaited(u, dn, st)
  <1>1. /\ Ordered(u, dn, st, k.ids) /\ n \in Nat /\ x \in BOOLEAN
        /\ Heeds(k, seen, awaited, n, x) /\ (~Sighted(k) => Silent(u, dn))
        /\ Numbered(k, seen, awaited, a) /\ k.ids \in Nat /\ w.seen.act \in Nat
    BY DEF Answered, Clients, Snapshots
  <1>2. awaited \in SUBSET Named
    BY <1>1, AwaitedIs
  <1> HIDE DEF awaited
  <1>3. Heeds(w.client, w.seen, awaited, n, x)
    BY <1>1, <1>2, HeedsStays
  <1>4. Numbered(w.client, w.seen, awaited, a)
    <2>1. w.seen.act <= a
      BY <1>1 DEF Numbered, Stays
    <2> QED BY <1>1, <2>1 DEF Numbered, Stays
  <1>5. /\ Ordered(u, dn, st, w.client.ids) /\ (~Sighted(w.client) => Silent(u, dn))
    BY <1>1 DEF Stays
  <1> QED BY <1>1, <1>3, <1>4, <1>5 DEF Answered, awaited

\* v is u with m at its end.
Adds(v, u, m) ==
    \E p \in Nat : /\ DOMAIN v = DOMAIN u \cup {p} /\ v[p] = m
                   /\ \A i \in DOMAIN u : i \in Nat /\ i < p /\ v[i] = u[i]

\* An element is appended.
LEMMA AddsIs ==
    ASSUME NEW S, NEW u \in Seq(S), NEW m \in S, NEW sent, sent = <<m>>
    PROVE  Adds(u \o sent, u, m)
  <1> DEFINE v == u \o <<m>>
  <1>1. <<m>> \in Seq(S) /\ Len(<<m>>) = 1 /\ <<m>>[1] = m
    OBVIOUS
  <1>2. /\ v \in Seq(S) /\ Len(v) = Len(u) + 1
        /\ \A i \in 1 .. Len(u) + 1 : v[i] = IF i <= Len(u) THEN u[i] ELSE <<m>>[i - Len(u)]
    BY <1>1, ConcatProperties
  <1>3. Len(u) \in Nat /\ DOMAIN u = 1 .. Len(u) /\ DOMAIN v = 1 .. Len(v)
    BY <1>2, LenProperties
  <1>4. \A i \in 1 .. Len(u) : v[i] = u[i]
    BY <1>2, <1>3
  <1>5. v[Len(u) + 1] = m
    BY <1>1, <1>2, <1>3
  <1> HIDE DEF v
  <1>6. DOMAIN v = DOMAIN u \cup {Len(u) + 1} /\ Len(u) + 1 \in Nat
        /\ \A i \in DOMAIN u : i \in Nat /\ i < Len(u) + 1 /\ v[i] = u[i]
    BY <1>2, <1>3, <1>4
  <1> QED BY <1>5, <1>6 DEF v, Adds

\* The event that is sent is the last one.
LEMMA SentIs ==
    ASSUME NEW u, NEW dn, NEW st, NEW ids \in Nat,
           NEW more \in Nat \ {0}, more = ids \/ more = ids + 1, Ordered(u, dn, st, ids),
           NEW m, m.id = more, NEW v, Adds(v, u, m)
    PROVE  LET new == [id |-> more, act |-> m.act]
           IN  /\ Ordered(v, dn, st, more)
               /\ Awaited(v, dn, st) = IF more \in st THEN Awaited(u, dn, st)
                                       ELSE Awaited(u, dn, st) \cup {new}
               /\ (\E o \in Awaited(v, dn, st) : o.id = more)
                    \/ \A o \in Awaited(u, dn, st) : o.id >= more
  <1> DEFINE new == [id |-> more, act |-> m.act]
  <1>1. PICK p \in Nat : /\ DOMAIN v = DOMAIN u \cup {p} /\ v[p] = m
                         /\ \A i \in DOMAIN u : i \in Nat /\ i < p /\ v[i] = u[i]
    BY DEF Adds
  <1>2. p \in DOMAIN v /\ \A i \in DOMAIN v : i \in DOMAIN u \/ i = p
    BY <1>1
  <1>3. \A i \in DOMAIN u : i \in DOMAIN v /\ v[i] = u[i] /\ i # p /\ i < p /\ i \in Nat
    BY <1>1
  <1>4. v[p] = m
    BY <1>1
  <1>5. /\ ids <= more /\ \A n \in 1 .. ids : n \in 1 .. more /\ (n # more => n < more)
    OBVIOUS
  <1>6. \A i \in DOMAIN v : v[i].id \in 1 .. more
    <2>1. \A i \in DOMAIN u : v[i].id \in 1 .. more
      BY <1>3, <1>5 DEF Ordered
    <2>2. v[p].id \in 1 .. more
      BY <1>4
    <2> QED BY <1>2, <2>1, <2>2
  <1>7. ASSUME NEW i \in DOMAIN v, NEW j \in DOMAIN v, i <= j
        PROVE  v[i].id <= v[j].id
    <2>1. CASE j = p
      <3>1. v[j].id = more /\ v[i].id \in 1 .. more
        BY <1>4, <1>6, <2>1
      <3> QED BY <3>1
    <2>2. CASE j \in DOMAIN u
      <3>1. i \in DOMAIN u
        <4>1. i # p
          BY <1>2, <1>3, <1>7, <2>2
        <4> QED BY <1>2, <4>1
      <3> QED BY <1>3, <1>7, <2>2, <3>1 DEF Ordered
    <2> QED BY <1>2, <2>1, <2>2
  <1>8. st \subseteq 1 .. more
    BY <1>5 DEF Ordered
  <1>9. Fresh(v, st) = Fresh(u, st) \cup (IF more \in st THEN {} ELSE {p})
    BY <1>2, <1>3, <1>4 DEF Fresh
  <1>10. \A i \in Fresh(v, st) : \A n \in st : n < v[i].id
    <2>1. ASSUME NEW i \in Fresh(u, st), NEW n \in st PROVE n < v[i].id
      BY <1>3, <2>1 DEF Ordered, Fresh
    <2>2. ASSUME more \notin st, NEW n \in st PROVE n < v[p].id
      BY <1>4, <1>5, <2>2 DEF Ordered
    <2> QED BY <1>9, <2>1, <2>2
  <1>11. Ordered(v, dn, st, more)
    BY <1>6, <1>7, <1>8, <1>10 DEF Ordered
  <1>12. Awaited(v, dn, st) = IF more \in st THEN Awaited(u, dn, st)
                              ELSE Awaited(u, dn, st) \cup {new}
    <2>1. \A i \in Fresh(u, st) : v[i] = u[i]
      BY <1>3 DEF Fresh
    <2>2. {[id |-> v[i].id, act |-> v[i].act] : i \in Fresh(v, st)} =
             {[id |-> u[i].id, act |-> u[i].act] : i \in Fresh(u, st)}
               \cup (IF more \in st THEN {} ELSE {new})
      <3>1. CASE more \in st
        BY <1>9, <2>1, <3>1
      <3>2. CASE more \notin st
        <4>1. Fresh(v, st) = Fresh(u, st) \cup {p}
          BY <1>9, <3>2
        <4>2. [id |-> v[p].id, act |-> v[p].act] = new
          BY <1>4
        <4> HIDE DEF new
        <4> QED BY <2>1, <3>2, <4>1, <4>2
      <3> QED BY <3>1, <3>2
    <2> HIDE DEF new
    <2> QED BY <2>2 DEF Awaited
  <1>13. (\E o \in Awaited(v, dn, st) : o.id = more) \/ \A o \in Awaited(u, dn, st) : o.id >= more
    <2>1. CASE more \notin st
      <3>1. new \in Awaited(v, dn, st) /\ new.id = more
        BY <1>12, <2>1
      <3> QED BY <3>1
    <2>2. CASE more \in st
      <3> SUFFICES ASSUME NEW o \in Awaited(u, dn, st), ~(o.id >= more)
                   PROVE  \E g \in Awaited(v, dn, st) : g.id = more
        OBVIOUS
      <3>1. CASE \E i \in Fresh(u, st) : o = [id |-> u[i].id, act |-> u[i].act]
        <4>1. PICK i \in Fresh(u, st) : o = [id |-> u[i].id, act |-> u[i].act]
          BY <3>1
        <4>2. more < o.id /\ o.id \in Nat
          BY <2>2, <4>1 DEF Ordered, Fresh
        <4> QED BY <4>2
      <3>2. CASE \E i \in Own(dn) : o = [id |-> dn[i].id, act |-> dn[i].act]
        <4>1. PICK i \in Own(dn) : o = [id |-> dn[i].id, act |-> dn[i].act]
          BY <3>2
        <4>2. dn[i].id \in st /\ o.id = dn[i].id /\ o.id \in Nat
          <5>1. dn[i].id \in st /\ st \subseteq 1 .. ids
            BY DEF Ordered
          <5>2. dn[i].id \in 1 .. ids
            BY <5>1
          <5> QED BY <4>1, <5>1, <5>2
        <4>3. more > dn[i].id
          BY <4>2
        <4>4. PICK j \in Own(dn) : dn[j].id = more
          BY <2>2, <4>3 DEF Ordered
        <4>5. [id |-> dn[j].id, act |-> dn[j].act] \in Awaited(v, dn, st)
          BY DEF Awaited
        <4> QED BY <4>4, <4>5
      <3> QED BY <3>1, <3>2 DEF Awaited
    <2> QED BY <2>1, <2>2
  <1> QED BY <1>11, <1>12, <1>13

\* when it sends the copy in hand,
LEMMA AnsweredSends ==
    ASSUME NEW k \in Clients, NEW w, NEW u \in Seq(Messages), NEW dn \in Seq(Answers), NEW st,
           NEW n, NEW x, NEW y, NEW a, Answered(k, seen, u, dn, st, n, x, a),
           Sends(w, k), seen \in Snapshots, w.sent \in Seq(Messages),
           y = (x \/ \E i \in DOMAIN w.sent : w.sent[i].act < n)
    PROVE  Answered(w.client, w.seen, u \o w.sent, dn, st, n, y, a)
  <1> DEFINE awaited == Awaited(u, dn, st)
             v == u \o w.sent
             more == Awaited(v, dn, st)
             new == [id |-> w.client.ids, act |-> k.event.act]
  <1>1. /\ Ordered(u, dn, st, k.ids) /\ n \in Nat /\ x \in BOOLEAN
        /\ Heeds(k, seen, awaited, n, x) /\ (~Sighted(k) => Silent(u, dn))
        /\ Numbered(k, seen, awaited, a) /\ k.ids \in Nat /\ seen.act \in Nat
    BY DEF Answered, Clients, Snapshots
  <1>2. k.event # None /\ k.event \in Copies /\ k.event.act \in Nat
    BY DEF Sends, Clients, Copies
  <1>3. awaited \in SUBSET Named /\ \A m \in awaited : m.id <= k.ids
    <2>1. awaited \subseteq Named /\ \A m \in awaited : m.id \in 1 .. k.ids
      BY <1>1, AwaitedIs
    <2> HIDE DEF awaited
    <2> QED BY <1>1, <2>1
  <1>4. k.event.id = k.ids /\ k.ids # 0
    BY <1>1, <1>2 DEF Numbered
  <1>5. w.client.ids \in Nat \ {0} /\ (w.client.ids = k.ids \/ w.client.ids = k.ids + 1)
    BY <1>1, <1>4 DEF Sends
  <1>6. /\ Ordered(v, dn, st, w.client.ids)
        /\ more = awaited \/ more = awaited \cup {new}
        /\ w.sent = <<>> => more = awaited
        /\ w.sent # <<>> => (\E o \in more : o.id = w.client.ids)
                              \/ \A m \in awaited : m.id >= w.client.ids
    <2>1. CASE w.sent = <<>>
      <3>1. v = u
        BY <2>1, ConcatEmptySeq
      <3>2. Ordered(u, dn, st, w.client.ids)
        <4>1. \A j \in 1 .. k.ids : j \in 1 .. w.client.ids
          BY <1>1, <1>5
        <4> QED BY <1>1, <4>1 DEF Ordered
      <3> HIDE DEF v
      <3> QED BY <2>1, <3>1, <3>2
    <2>2. CASE w.sent # <<>>
      <3> DEFINE m == [id |-> w.client.ids, content |-> seen.content, act |-> k.event.act]
      <3>1. w.sent = <<m>>
        BY <2>2 DEF Sends
      <3>2. m \in Messages /\ m.id = w.client.ids /\ m.act = k.event.act
        <4>1. m = <<m>>[1] /\ Len(<<m>>) = 1 /\ w.sent[1] = m
          BY <3>1
        <4>2. Len(w.sent) = 1
          BY <3>1, <4>1
        <4> HIDE DEF m
        <4>3. m \in Messages
          BY <4>1, <4>2, ElementOfSeq
        <4> QED BY <4>3 DEF m
      <3> HIDE DEF m
      <3>3. Adds(v, u, m)
        BY <3>1, <3>2, AddsIs
      <3> HIDE DEF v, more, awaited
      <3>4. /\ Ordered(v, dn, st, w.client.ids)
            /\ Awaited(v, dn, st) = IF w.client.ids \in st THEN Awaited(u, dn, st)
                                    ELSE Awaited(u, dn, st) \cup {[id |-> w.client.ids, act |-> m.act]}
            /\ \/ \E o \in Awaited(v, dn, st) : o.id = w.client.ids
               \/ \A o \in Awaited(u, dn, st) : o.id >= w.client.ids
        BY <1>1, <1>5, <3>2, <3>3, SentIs
      <3> QED BY <2>2, <3>2, <3>4 DEF more, awaited
    <2> QED BY <2>1, <2>2
  <1>7. more \in SUBSET Named
    BY <1>2, <1>3, <1>5, <1>6 DEF Named
  <1> HIDE DEF awaited, more, v
  <1>8. Heeds(w.client, seen, more, n, y)
    <2> HIDE DEF new
    <2>1. more = awaited \/ more = awaited \cup {[id |-> w.client.ids, act |-> k.event.act]}
      BY <1>6 DEF new
    <2> QED BY <1>1, <1>2, <1>3, <1>4, <1>6, <1>7, <2>1, HeedsSends
  <1>9. Numbered(w.client, seen, more, a)
    <2>1. \A m \in more : m.act <= a
      BY <1>1, <1>2, <1>6 DEF Numbered
    <2> QED BY <1>1, <1>2, <1>5, <2>1 DEF Numbered, Sends
  <1>10. ~Sighted(w.client) => Silent(v, dn)
    <2> SUFFICES ASSUME ~Sighted(w.client) PROVE Silent(v, dn)
      OBVIOUS
    <2>1. w.sent = <<>> /\ ~Sighted(k)
      BY DEF Sends
    <2>2. v = u
      BY <2>1, ConcatEmptySeq DEF v
    <2> QED BY <1>1, <2>1, <2>2
  <1>11. w.seen = seen /\ y \in BOOLEAN
    BY <1>1 DEF Sends
  <1> QED BY <1>1, <1>6, <1>8, <1>9, <1>10, <1>11 DEF Answered, more, v

\* and when it finds a copy.
LEMMA AnsweredFound ==
    ASSUME NEW k \in Clients, NEW q, NEW u \in Seq(Messages), NEW dn \in Seq(Answers), NEW st,
           NEW n, NEW x, NEW a, Answered(k, seen, u, dn, st, n, x, a),
           Found(q, k), seen \in Snapshots, seen.act # 0,
           seen.content # k.lastObserved \/ ~Sighted(k)
    PROVE  Answered(q, seen, u, dn, st, seen.act, x, a)
  <1> DEFINE awaited == Awaited(u, dn, st)
  <1>1. /\ Ordered(u, dn, st, k.ids) /\ n \in Nat /\ x \in BOOLEAN
        /\ Heeds(k, seen, awaited, n, x) /\ (~Sighted(k) => Silent(u, dn))
        /\ Numbered(k, seen, awaited, a) /\ k.ids \in Nat /\ seen.act \in Nat \ {0}
    BY DEF Answered, Clients, Snapshots
  <1>2. awaited \in SUBSET Named /\ \A m \in awaited : m.id <= k.ids
    <2>1. awaited \subseteq Named /\ \A m \in awaited : m.id \in 1 .. k.ids
      BY <1>1, AwaitedIs
    <2> HIDE DEF awaited
    <2> QED BY <1>1, <2>1
  <1>3. ~Sighted(k) => awaited = {}
    <2> SUFFICES ASSUME ~Sighted(k) PROVE awaited = {}
      OBVIOUS
    <2>1. Silent(u, dn)
      BY <1>1
    <2>2. Own(dn) = {} /\ Fresh(u, st) = {}
      BY <2>1 DEF Silent, Own, Fresh
    <2> QED BY <2>2 DEF Awaited
  <1> HIDE DEF awaited
  <1>4. Heeds(q, seen, awaited, seen.act, x)
    BY <1>1, <1>2, <1>3, HeedsFound
  <1>5. Numbered(q, seen, awaited, a)
    BY <1>1 DEF Numbered, Found
  <1>6. Ordered(u, dn, st, q.ids)
    <2>1. \A j \in 1 .. k.ids : j \in 1 .. k.ids + 1
      BY <1>1
    <2> QED BY <1>1, <2>1 DEF Ordered, Found
  <1> QED BY <1>1, <1>4, <1>5, <1>6 DEF Answered, Found, awaited

\* What the client makes of a step, and the user's act it then knows of.
LEMMA AnsweredPasses ==
    ASSUME NEW k \in Clients, NEW w, NEW u \in Seq(Messages), NEW dn \in Seq(Answers), NEW st,
           NEW n, NEW x, NEW y, NEW a, Answered(k, seen, u, dn, st, n, x, a),
           Passes(w, k), seen \in Snapshots, w.seen \in Snapshots, w.sent \in Seq(Messages),
           y = (x \/ \E i \in DOMAIN w.sent : w.sent[i].act < n)
    PROVE  Answered(w.client, w.seen, u \o w.sent, dn, st, n, y, a)
  <1>1. CASE Stays(w, k)
    <2>1. w.sent = <<>> /\ DOMAIN <<>> = {}
      BY <1>1 DEF Stays
    <2>2. u \o w.sent = u
      BY <2>1, ConcatEmptySeq
    <2>3. x \in BOOLEAN
      BY DEF Answered
    <2>4. y = x
      BY <2>1, <2>3
    <2> QED BY <1>1, <2>2, <2>4, AnsweredStays
  <1>2. CASE Sends(w, k)
    BY <1>2, AnsweredSends
  <1> QED BY <1>1, <1>2 DEF Passes
(***************************************************************************)
(* A step of the client.                                                    *)
(***************************************************************************)

\* What the client finds is a copy it has not noticed, or that it has nothing to compare
\* with.
Noticing(k, d, n) ==
    \/ seen.content # k.lastObserved
    \/ ~Sighted(k) /\ n = seen.act /\ d = Due(seen.content)

\* A step from k sees to it that d is shown, or finds a copy of the user.
Leads(w, k, d, n) ==
    /\ Goes(w)
    /\ \/ /\ Passes(w, k)
          /\ (d.known /\ ~crossed) =>
               GivenUp(w) \/ Brought(w.client, w.seen, w.coming, d.content)
       \/ Finds(w, k) /\ Noticing(k, d, n)

\* Such a step preserves the invariant.
LEMMA LeadsOn ==
    ASSUME GuardInv', NEW k \in Clients, k.ids = client.ids, k.lastObserved = client.lastObserved,
           NEW w, NEW d, NEW n, Brings(w, d, n), Keeps(w), Leads(w, k, d, n),
           up \in Seq(Messages), down' \in Seq(Answers), seen \in Snapshots,
           Answered(k, seen, up, down', stored, n, crossed, acts'),
           settings' = settings, stored' = stored
    PROVE  ConvergeInv'
  <1>1. /\ client' = w.client /\ seen' = w.seen /\ coming' = w.coming /\ up' = up \o w.sent
        /\ due' = (CASE Noticed(w) -> Due(seen.content)
                     [] ~Noticed(w) /\ GivenUp(w) -> Unknown
                     [] OTHER -> d)
        /\ heeded' = IF Noticed(w) THEN seen.act ELSE n
        /\ crossed' = (crossed \/ \E i \in DOMAIN w.sent : w.sent[i].act < heeded')
    BY DEF Brings, Yields
  <1>2. /\ w.client \in Clients /\ w.seen \in Snapshots /\ w.sent \in Seq(Messages)
        /\ k.ids \in Nat /\ w.client.ids \in Nat /\ crossed \in BOOLEAN
    BY DEF Keeps, Sound, Board, Clients, Answered
  <1>3. Watched(client', seen') /\ Permitted(client)'
    BY <1>1 DEF Leads, Goes, Permitted, Accepts, Allowed
  <1>4. CASE Passes(w, k) /\ ((d.known /\ ~crossed) =>
                GivenUp(w) \/ Brought(w.client, w.seen, w.coming, d.content))
    <2>1. ~Noticed(w)
      <3>1. CASE Stays(w, k)
        BY <1>2, <3>1 DEF Noticed, Stays
      <3>2. CASE Sends(w, k)
        BY <3>2 DEF Noticed, Sends
      <3> QED BY <1>4, <3>1, <3>2 DEF Passes
    <2>2. heeded' = n /\ due' = IF GivenUp(w) THEN Unknown ELSE d
      BY <1>1, <2>1
    <2>3. crossed' = (crossed \/ \E i \in DOMAIN w.sent : w.sent[i].act < n)
      BY <1>1, <2>2
    <2>4. Answered(w.client, w.seen, up \o w.sent, down', stored, n, crossed', acts')
      BY <1>2, <1>4, <2>3, AnsweredPasses
    <2>5. Answered(client', seen', up', down', stored', heeded', crossed', acts')
      BY <1>1, <2>2, <2>4
    <2>6. (due'.known /\ ~crossed') => Brought(client', seen', coming', due'.content)
      <3>1. CASE GivenUp(w)
        BY <2>2, <3>1 DEF Unknown
      <3>2. CASE ~GivenUp(w)
        BY <1>1, <1>4, <2>2, <2>3, <3>2
      <3> QED BY <3>1, <3>2
    <2> QED BY <1>3, <2>5, <2>6 DEF ConvergeInv
  <1>5. CASE Finds(w, k) /\ Noticing(k, d, n)
    <2>1. /\ seen.act # 0 /\ coming = <<>> /\ w.seen = seen /\ w.coming = coming
          /\ w.client.write = None /\ w.client.lastObserved = seen.content
      BY <1>5 DEF Finds
    <2>2. PICK q : Found(q, k) /\ Passes(w, q) /\ q \in Clients
      BY <1>5 DEF Finds
    <2>3. w.client.ids > client.ids
      <3>1. q.ids = k.ids + 1 /\ (w.client.ids = q.ids \/ w.client.ids = q.ids + 1)
        BY <2>2 DEF Found, Passes, Stays, Sends
      <3> QED BY <1>2, <3>1
    <2>4. Noticed(w) <=> seen.content # k.lastObserved
      BY <2>1, <2>3 DEF Noticed
    <2>5. ~GivenUp(w)
      BY <2>1 DEF GivenUp
    <2>6. heeded' = seen.act /\ due' = Due(seen.content)
      BY <1>1, <1>5, <2>4, <2>5 DEF Noticing
    <2>7. Answered(q, seen, up, down', stored, seen.act, crossed, acts')
      BY <1>5, <2>1, <2>2, AnsweredFound DEF Noticing
    <2>8. crossed' = (crossed \/ \E i \in DOMAIN w.sent : w.sent[i].act < seen.act)
      BY <1>1, <2>6
    <2>9. Answered(w.client, w.seen, up \o w.sent, down', stored, seen.act, crossed', acts')
      BY <1>2, <2>2, <2>7, <2>8, AnsweredPasses
    <2>10. Answered(client', seen', up', down', stored', heeded', crossed', acts')
      BY <1>1, <2>6, <2>9
    <2>11. Brought(client', seen', coming', due'.content)
      BY <1>1, <2>1, <2>6 DEF Brought, Pending, Final, Due
    <2> QED BY <1>3, <2>10, <2>11 DEF ConvergeInv
  <1> QED BY <1>4, <1>5 DEF Leads
(***************************************************************************)
(* The methods again: what is due, and what the echoes are compared with.   *)
(***************************************************************************)

\* The same write, with what it has found.
SameWrite(v, w) ==
    /\ v.content = w.content /\ v.own = w.own /\ v.remote = w.remote /\ v.accept = w.accept
    /\ v.hasWritten = w.hasWritten /\ v.observed = w.observed
    /\ v.hasObservation = w.hasObservation

LEMMA RetryIs ==
    ASSUME NEW k \in Clients, Pending(k)
    PROVE  LET q == Retry(k) IN
           /\ q \in Clients /\ SameButWrite(q, k) /\ q.write # None /\ SameWrite(q.write, k.write)
           /\ (q.write.status = "failed" /\ ~q.write.timer) \/ Pending(q)
  <1> DEFINE f == [k.write EXCEPT !.status = "failed", !.timer = FALSE]
             t == [k.write EXCEPT !.timer = TRUE]
  <1>1. k.write \in Writes /\ k.write.status = "pending"
    BY DEF Clients, Pending
  <1>2. f \in Writes /\ SameWrite(f, k.write) /\ f.status = "failed" /\ ~f.timer
    BY <1>1 DEF Writes, SameWrite
  <1>3. t \in Writes /\ SameWrite(t, k.write) /\ t.status = "pending"
    BY <1>1 DEF Writes, SameWrite
  <1>4. Retry(k) = [k EXCEPT !.write = f] \/ Retry(k) = [k EXCEPT !.write = t]
    BY <1>1 DEF Retry, Clients, Writes
  <1> HIDE DEF f, t
  <1>5. CASE Retry(k) = [k EXCEPT !.write = f]
    BY <1>2, <1>5, WriteSet, NoneIsNone
  <1>6. CASE Retry(k) = [k EXCEPT !.write = t]
    BY <1>3, <1>6, WriteSet, NoneIsNone DEF Pending
  <1> QED BY <1>4, <1>5, <1>6

\* scheduleClipboardWriteRetry
LEMMA RetryGoes ==
    ASSUME NEW k \in Clients, Pending(k), NEW sn, Watched(k, sn), Permitted(k)
    PROVE  LET q == Retry(k) IN
           /\ Watched(q, sn) /\ Permitted(q) /\ (Sighted(k) => Sighted(q))
           /\ q.write # None /\ (q.write.status = "failed" \/ Pending(q))
           /\ \A cm, d : Pending(q) => (Brought(k, sn, cm, d) <=> Brought(q, sn, cm, d))
  <1> DEFINE q == Retry(k)
  <1>1. /\ q \in Clients /\ SameButWrite(q, k) /\ q.write # None /\ SameWrite(q.write, k.write)
        /\ (q.write.status = "failed" /\ ~q.write.timer) \/ Pending(q)
    BY RetryIs
  <1> HIDE DEF q
  <1>2. Pending(q) => Pending(k)
    OBVIOUS
  <1>3. Sighted(k) => Sighted(q)
    BY <1>1 DEF Sighted, SameButWrite, SameWrite
  <1>4. (~Sighted(q) /\ q.baseline) => ~Sighted(k) /\ k.baseline
    BY <1>1, <1>3 DEF SameButWrite
  <1>5. Watched(q, sn)
    BY <1>1, <1>3, <1>4 DEF Watched, SameButWrite, SameWrite
  <1>6. Permitted(q)
    BY <1>1 DEF Permitted, SameWrite, Pending
  <1>7. \A s : Pending(q) => (Known(k, s) <=> Known(q, s))
    BY <1>1 DEF Known, EvidenceFor, SameButWrite, SameWrite
  <1>8. \A cm, d : Pending(q) => (Brought(k, sn, cm, d) <=> Brought(q, sn, cm, d))
    BY <1>1, <1>7 DEF Brought, SameWrite
  <1> QED BY <1>1, <1>3, <1>5, <1>6, <1>8 DEF q

\* observeNewLocalSnapshot
LEMMA NewLocalFinds ==
    ASSUME NEW k \in Clients, seen \in Snapshots, seen.act # 0, coming = <<>>
    PROVE  LET w == OnlyClient(NewLocal(k, seen.content)) IN Finds(w, k) /\ Goes(w)
  <1> DEFINE q == NewLocal(k, seen.content)
             w == OnlyClient(q)
  <1>1. /\ q \in Clients /\ q.lastObserved = seen.content /\ q.write = None
        /\ (seen.content = Nothing => q.event = None)
        /\ (seen.content # Nothing => q.event \in Copies /\ q.event.content = seen.content)
        /\ (q.event # None => q.event.act = seen.act /\ q.event.id = q.ids)
        /\ q.ids = k.ids + 1 /\ q.submitted = 0 /\ (q.polling # None => q.polling.stale)
        /\ q.baseline = k.baseline
    BY NewLocalIs
  <1>2. w.client = q /\ w.seen = seen /\ w.coming = coming /\ w.sent = <<>>
    BY DEF OnlyClient
  <1> HIDE DEF q, w
  <1>3. ~Pending(q)
    BY <1>1 DEF Pending
  <1>4. Found(q, k)
    BY <1>1, <1>3 DEF Found, Sighted
  <1>5. Stays(w, q)
    BY <1>2 DEF Stays
  <1>6. Goes(w)
    BY <1>1, <1>2, <1>3 DEF Goes, Watched, Permitted, Sighted
  <1> QED BY <1>1, <1>2, <1>4, <1>5, <1>6 DEF Finds, Passes, q, w

\* rememberKnownSnapshot
LEMMA RememberGoes ==
    ASSUME NEW k, Sound(k, seen, coming), Watched(k, seen), Permitted(k),
           seen.act # 0 => seen.content = k.lastObserved
    PROVE  LET q == Remember(k, seen.content)
               w == OnlyClient(q)
           IN  /\ Stays(w, k) /\ Goes(w) /\ q.lastObserved = seen.content /\ q.baseline
               /\ (Pending(k) <=> Pending(q)) /\ (Pending(q) => q.write.hasObservation)
               /\ Pending(k) => /\ q.write.content = k.write.content
                                /\ q.write.accept = k.write.accept
                                /\ q.write.attempt = k.write.attempt
                                /\ q.write.hasWritten = k.write.hasWritten
               /\ \A d : ((Pending(k) => Known(k, seen.content)) /\ Brought(k, seen, coming, d)) =>
                    Brought(q, seen, coming, d)
  <1> DEFINE s == seen.content
             q == Remember(k, s)
             w == OnlyClient(q)
             v == [k.write EXCEPT !.observed = s, !.hasObservation = TRUE]
  <1>1. /\ k \in Clients /\ s \in Shown /\ Len(k.evidence) <= 2
    BY DEF Sound, Proven, Tokens, Board, Snapshots
  <1>2. /\ q \in Clients /\ q.lastObserved = s /\ q.baseline = TRUE /\ q.event = k.event
        /\ q.ids = k.ids /\ q.submitted = k.submitted
        /\ q.polling # None => q.polling.stale \/ (q.polling = k.polling /\ s = k.lastObserved)
        /\ q.write = IF Pending(k) THEN v ELSE k.write
    BY <1>1, RememberIs
  <1>3. w.client = q /\ w.seen = seen /\ w.coming = coming /\ w.sent = <<>>
    BY DEF OnlyClient
  <1> HIDE DEF q, w
  <1>4. Pending(k) =>
          /\ v \in Writes /\ v.observed = s /\ v.hasObservation /\ v.content = k.write.content
          /\ v.status = "pending" /\ v.accept = k.write.accept /\ v.remote = k.write.remote
          /\ v.attempt = k.write.attempt /\ v.own = k.write.own
          /\ v.hasWritten = k.write.hasWritten
    <2> SUFFICES ASSUME Pending(k)
                 PROVE  /\ v \in Writes /\ v.observed = s /\ v.hasObservation
                        /\ v.content = k.write.content /\ v.status = "pending"
                        /\ v.accept = k.write.accept /\ v.remote = k.write.remote
                        /\ v.attempt = k.write.attempt /\ v.own = k.write.own
                        /\ v.hasWritten = k.write.hasWritten
      OBVIOUS
    <2>1. k.write \in Writes /\ k.write.status = "pending"
      BY <1>1 DEF Clients, Pending
    <2> QED BY <1>1, <2>1, ObservedIs
  <1> HIDE DEF v, s
  <1>5. (Pending(k) => Pending(q) /\ q.write = v) /\ (~Pending(k) => ~Pending(q) /\ q.write = k.write)
    BY <1>2, <1>4, NoneIsNone DEF Pending
  <1>6. Sighted(q)
    BY <1>2, <1>4, <1>5 DEF Sighted
  <1>7. Watched(q, seen)
    <2>1. (q.write # None /\ q.write.timer) => Pending(q)
      BY <1>5 DEF Watched
    <2>2. (Pending(q) /\ q.write.hasObservation) => q.write.observed = s
      BY <1>4, <1>5
    <2> QED BY <1>2, <1>6, <2>1, <2>2 DEF Watched, s
  <1>8. Permitted(q)
    BY <1>4, <1>5 DEF Permitted, Pending
  <1>9. Stays(w, k)
    BY <1>2, <1>3, <1>6 DEF Stays, s
  <1>10. ASSUME NEW d, Pending(k) => Known(k, s), Brought(k, seen, coming, d)
         PROVE  Brought(q, seen, coming, d)
    BY <1>4, <1>5, <1>10 DEF Brought, s
  <1> QED BY <1>2, <1>3, <1>4, <1>5, <1>7, <1>8, <1>9, <1>10 DEF Goes, q, w, s

\* What is still to come after a write that is read back shows the same.
LEMMA FinalLooks ==
    ASSUME NEW k, NEW sn, NEW cm, Sound(k, sn, cm), Pending(k), k.write.hasWritten,
           Same(k.write.content, sn.content)
    PROVE  sn.act = 0 /\ Look[Final(sn, cm)] = Look[k.write.content]
  <1> DEFINE found == k.evidence
             n == Len(found)
  <1>1. /\ k.write # None /\ Tokens(found, k.tokens) /\ cm \in Seq(Unread)
        /\ Board(k.lastObserved, k.lastLocal, found, sn, cm)
    BY DEF Sound, Proven, Pending, Board, Unread
  <1>2. PICK i \in DOMAIN found : found[i].token = k.tokens
    BY DEF Sound, Proven
  <1>3. found[i].content = k.write.content
    BY <1>1, <1>2 DEF Sound, Proven
  <1>4. i = n /\ found \in Seq(Findings)
    BY <1>1, <1>2, LastToken
  <1>5. n \in Of(found, sn.content) /\ n \in Nat /\ DOMAIN found = 1 .. n
    BY <1>2, <1>3, <1>4, LenProperties DEF Of
  <1> HIDE DEF found, n
  <1>6. sn.act = 0
    BY <1>1, <1>5 DEF Board
  <1>7. CASE cm = <<>>
    BY <1>6, <1>7 DEF Final, Same
  <1>8. CASE cm # <<>>
    <2> DEFINE l == Len(cm)
    <2>1. l \in DOMAIN cm
      BY <1>1, <1>8, ComingIs
    <2> HIDE DEF l
    <2>2. PICK j \in Of(found, cm[l].content) : n <= j
      BY <1>1, <1>5, <2>1 DEF Board, Later
    <2>3. j = n
      BY <1>5, <2>2 DEF Of
    <2>4. Look[cm[l].content] = Look[k.write.content]
      BY <1>3, <1>4, <2>2, <2>3 DEF Of, Same
    <2> QED BY <1>6, <1>8, <2>4 DEF Final, l
  <1> QED BY <1>7, <1>8

\* confirmWrite
LEMMA ConfirmGoes ==
    ASSUME NEW k, NEW sn, NEW cm, Sound(k, sn, cm), Pending(k), k.write.hasWritten,
           Same(k.write.content, sn.content), Permitted(k)
    PROVE  LET q == Confirm(k, sn.content) IN
           /\ Watched(q, sn) /\ Permitted(q) /\ Sighted(q) /\ q.ids = k.ids
           /\ q.submitted = k.submitted /\ q.event = None /\ sn.act = 0
           /\ \A d : Look[k.write.content] = Look[d] => Brought(q, sn, cm, d)
  <1> DEFINE s == sn.content
             q == Confirm(k, s)
  <1>1. k \in Clients /\ s \in Shown
    BY DEF Sound, Board, Snapshots
  <1>2. /\ q.lastLocal = s /\ q.lastObserved = s
        /\ q.write # None /\ q.write.status = "succeeded" /\ ~q.write.timer
        /\ q.event = None /\ q.baseline /\ (q.polling # None => q.polling.stale)
        /\ q.ids = k.ids /\ q.submitted = k.submitted
        /\ q.write.own = k.write.own /\ q.write.remote = k.write.remote
    BY <1>1, ConfirmIs
  <1> HIDE DEF q
  <1>3. ~Pending(q)
    BY <1>2 DEF Pending
  <1>4. Watched(q, sn) /\ Sighted(q)
    BY <1>2, <1>3 DEF Watched, Sighted
  <1>5. Permitted(q)
    BY <1>2 DEF Permitted, Pending
  <1>6. sn.act = 0 /\ Look[Final(sn, cm)] = Look[k.write.content]
    BY FinalLooks
  <1>7. \A d : Look[k.write.content] = Look[d] => Brought(q, sn, cm, d)
    BY <1>3, <1>6 DEF Brought
  <1> QED BY <1>2, <1>4, <1>5, <1>6, <1>7 DEF q, s
\* applyClipboardWrite from the write on.
LEMMA PerformLeads ==
    ASSUME NEW k, Sound(k, seen, coming), Pending(k), ~Full(k), NEW r \in Results,
           k.write.hasObservation, k.write.observed = seen.content,
           Watched(k, seen), Permitted(k),
           Clear(Perform(k, r), k)
    PROVE  LET w == Perform(k, r) IN
           /\ Stays(w, k) /\ Goes(w)
           /\ \A d : Look[k.write.content] = Look[d] =>
                GivenUp(w) \/ Brought(w.client, w.seen, w.coming, d)
  <1> DEFINE w == Perform(k, r)
             e == Evidenced(k)
  <1>1. k \in Clients /\ Proven(k)
    BY DEF Sound
  <1>2. /\ w.sent = <<>>
        /\ \/ w.client = Retry(k) /\ w.seen = seen /\ w.coming = coming
           \/ /\ Sound(e, w.seen, w.coming)
              /\ w.seen = seen \/ (w.seen.act = 0 /\ Of(e.evidence, w.seen.content) # {})
              /\ \/ w.client = Retry(e)
                 \/ w.client = Confirm(e, w.seen.content) /\ Same(k.write.content, w.seen.content)
    BY PerformIs
  <1>3. /\ e \in Clients /\ Pending(e) /\ e.write.content = k.write.content /\ e.write.hasWritten
        /\ e.lastLocal = k.lastLocal /\ e.lastObserved = k.lastObserved /\ e.polling = k.polling
        /\ e.baseline = k.baseline /\ e.event = k.event /\ e.write.observed = k.write.observed
        /\ e.write.hasObservation = k.write.hasObservation /\ e.write.accept = k.write.accept
        /\ e.write.own = k.write.own /\ e.write.remote = k.write.remote
        /\ e.ids = k.ids /\ e.submitted = k.submitted
    BY <1>1, EvidencedIs
  <1> HIDE DEF w, e
  <1>4. CASE w.client = Retry(k) /\ w.seen = seen /\ w.coming = coming
    <2> DEFINE q == Retry(k)
    <2>1. /\ Watched(q, seen) /\ Permitted(q) /\ (Sighted(k) => Sighted(q)) /\ q.write # None
          /\ q.write.status = "failed" \/ Pending(q)
          /\ \A d : Pending(q) => (Brought(k, seen, coming, d) <=> Brought(q, seen, coming, d))
      BY <1>1, RetryGoes
    <2>2. SameButWrite(q, k)
      BY <1>1, RetryIs
    <2> HIDE DEF q
    <2>3. Stays(w, k)
      BY <1>2, <1>4, <2>1, <2>2 DEF Stays, SameButWrite, q
    <2>4. \A d : Look[k.write.content] = Look[d] => GivenUp(w) \/ Brought(w.client, w.seen, w.coming, d)
      <3>1. \A d : Look[k.write.content] = Look[d] => Brought(k, seen, coming, d)
        BY DEF Brought
      <3> QED BY <1>4, <2>1, <3>1 DEF GivenUp, q
    <2> QED BY <1>4, <2>1, <2>3, <2>4 DEF Goes, q, w
  <1>5. CASE /\ Sound(e, w.seen, w.coming)
             /\ w.seen = seen \/ (w.seen.act = 0 /\ Of(e.evidence, w.seen.content) # {})
             /\ \/ w.client = Retry(e)
                \/ w.client = Confirm(e, w.seen.content) /\ Same(k.write.content, w.seen.content)
    <2>1. Permitted(e) /\ (Sighted(k) => Sighted(e))
      BY <1>3 DEF Permitted, Sighted, Pending
    <2>2. Watched(e, w.seen)
      <3>1. (Sighted(e) <=> e.baseline) /\ (k.baseline => Sighted(k))
        BY <1>3 DEF Sighted
      <3>2. (w.seen.content = e.lastObserved /\ Of(e.evidence, w.seen.content) = {}) =>
               e.write.observed = w.seen.content
        BY <1>3, <1>5
      <3>3. (e.write.accept /\ w.seen.act # 0 /\ e.write.observed = w.seen.content) =>
               w.seen.content = e.lastObserved
        BY <1>3, <1>5 DEF Watched
      <3> QED BY <1>3, <3>1, <3>2, <3>3 DEF Watched, Sighted
    <2>3. CASE w.client = Retry(e)
      <3> DEFINE q == Retry(e)
                 sn == w.seen
                 cm == w.coming
      <3>1. /\ Watched(q, sn) /\ Permitted(q) /\ (Sighted(e) => Sighted(q)) /\ q.write # None
            /\ q.write.status = "failed" \/ Pending(q)
            /\ \A d : Pending(q) => (Brought(e, sn, cm, d) <=> Brought(q, sn, cm, d))
        <4> HIDE DEF sn, cm
        <4>1. Watched(e, sn)
          BY <2>2 DEF sn
        <4> QED BY <1>3, <2>1, <4>1, RetryGoes
      <3>2. SameButWrite(q, e)
        BY <1>3, RetryIs
      <3> HIDE DEF q
      <3>3. Stays(w, k)
        BY <1>2, <1>3, <1>5, <2>1, <2>3, <3>1, <3>2 DEF Stays, SameButWrite, q
      <3>4. \A d : Look[k.write.content] = Look[d] => GivenUp(w) \/ Brought(w.client, w.seen, w.coming, d)
        <4>1. \A d : Look[k.write.content] = Look[d] => Brought(e, sn, cm, d)
          BY <1>3 DEF Brought
        <4> QED BY <2>3, <3>1, <4>1 DEF GivenUp, q
      <3> QED BY <2>3, <3>1, <3>3, <3>4 DEF Goes, q, w
    <2>4. CASE w.client = Confirm(e, w.seen.content) /\ Same(k.write.content, w.seen.content)
      <3> DEFINE sn == w.seen
                 cm == w.coming
                 q == Confirm(e, sn.content)
      <3>1. /\ Watched(q, sn) /\ Permitted(q) /\ Sighted(q) /\ q.ids = e.ids
            /\ q.submitted = e.submitted /\ q.event = None /\ sn.act = 0
            /\ \A d : Look[e.write.content] = Look[d] => Brought(q, sn, cm, d)
        <4>1. Sound(e, sn, cm) /\ Same(e.write.content, sn.content)
          BY <1>3, <1>5, <2>4
        <4> HIDE DEF sn, cm
        <4> QED BY <1>3, <2>1, <4>1, ConfirmGoes
      <3> HIDE DEF q
      <3>2. Stays(w, k)
        BY <1>2, <1>3, <2>4, <3>1 DEF Stays, q
      <3> QED BY <1>3, <2>4, <3>1, <3>2 DEF Goes, q, w
    <2> QED BY <1>5, <2>3, <2>4
  <1> QED BY <1>2, <1>4, <1>5
\* What a write is made from, once it has noted what it has found.
LEMMA ObservingGoes ==
    ASSUME NEW k, Sound(k, seen, coming), Pending(k), Watched(k, seen), Permitted(k),
           NEW m, Observing(m, k)
    PROVE  LET s == seen.content
               v == [m EXCEPT !.write.observed = s, !.write.hasObservation = TRUE]
           IN  /\ Sound(v, seen, coming) /\ Pending(v) /\ v.write.hasObservation
               /\ v.write.observed = s /\ v.write.content = k.write.content
               /\ Watched(v, seen) /\ Permitted(v) /\ ~v.stopped
               /\ v.ids = k.ids /\ v.submitted = k.submitted /\ v.event = k.event
               /\ seen.act # 0 => v.lastObserved = k.lastObserved
               /\ v.lastObserved = k.lastObserved \/ v.lastObserved = s
               /\ Sighted(k) => Sighted(v)
  <1> DEFINE s == seen.content
             v == [m EXCEPT !.write.observed = s, !.write.hasObservation = TRUE]
  <1>1. /\ m \in Clients /\ Proven(m) /\ InHand(m) /\ Pending(m) /\ ~m.stopped
        /\ m.lastObserved = k.lastObserved \/ m.lastObserved = s
        /\ Board(m.lastObserved, m.lastLocal, m.evidence, seen, coming)
    BY DEF Observing
  <1>2. /\ Sound(v, seen, coming) /\ Pending(v) /\ v.lastObserved = m.lastObserved
        /\ v.stopped = m.stopped /\ v.write.hasObservation
        /\ v.write.observed = s /\ v.write.content = m.write.content
        /\ v.write.timer = m.write.timer /\ v.write.accept = m.write.accept
        /\ v.write.own = m.write.own /\ v.write.remote = m.write.remote
        /\ SameButWrite(v, m)
    BY <1>1, ObserveSound
  <1>4. /\ k \in Clients /\ s \in Shown /\ Len(k.evidence) <= 2 /\ k.write \in Writes
        /\ Proven(k) /\ Board(k.lastObserved, k.lastLocal, k.evidence, seen, coming)
    BY DEF Sound, Proven, Tokens, Board, Snapshots, Clients, Pending
  <1> HIDE DEF v
  <1>5. /\ m.ids = k.ids /\ m.submitted = k.submitted /\ m.event = k.event
        /\ m.write.content = k.write.content /\ m.write.own = k.write.own
        /\ m.write.remote = k.write.remote /\ m.write.accept = k.write.accept
        /\ k.baseline => m.baseline
        /\ (m.polling # None /\ ~m.polling.stale) => m.baseline
        /\ seen.act # 0 => m.lastObserved = k.lastObserved
        /\ (m.write.accept /\ seen.act # 0) => s = m.lastObserved
    <2>1. CASE m = k /\ ~k.write.accept
      BY <2>1 DEF Watched, Sighted
    <2>2. CASE m = [k EXCEPT !.evidence = <<>>] /\ ~k.write.accept
      <3>1. /\ m.ids = k.ids /\ m.submitted = k.submitted /\ m.event = k.event
            /\ m.write = k.write /\ m.baseline = k.baseline /\ m.polling = k.polling
            /\ m.lastObserved = k.lastObserved
        BY <1>4, <2>2 DEF Clients
      <3> QED BY <2>2, <3>1 DEF Watched, Sighted
    <2>3. CASE /\ m = Remember(k, s) /\ Known(k, s)
               /\ ~k.write.accept => EvidenceFor(k, s) # {}
      <3>1. seen.act # 0 => s = k.lastObserved
        <4> SUFFICES ASSUME seen.act # 0, s # k.lastObserved PROVE FALSE
          OBVIOUS
        <4>1. EvidenceFor(k, s) = {}
          BY <1>4 DEF Board, EvidenceFor, Of
        <4>2. ~(k.write.hasWritten /\ Same(k.write.content, s))
          BY <1>4, <4>1, WrittenIsFound
        <4>3. k.write.accept /\ k.write.hasObservation /\ s = k.write.observed
          BY <2>3, <4>1, <4>2 DEF Known
        <4> QED BY <4>3 DEF Watched
      <3>2. /\ m.lastObserved = s /\ m.baseline = TRUE /\ m.event = k.event
            /\ m.ids = k.ids /\ m.submitted = k.submitted
            /\ m.write = [k.write EXCEPT !.observed = s, !.hasObservation = TRUE]
        BY <1>4, <2>3, RememberIs
      <3>3. /\ m.write.content = k.write.content /\ m.write.own = k.write.own
            /\ m.write.remote = k.write.remote /\ m.write.accept = k.write.accept
        <4> DEFINE z == [k.write EXCEPT !.observed = s, !.hasObservation = TRUE]
        <4>1. /\ z.content = k.write.content /\ z.own = k.write.own
              /\ z.remote = k.write.remote /\ z.accept = k.write.accept
          BY <1>4, ObservedIs
        <4> QED BY <3>2, <4>1
      <3> QED BY <3>1, <3>2, <3>3
    <2> QED BY <2>1, <2>2, <2>3 DEF Observing
  <1>6. /\ v.ids = k.ids /\ v.submitted = k.submitted /\ v.event = k.event
        /\ v.baseline = m.baseline /\ v.polling = m.polling
    BY <1>2, <1>5 DEF SameButWrite
  <1>7. Sighted(v) <=> m.baseline
    BY <1>2, <1>6 DEF Sighted
  <1>8. Watched(v, seen)
    BY <1>2, <1>5, <1>6, <1>7 DEF Watched
  <1>9. Permitted(v)
    BY <1>2, <1>5 DEF Permitted, Pending
  <1>10. Sighted(k) => Sighted(v)
    BY <1>5, <1>7 DEF Sighted
  <1> QED BY <1>1, <1>2, <1>5, <1>6, <1>8, <1>9, <1>10 DEF v

\* A method that stays, after one that has left all that matters alone.
LEMMA StaysOn ==
    ASSUME NEW w, NEW v, NEW k, Stays(w, v), v.ids = k.ids, v.submitted = k.submitted,
           v.event = k.event, seen.act # 0 => v.lastObserved = k.lastObserved,
           Sighted(k) => Sighted(v)
    PROVE  Stays(w, k)
  BY DEF Stays

\* A write in progress that tries again is given up, or stays in progress for what is due.
LEMMA RetryLeads ==
    ASSUME NEW k \in Clients, Pending(k), Watched(k, seen), Permitted(k)
    PROVE  LET w == OnlyClient(Retry(k)) IN
           /\ Stays(w, k) /\ Goes(w)
           /\ \A d : Brought(k, seen, coming, d) =>
                GivenUp(w) \/ Brought(w.client, w.seen, w.coming, d)
  <1> DEFINE q == Retry(k)
             w == OnlyClient(q)
  <1>1. /\ Watched(q, seen) /\ Permitted(q) /\ (Sighted(k) => Sighted(q)) /\ q.write # None
        /\ q.write.status = "failed" \/ Pending(q)
        /\ \A d : Pending(q) => (Brought(k, seen, coming, d) <=> Brought(q, seen, coming, d))
    BY RetryGoes
  <1>2. SameButWrite(q, k)
    BY RetryIs
  <1>3. w.client = q /\ w.seen = seen /\ w.coming = coming /\ w.sent = <<>>
    BY DEF OnlyClient
  <1> HIDE DEF q, w
  <1>4. Stays(w, k)
    BY <1>1, <1>2, <1>3 DEF Stays, SameButWrite
  <1>5. \A d : Brought(k, seen, coming, d) => GivenUp(w) \/ Brought(w.client, w.seen, w.coming, d)
    BY <1>1, <1>3 DEF GivenUp
  <1> QED BY <1>1, <1>3, <1>4, <1>5 DEF Goes, w, q

\* What a write in progress leads to: what it writes is shown, or a copy is found.
Attempts(w, k, r) ==
    /\ Goes(w)
    /\ \/ Finds(w, k) /\ (seen.content # k.lastObserved \/ Unsighted(k, r))
       \/ /\ Stays(w, k)
          /\ \A d : (\/ Look[k.write.content] = Look[d]
                     \/ /\ Brought(k, seen, coming, d)
                        /\ k.write.attempt > 1 \/ k.write.accept) =>
               GivenUp(w) \/ Brought(w.client, w.seen, w.coming, d)

\* applyClipboardWrite
LEMMA ApplyLeads ==
    ASSUME NEW k, Sound(k, seen, coming), ~k.stopped, NEW r \in Results, Pending(k),
           k.write.attempt > 1 \/ ~k.write.hasWritten, Watched(k, seen), Permitted(k),
           Unsighted(k, r) => seen.act # 0 /\ coming = <<>>,
           Clear(Apply(k, r), k)
    PROVE  Attempts(Apply(k, r), k, r)
  <1> DEFINE s == seen.content
             w == Apply(k, r)
             Wanted(d) == \/ Look[k.write.content] = Look[d]
                          \/ /\ Brought(k, seen, coming, d)
                             /\ k.write.attempt > 1 \/ k.write.accept
  <1>1. k \in Clients /\ seen \in Snapshots /\ ~(k.write.remote /\ ~Accepts(k.write.own))
    BY DEF Sound, Board, Permitted, Pending
  <1>2. CASE /\ w = OnlyClient(Confirm(k, s))
             /\ k.write.hasWritten /\ Same(k.write.content, s)
    <2> DEFINE q == Confirm(k, s)
    <2>1. /\ Watched(q, seen) /\ Permitted(q) /\ Sighted(q) /\ q.ids = k.ids
          /\ q.submitted = k.submitted /\ q.event = None /\ seen.act = 0
          /\ \A d : Look[k.write.content] = Look[d] => Brought(q, seen, coming, d)
      BY <1>2, ConfirmGoes
    <2>2. w.client = q /\ w.seen = seen /\ w.coming = coming /\ w.sent = <<>>
      BY <1>2 DEF OnlyClient
    <2>3. \A d : Wanted(d) => Look[k.write.content] = Look[d]
      BY <2>1 DEF Brought
    <2> HIDE DEF q, w
    <2>4. Stays(w, k)
      BY <2>1, <2>2 DEF Stays
    <2> QED BY <2>1, <2>2, <2>3, <2>4 DEF Attempts, Goes, w
  <1>3. CASE w = OnlyClient(Retry(k))
    <2>1. \A d : Wanted(d) => Brought(k, seen, coming, d)
      BY DEF Brought
    <2>2. /\ Stays(w, k) /\ Goes(w)
          /\ \A d : Brought(k, seen, coming, d) =>
               GivenUp(w) \/ Brought(w.client, w.seen, w.coming, d)
      BY <1>1, <1>3, RetryLeads
    <2> QED BY <2>1, <2>2 DEF Attempts
  <1>4. CASE /\ seen.act # 0 /\ coming = <<>> /\ w = OnlyClient(NewLocal(k, s))
             /\ EvidenceFor(k, s) = {}
             /\ \/ ~Known(k, s)
                \/ /\ k.write.attempt > 1 /\ r.before /\ ~k.write.accept
                   /\ ~k.write.hasObservation \/ s # k.write.observed
    <2>1. Finds(w, k) /\ Goes(w)
      BY <1>1, <1>4, NewLocalFinds
    <2>2. s # k.lastObserved \/ Unsighted(k, r)
      <3>1. Of(k.evidence, s) = {}
        BY <1>4 DEF EvidenceFor, Of
      <3>2. ~Known(k, s) => s # k.lastObserved
        BY DEF Known
      <3> QED BY <1>4, <3>1, <3>2 DEF Unsighted, Watched
    <2> QED BY <2>1, <2>2 DEF Attempts
  <1>5. ASSUME NEW m, Observing(m, k),
               LET v == [m EXCEPT !.write.observed = s, !.write.hasObservation = TRUE]
               IN  w = IF Full(v) THEN OnlyClient(Retry(v)) ELSE Perform(v, r)
        PROVE  Attempts(w, k, r)
    <2> DEFINE v == [m EXCEPT !.write.observed = s, !.write.hasObservation = TRUE]
    <2>1. /\ Sound(v, seen, coming) /\ Pending(v) /\ v.write.hasObservation
          /\ v.write.observed = s /\ v.write.content = k.write.content
          /\ Watched(v, seen) /\ Permitted(v) /\ ~v.stopped
          /\ v.ids = k.ids /\ v.submitted = k.submitted /\ v.event = k.event
          /\ seen.act # 0 => v.lastObserved = k.lastObserved
          /\ v.lastObserved = k.lastObserved \/ v.lastObserved = s
          /\ Sighted(k) => Sighted(v)
      BY <1>5, ObservingGoes
    <2>2. w = IF Full(v) THEN OnlyClient(Retry(v)) ELSE Perform(v, r)
      BY <1>5
    <2>3. \A d : Wanted(d) => Look[v.write.content] = Look[d]
      <3>1. Known(k, s) \/ (~k.write.accept /\ ~(k.write.attempt > 1))
        BY <1>5 DEF Observing
      <3> QED BY <2>1, <3>1 DEF Brought
    <2> HIDE DEF v, Wanted
    <2>4. /\ Stays(w, v) /\ Goes(w)
          /\ \A d : Look[v.write.content] = Look[d] =>
               GivenUp(w) \/ Brought(w.client, w.seen, w.coming, d)
      <3>1. CASE Full(v)
        <4>1. w = OnlyClient(Retry(v)) /\ v \in Clients
          BY <2>1, <2>2, <3>1 DEF Sound
        <4>2. \A d : Look[v.write.content] = Look[d] => Brought(v, seen, coming, d)
          BY <2>1 DEF Brought
        <4>3. /\ Stays(w, v) /\ Goes(w)
              /\ \A d : Brought(v, seen, coming, d) =>
                   GivenUp(w) \/ Brought(w.client, w.seen, w.coming, d)
          BY <2>1, <4>1, RetryLeads
        <4> QED BY <4>2, <4>3
      <3>2. CASE ~Full(v)
        <4>1. w = Perform(v, r)
          BY <2>2, <3>2
        <4>2. Clear(Perform(v, r), v)
          BY <2>1, <4>1 DEF Clear
        <4> HIDE DEF w
        <4> QED BY <2>1, <3>2, <4>1, <4>2, PerformLeads
      <3> QED BY <3>1, <3>2
    <2>5. Stays(w, k)
      <3> HIDE DEF w
      <3> QED BY <2>1, <2>4, StaysOn
    <2> QED BY <2>3, <2>4, <2>5 DEF Attempts, Wanted
  <1> HIDE DEF Wanted
  <1>6. \/ /\ w = OnlyClient(Confirm(k, s))
           /\ k.write.hasWritten /\ Same(k.write.content, s)
        \/ w = OnlyClient(Retry(k))
        \/ /\ seen.act # 0 /\ coming = <<>> /\ w = OnlyClient(NewLocal(k, s))
           /\ EvidenceFor(k, s) = {}
           /\ \/ ~Known(k, s)
              \/ /\ k.write.attempt > 1 /\ r.before /\ ~k.write.accept
                 /\ ~k.write.hasObservation \/ s # k.write.observed
        \/ \E m : /\ Observing(m, k)
                  /\ LET v == [m EXCEPT !.write.observed = s, !.write.hasObservation = TRUE]
                     IN  w = IF Full(v) THEN OnlyClient(Retry(v)) ELSE Perform(v, r)
    BY <1>1, ApplyIs
  <1> HIDE DEF w
  <1> QED BY <1>2, <1>3, <1>4, <1>5, <1>6 DEF w
\* beginWrite, of a write that the rules permit.
LEMMA BeginLeads ==
    ASSUME NEW k, Sound(k, seen, coming), ~k.stopped, NEW c \in Contents, NEW own \in BOOLEAN,
           NEW remote \in BOOLEAN, NEW accept \in BOOLEAN, NEW r \in Results,
           remote => Accepts(own),
           Clear(Begin(k, c, own, remote, accept, r), k)
    PROVE  LET w == Begin(k, c, own, remote, accept, r) IN
           /\ Goes(w)
           /\ \/ Finds(w, k) /\ seen.content # k.lastObserved
              \/ /\ Stays(w, k)
                 /\ \A d : (\/ Look[c] = Look[d]
                            \/ /\ accept /\ seen.act # 0 /\ coming = <<>>
                               /\ seen.content # k.lastObserved
                               /\ Of(k.evidence, seen.content) = {}) =>
                      GivenUp(w) \/ Brought(w.client, w.seen, w.coming, d)
  <1> DEFINE q == Begun(k, c, own, remote, accept)
             w == Begin(k, c, own, remote, accept, r)
  <1>1. w = Apply(q, r)
    BY DEF Begin, Begun
  <1>2. /\ Sound(q, seen, coming) /\ ~q.stopped /\ Pending(q)
        /\ q.lastObserved = k.lastObserved /\ q.evidence = k.evidence
        /\ q.baseline = k.baseline /\ q.event = k.event
        /\ q.ids = k.ids /\ q.submitted = k.submitted
        /\ q.polling # None => q.polling.stale
        /\ ~q.write.hasWritten /\ q.write.attempt = 1 /\ ~q.write.timer
        /\ q.write.content = c /\ q.write.own = own /\ q.write.remote = remote
        /\ q.write.accept = accept /\ q.write.observed = k.lastObserved
        /\ q.write.hasObservation = k.baseline
    BY BegunSound
  <1> HIDE DEF q
  <1>3. Sighted(q) <=> k.baseline
    BY <1>2 DEF Sighted
  <1>4. Watched(q, seen)
    BY <1>2, <1>3 DEF Watched
  <1>5. Permitted(q)
    BY <1>2 DEF Permitted
  <1>6. ~Unsighted(q, r)
    BY <1>2 DEF Unsighted
  <1>7. Attempts(w, q, r)
    <2>1. Clear(Apply(q, r), q)
      BY <1>1, <1>2 DEF Clear
    <2> HIDE DEF w
    <2> QED BY <1>1, <1>2, <1>4, <1>5, <1>6, <2>1, ApplyLeads
  <1> HIDE DEF w
  <1>8. CASE Finds(w, q) /\ (seen.content # q.lastObserved \/ Unsighted(q, r))
    <2>1. \A z : Found(z, q) => Found(z, k)
      BY <1>2, <1>3 DEF Found, Sighted
    <2>2. Finds(w, k)
      BY <1>8, <2>1 DEF Finds
    <2> QED BY <1>2, <1>6, <1>7, <1>8, <2>2 DEF Attempts, w
  <1>9. CASE /\ Stays(w, q)
             /\ \A d : (\/ Look[q.write.content] = Look[d]
                        \/ /\ Brought(q, seen, coming, d)
                           /\ q.write.attempt > 1 \/ q.write.accept) =>
                  GivenUp(w) \/ Brought(w.client, w.seen, w.coming, d)
    <2>1. Stays(w, k)
      <3>1. Sighted(k) => Sighted(q)
        BY <1>3 DEF Sighted
      <3> QED BY <1>2, <1>9, <3>1, StaysOn
    <2>2. ASSUME /\ accept /\ seen.act # 0 /\ coming = <<>> /\ seen.content # k.lastObserved
                 /\ Of(k.evidence, seen.content) = {}
          PROVE  \A d : Brought(q, seen, coming, d)
      <3>1. EvidenceFor(q, seen.content) = {}
        BY <1>2, <2>2 DEF EvidenceFor, Of
      <3>2. ~Known(q, seen.content)
        BY <1>2, <2>2, <3>1 DEF Known
      <3> QED BY <1>2, <2>2, <3>2 DEF Brought
    <2>3. \A d : (\/ Look[c] = Look[d]
                  \/ /\ accept /\ seen.act # 0 /\ coming = <<>> /\ seen.content # k.lastObserved
                     /\ Of(k.evidence, seen.content) = {}) =>
            GivenUp(w) \/ Brought(w.client, w.seen, w.coming, d)
      BY <1>2, <1>9, <2>2
    <2> QED BY <1>7, <2>1, <2>3 DEF Attempts, w
  <1> QED BY <1>7, <1>8, <1>9 DEF Attempts
\* The client x has the same write and the same evidence as n, or has settled what it has
\* observed.
Alike(x, n) ==
    /\ x.lastObserved = n.lastObserved /\ x.evidence = n.evidence /\ x.write = n.write
    /\ n.baseline => x.baseline
    /\ \/ x.lastLocal = x.lastObserved
       \/ x.lastLocal = n.lastLocal /\ x.baseline = n.baseline
    /\ (x.polling # None /\ ~x.polling.stale) => Sighted(n)

\* What holds of n holds of x.
LEMMA AlikeGoes ==
    ASSUME NEW n, NEW x, Alike(x, n), NEW sn, Watched(n, sn), Permitted(n)
    PROVE  /\ Watched(x, sn) /\ Permitted(x) /\ (Sighted(n) => Sighted(x))
           /\ \A s : Known(n, s) <=> Known(x, s)
           /\ \A cm, d : Brought(n, sn, cm, d) <=> Brought(x, sn, cm, d)
  <1>1. Sighted(n) => Sighted(x)
    BY DEF Alike, Sighted, Pending
  <1>2. Pending(n) <=> Pending(x)
    BY DEF Alike, Pending
  <1>3. Watched(x, sn)
    <2>1. (x.baseline /\ ~Sighted(x)) => x.lastLocal = x.lastObserved
      BY <1>1 DEF Watched, Alike
    <2> QED BY <1>1, <1>2, <2>1 DEF Watched, Alike
  <1>4. Permitted(x)
    BY DEF Permitted, Alike
  <1>5. \A s : Known(n, s) <=> Known(x, s)
    BY <1>2 DEF Alike, Known, EvidenceFor
  <1>6. \A cm, d : Brought(n, sn, cm, d) <=> Brought(x, sn, cm, d)
    BY <1>2, <1>5 DEF Brought, Alike
  <1> QED BY <1>1, <1>3, <1>4, <1>5, <1>6

\* A method that keeps what is due, or finds a copy.
Minds(w, k) ==
    /\ Goes(w)
    /\ \/ /\ Passes(w, k)
          /\ \A d : Brought(k, seen, coming, d) => Brought(w.client, w.seen, w.coming, d)
       \/ Finds(w, k) /\ seen.content # k.lastObserved

LEMMA AlikeMinds ==
    ASSUME NEW n, NEW x, Alike(x, n), Watched(n, seen), Permitted(n), x.ids = n.ids,
           x.submitted = n.submitted, x.event \in {n.event, None}
    PROVE  Minds(OnlyClient(x), n) /\ Passes(OnlyClient(x), n)
  <1> DEFINE w == OnlyClient(x)
  <1>1. w.client = x /\ w.seen = seen /\ w.coming = coming /\ w.sent = <<>>
    BY DEF OnlyClient
  <1>2. /\ Watched(x, seen) /\ Permitted(x) /\ (Sighted(n) => Sighted(x))
        /\ \A cm, d : Brought(n, seen, cm, d) <=> Brought(x, seen, cm, d)
    BY AlikeGoes
  <1> HIDE DEF w
  <1>3. Stays(w, n)
    BY <1>1, <1>2 DEF Stays, Alike
  <1> QED BY <1>1, <1>2, <1>3 DEF Minds, Goes, Passes, w

\* sendLocalSnapshot, of the copy in hand
LEMMA SendMinds ==
    ASSUME NEW k \in Clients, k.lastObserved = seen.content, k.event # None,
           k.event.content = seen.content, k.event.id = k.ids, settings.sending \in Sendings,
           Watched(k, seen), Permitted(k), Sighted(k)
    PROVE  LET w == Send(k, seen.content) IN
           /\ Minds(w, k) /\ Passes(w, k) /\ w.seen = seen /\ w.coming = coming
           /\ w.client.write = k.write /\ w.client.lastObserved = k.lastObserved
  <1> DEFINE s == seen.content
             w == Send(k, s)
             q == w.client
  <1>1. s \in Contents /\ k.ids \in Nat
    BY NoneIsNone DEF Clients, Copies
  <1>2. /\ w.seen = seen /\ w.coming = coming
        /\ q \in Clients /\ q.event \in Copies /\ q.event.content = s
        /\ q.event.act = k.event.act
        /\ \/ q.event.id = k.event.id /\ q.ids = k.ids
           \/ q.event.id = k.ids + 1 /\ q.ids = k.ids + 1
        /\ q.lastObserved = k.lastObserved /\ q.baseline = k.baseline
        /\ q.evidence = k.evidence /\ q.write = k.write /\ q.polling = k.polling
        /\ \/ /\ w.sent = <<>> /\ q.submitted = k.submitted
              /\ q.lastLocal = k.lastLocal \/ q.lastLocal = s
           \/ /\ w.sent = <<[id |-> q.event.id, content |-> s, act |-> k.event.act]>>
              /\ q.submitted = q.event.id /\ q.lastLocal = k.lastLocal
    BY <1>1, SendIs
  <1> HIDE DEF w, s
  <1>3. Alike(q, k)
    BY <1>2 DEF Alike, s
  <1>4. /\ Watched(q, seen) /\ Permitted(q) /\ Sighted(q)
        /\ \A cm, d : Brought(k, seen, cm, d) <=> Brought(q, seen, cm, d)
    BY <1>3, AlikeGoes
  <1>5. q.event # None /\ q.event.id = q.ids /\ q.ids \in {k.ids, k.ids + 1}
    BY <1>2, NoneIsNone
  <1>6. Sends(w, k)
    <2>1. \/ w.sent = <<>> /\ q.submitted = k.submitted
          \/ /\ w.sent = <<[id |-> q.ids, content |-> seen.content, act |-> k.event.act]>>
             /\ q.submitted = q.ids /\ Sighted(q)
      BY <1>2, <1>4, <1>5 DEF s
    <2> QED BY <1>2, <1>4, <1>5, <2>1 DEF Sends, s
  <1> QED BY <1>2, <1>4, <1>6 DEF Minds, Goes, Passes, w, s

\* What is recognised as the client's own is, or it has observed it.
LEMMA OwnIsObserved ==
    ASSUME NEW k, Sound(k, seen, coming), Watched(k, seen), seen.act # 0,
           EvidenceFor(k, seen.content) # {}
             \/ (Pending(k) /\ k.write.accept /\ Known(k, seen.content))
    PROVE  seen.content = k.lastObserved
  <1> DEFINE s == seen.content
  <1> SUFFICES ASSUME s # k.lastObserved PROVE FALSE
    OBVIOUS
  <1>1. Proven(k) /\ Board(k.lastObserved, k.lastLocal, k.evidence, seen, coming)
    BY DEF Sound
  <1>2. EvidenceFor(k, s) = {}
    BY <1>1 DEF Board, EvidenceFor, Of
  <1>3. Pending(k) /\ k.write.accept /\ Known(k, s)
    BY <1>2
  <1>4. ~(k.write.hasWritten /\ Same(k.write.content, s))
    BY <1>1, <1>2, <1>3, WrittenIsFound
  <1>5. k.write.hasObservation /\ s = k.write.observed
    BY <1>2, <1>3, <1>4 DEF Known
  <1> QED BY <1>3, <1>5 DEF Watched
\* What the poll does once the copy is observed: the client n sends it, or settles it.
LEMMA ObservedMinds ==
    ASSUME NEW n, Sound(n, seen, coming), ~n.stopped, n.lastObserved = seen.content,
           Watched(n, seen), Permitted(n), n.event # None => n.event.id = n.ids,
           settings.sending \in Sendings
    PROVE  LET s == seen.content
               set == [n EXCEPT !.lastLocal = s, !.baseline = TRUE]
               w == IF s = Nothing THEN OnlyClient([set EXCEPT !.waiting = {}])
                    ELSE IF ~n.baseline THEN OnlyClient(set)
                    ELSE IF s = n.lastLocal \/ s \in n.waiting THEN OnlyClient(n)
                    ELSE IF s \in n.guard THEN OnlyClient([set EXCEPT !.guard = @ \ {s}])
                    ELSE IF settings.sending = "nobody" THEN OnlyClient(set)
                    ELSE IF asks THEN OnlyClient([n EXCEPT !.polling =
                             [kind |-> "polling", content |-> s, stale |-> FALSE]])
                    ELSE Send(n, s)
           IN  /\ Minds(w, n) /\ Passes(w, n) /\ w.seen = seen /\ w.coming = coming
               /\ w.client.write = n.write /\ w.client.lastObserved = n.lastObserved
  <1> DEFINE s == seen.content
             set == [n EXCEPT !.lastLocal = s, !.baseline = TRUE]
             emptied == [set EXCEPT !.waiting = {}]
             unguarded == [set EXCEPT !.guard = @ \ {s}]
             p == [kind |-> "polling", content |-> s, stale |-> FALSE]
             asked == [n EXCEPT !.polling = p]
             w == IF s = Nothing THEN OnlyClient(emptied)
                  ELSE IF ~n.baseline THEN OnlyClient(set)
                  ELSE IF s = n.lastLocal \/ s \in n.waiting THEN OnlyClient(n)
                  ELSE IF s \in n.guard THEN OnlyClient(unguarded)
                  ELSE IF settings.sending = "nobody" THEN OnlyClient(set)
                  ELSE IF asks THEN OnlyClient(asked) ELSE Send(n, s)
             Fine(x) == /\ Alike(x, n) /\ x.ids = n.ids /\ x.submitted = n.submitted
                        /\ x.event \in {n.event, None}
             Good1(v) == /\ Minds(v, n) /\ Passes(v, n) /\ v.seen = seen /\ v.coming = coming
                         /\ v.client.write = n.write /\ v.client.lastObserved = n.lastObserved
  <1>1. n \in Clients /\ InHand(n) /\ s \in Shown
    BY DEF Sound, Clients
  <1>2. \A x : Fine(x) => Good1(OnlyClient(x))
    <2> SUFFICES ASSUME NEW x, Fine(x) PROVE Good1(OnlyClient(x))
      OBVIOUS
    <2>1. Minds(OnlyClient(x), n) /\ Passes(OnlyClient(x), n)
      BY AlikeMinds
    <2>2. /\ OnlyClient(x).client = x /\ OnlyClient(x).seen = seen
          /\ OnlyClient(x).coming = coming
      BY DEF OnlyClient
    <2> QED BY <2>1, <2>2 DEF Alike
  <1>3. (n.polling # None /\ ~n.polling.stale) => Sighted(n)
    BY DEF Watched
  <1>4. Fine(n)
    BY <1>3 DEF Alike
  <1>5. /\ set \in Clients /\ set.lastLocal = s /\ set.lastObserved = n.lastObserved
        /\ set.baseline = TRUE /\ set.event = n.event /\ set.guard = n.guard
        /\ set.evidence = n.evidence /\ set.write = n.write /\ set.polling = n.polling
        /\ set.ids = n.ids /\ set.submitted = n.submitted
    BY <1>1 DEF Clients
  <1> HIDE DEF set
  <1>6. Fine(set)
    BY <1>3, <1>5 DEF Alike
  <1>7. Fine(emptied)
    <2>1. /\ emptied.lastLocal = set.lastLocal /\ emptied.lastObserved = set.lastObserved
          /\ emptied.baseline = set.baseline /\ emptied.event = set.event
          /\ emptied.evidence = set.evidence /\ emptied.write = set.write
          /\ emptied.polling = set.polling /\ emptied.ids = set.ids
          /\ emptied.submitted = set.submitted
      BY <1>5 DEF Clients
    <2> HIDE DEF emptied
    <2> QED BY <1>3, <1>5, <2>1 DEF Alike
  <1>8. Fine(unguarded)
    <2>1. /\ unguarded.lastLocal = set.lastLocal /\ unguarded.lastObserved = set.lastObserved
          /\ unguarded.baseline = set.baseline /\ unguarded.event = set.event
          /\ unguarded.evidence = set.evidence /\ unguarded.write = set.write
          /\ unguarded.polling = set.polling /\ unguarded.ids = set.ids
          /\ unguarded.submitted = set.submitted
      BY <1>5 DEF Clients
    <2> HIDE DEF unguarded
    <2> QED BY <1>3, <1>5, <2>1 DEF Alike
  <1>9. CASE s # Nothing /\ n.baseline /\ s # n.lastLocal
    <2>1. Sighted(n)
      BY <1>9 DEF Watched
    <2>2. n.event # None /\ n.event.content = s
      BY <1>1, <1>9 DEF InHand
    <2>3. Good1(Send(n, s))
      BY <1>1, <2>1, <2>2, SendMinds
    <2>4. Fine(asked)
      <3> HIDE DEF p
      <3>1. /\ asked.lastLocal = n.lastLocal /\ asked.lastObserved = n.lastObserved
            /\ asked.baseline = n.baseline /\ asked.event = n.event
            /\ asked.evidence = n.evidence /\ asked.write = n.write
            /\ asked.ids = n.ids /\ asked.submitted = n.submitted
        BY <1>1 DEF Clients
      <3> HIDE DEF asked
      <3> QED BY <2>1, <3>1 DEF Alike
    <2> HIDE DEF emptied, unguarded, asked, Fine, Good1, s
    <2>5. Good1(w)
      BY <1>2, <1>4, <1>6, <1>7, <1>8, <2>3, <2>4
    <2> QED BY <2>5 DEF Good1, w, set, emptied, unguarded, asked, p, s
  <1>10. CASE ~(s # Nothing /\ n.baseline /\ s # n.lastLocal)
    <2> HIDE DEF emptied, unguarded, asked, Fine, Good1, s
    <2>1. Good1(w)
      BY <1>2, <1>4, <1>6, <1>7, <1>10
    <2> QED BY <2>1 DEF Good1, w, set, emptied, unguarded, asked, p, s
  <1> QED BY <1>9, <1>10

\* processLocalSnapshot, of what is not one of the client's own writes
LEMMA LocalMinds ==
    ASSUME NEW k, Sound(k, seen, coming), ~k.stopped, EvidenceFor(k, seen.content) = {},
           Watched(k, seen), Permitted(k), k.event # None => k.event.id = k.ids,
           settings.sending \in Sendings
    PROVE  Minds(Local(k, seen.content), k)
  <1> DEFINE s == seen.content
             w == Local(k, s)
             n == IF s = k.lastObserved THEN k ELSE NewLocal(k, s)
             Then == LET set == [n EXCEPT !.lastLocal = s, !.baseline = TRUE]
                     IN  IF s = Nothing THEN OnlyClient([set EXCEPT !.waiting = {}])
                         ELSE IF ~n.baseline THEN OnlyClient(set)
                         ELSE IF s = n.lastLocal \/ s \in n.waiting THEN OnlyClient(n)
                         ELSE IF s \in n.guard THEN OnlyClient([set EXCEPT !.guard = @ \ {s}])
                         ELSE IF settings.sending = "nobody" THEN OnlyClient(set)
                         ELSE IF asks THEN OnlyClient([n EXCEPT !.polling =
                                  [kind |-> "polling", content |-> s, stale |-> FALSE]])
                         ELSE Send(n, s)
  <1>1. w = Then
    BY DEF Local
  <1>2. CASE s = k.lastObserved
    <2>1. n = k
      BY <1>2
    <2> HIDE DEF w, n
    <2>2. Minds(w, n)
      BY <1>1, <1>2, <2>1, ObservedMinds
    <2> QED BY <2>1, <2>2 DEF w
  <1>3. CASE s # k.lastObserved
    <2>1. n = NewLocal(k, s)
      BY <1>3
    <2>2. k \in Clients /\ seen \in Snapshots /\ seen.act # 0 /\ coming = <<>>
      <3>1. Of(k.evidence, s) = {}
        BY DEF EvidenceFor, Of
      <3>2. Board(k.lastObserved, k.lastLocal, k.evidence, seen, coming) /\ k \in Clients
        BY DEF Sound
      <3> QED BY <1>3, <3>1, <3>2, UnknownIsCopy DEF Board
    <2>3. /\ Sound(n, seen, coming) /\ ~n.stopped /\ n.lastObserved = s /\ n.write = None
          /\ n.event # None => n.event.id = n.ids
          /\ n \in Clients
      BY <2>1, <2>2, NewLocalSound, NewLocalIs
    <2>4. Found(n, k) /\ Watched(n, seen) /\ Permitted(n)
      <3>1. Finds(OnlyClient(n), k) /\ Goes(OnlyClient(n)) /\ OnlyClient(n).client = n
            /\ OnlyClient(n).seen = seen
        BY <2>1, <2>2, NewLocalFinds DEF OnlyClient
      <3>2. /\ n.lastObserved = s /\ n.submitted = 0 /\ n.ids = k.ids + 1
            /\ n.event # None => n.event.act = seen.act /\ n.event.id = n.ids
            /\ s = Nothing => n.event = None
            /\ s # Nothing => n.event.content = s
            /\ n.baseline = k.baseline /\ n.write = None
        BY <2>1, <2>2, NewLocalIs
      <3> HIDE DEF n
      <3>3. Found(n, k)
        BY <3>2 DEF Found, Sighted, Pending
      <3> QED BY <3>1, <3>3 DEF Goes
    <2> HIDE DEF w, n
    <2>5. /\ Minds(w, n) /\ Passes(w, n) /\ w.seen = seen /\ w.coming = coming
          /\ w.client.write = n.write /\ w.client.lastObserved = n.lastObserved
      BY <1>1, <2>3, <2>4, ObservedMinds
    <2>6. Finds(w, k)
      BY <2>2, <2>3, <2>4, <2>5 DEF Finds
    <2> QED BY <1>3, <2>5, <2>6 DEF Minds, w
  <1> QED BY <1>2, <1>3

\* processLocalSnapshot
LEMMA ProcessMinds ==
    ASSUME NEW k, Sound(k, seen, coming), ~k.stopped, Watched(k, seen), Permitted(k),
           k.event # None => k.event.id = k.ids, settings.sending \in Sendings
    PROVE  Minds(Process(k, seen.content), k)
  <1> DEFINE s == seen.content
             w == Process(k, s)
  <1>1. w = IF Pending(k) /\ k.write.hasWritten /\ Same(k.write.content, s)
            THEN OnlyClient(Confirm(k, s))
            ELSE IF (Pending(k) /\ k.write.accept /\ Known(k, s)) \/ Recognised(k, s)
            THEN OnlyClient(Remember(k, s)) ELSE Local(k, s)
    <2>1. ~(Pending(k) /\ k.write.remote /\ ~Accepts(k.write.own))
      BY DEF Permitted, Pending
    <2> QED BY <2>1 DEF Process
  <1> HIDE DEF w
  <1>2. CASE Pending(k) /\ k.write.hasWritten /\ Same(k.write.content, s)
    <2> DEFINE q == Confirm(k, s)
    <2>1. /\ Watched(q, seen) /\ Permitted(q) /\ Sighted(q) /\ q.ids = k.ids
          /\ q.submitted = k.submitted /\ q.event = None /\ seen.act = 0
          /\ \A d : Look[k.write.content] = Look[d] => Brought(q, seen, coming, d)
      BY <1>2, ConfirmGoes
    <2> HIDE DEF q
    <2>2. w.client = q /\ w.seen = seen /\ w.coming = coming /\ w.sent = <<>>
      BY <1>1, <1>2 DEF OnlyClient, q
    <2>3. \A d : Brought(k, seen, coming, d) => Brought(q, seen, coming, d)
      BY <1>2, <2>1 DEF Brought
    <2>4. Stays(w, k)
      BY <2>1, <2>2 DEF Stays
    <2> QED BY <2>1, <2>2, <2>3, <2>4 DEF Minds, Goes, Passes, w
  <1>3. CASE /\ ~(Pending(k) /\ k.write.hasWritten /\ Same(k.write.content, s))
             /\ (Pending(k) /\ k.write.accept /\ Known(k, s)) \/ Recognised(k, s)
    <2>1. seen.act # 0 => s = k.lastObserved
      BY <1>3, OwnIsObserved DEF Recognised
    <2>2. Pending(k) => Known(k, s)
      BY <1>3 DEF Known, Recognised
    <2>3. w = OnlyClient(Remember(k, s))
      BY <1>1, <1>3
    <2> DEFINE q == Remember(k, s)
    <2>4. /\ Stays(w, k) /\ Goes(w)
          /\ \A d : ((Pending(k) => Known(k, s)) /\ Brought(k, seen, coming, d)) =>
               Brought(q, seen, coming, d)
      BY <2>1, <2>3, RememberGoes
    <2>5. w.client = q /\ w.seen = seen /\ w.coming = coming
      BY <2>3 DEF OnlyClient
    <2> HIDE DEF q
    <2> QED BY <2>2, <2>4, <2>5 DEF Minds, Passes, w
  <1>4. CASE /\ ~(Pending(k) /\ k.write.hasWritten /\ Same(k.write.content, s))
             /\ ~((Pending(k) /\ k.write.accept /\ Known(k, s)) \/ Recognised(k, s))
    <2>1. w = Local(k, s)
      BY <1>1, <1>4
    <2>2. EvidenceFor(k, s) = {}
      BY <1>4 DEF Recognised
    <2> QED BY <2>1, <2>2, LocalMinds DEF w
  <1> QED BY <1>2, <1>3, <1>4
(***************************************************************************)
(* The echoes, when a message arrives.                                      *)
(***************************************************************************)

\* t is dn without its head.
Drops(t, dn) ==
    /\ 1 \in DOMAIN dn
    /\ \A i \in DOMAIN t : i \in Nat /\ i > 0 /\ i + 1 \in DOMAIN dn /\ t[i] = dn[i + 1]
    /\ \A j \in DOMAIN dn : j = 1 \/ \E i \in DOMAIN t : j = i + 1

\* The tail of a sequence.
LEMMA TailDrops ==
    ASSUME NEW S, NEW dn \in Seq(S), dn # <<>>
    PROVE  Drops(Tail(dn), dn) /\ Head(dn) = dn[1] /\ Head(dn) \in S /\ Tail(dn) \in Seq(S)
  <1> DEFINE t == Tail(dn)
  <1>1. /\ t \in Seq(S) /\ Len(t) = Len(dn) - 1 /\ Head(dn) \in S
        /\ \A i \in 1 .. Len(t) : t[i] = dn[i + 1]
    BY HeadTailProperties
  <1>2. /\ DOMAIN t = 1 .. Len(t) /\ DOMAIN dn = 1 .. Len(dn) /\ Len(dn) \in Nat
        /\ Len(dn) # 0 /\ Len(t) \in Nat
    BY <1>1, LenProperties, EmptySeq
  <1> HIDE DEF t
  <1>3. \A i \in DOMAIN t : i \in Nat /\ i > 0 /\ i + 1 \in DOMAIN dn /\ t[i] = dn[i + 1]
    BY <1>1, <1>2
  <1>4. ASSUME NEW j \in DOMAIN dn, j # 1 PROVE \E i \in DOMAIN t : j = i + 1
    <2>1. j - 1 \in DOMAIN t /\ j = (j - 1) + 1
      BY <1>1, <1>2, <1>4
    <2> QED BY <2>1
  <1>5. 1 \in DOMAIN dn
    BY <1>2
  <1> QED BY <1>1, <1>3, <1>4, <1>5 DEF Drops, t

\* The client hears h.
Echo(h) == h.type = "event" /\ h.own

\* What is still to come once it has.
LEMMA HeardIs ==
    ASSUME NEW u, NEW dn \in Seq(Answers), NEW st, NEW ids \in Nat, Ordered(u, dn, st, ids),
           NEW t, Drops(t, dn)
    PROVE  /\ Ordered(u, t, st, ids) /\ Awaited(u, t, st) \subseteq Awaited(u, dn, st)
           /\ \A x \in Awaited(u, dn, st) :
                x \in Awaited(u, t, st) \/ (Echo(dn[1]) /\ x.id = dn[1].id)
           /\ Echo(dn[1]) =>
                /\ [id |-> dn[1].id, act |-> dn[1].act] \in Awaited(u, dn, st)
                /\ \A x \in Awaited(u, t, st) : x.id > dn[1].id
           /\ Silent(u, dn) => Silent(u, t) /\ dn[1].type = "event" /\ ~Echo(dn[1])
  <1>1. \A i \in DOMAIN t : i \in Nat /\ i > 0 /\ i + 1 \in DOMAIN dn /\ t[i] = dn[i + 1]
    BY DEF Drops
  <1>2. \A i \in Own(t) : i \in DOMAIN t /\ i + 1 \in Own(dn)
    BY <1>1 DEF Own
  <1>3. \A j \in Own(dn) : j = 1 \/ \E i \in Own(t) : j = i + 1
    BY <1>1 DEF Own, Drops
  <1>4. Echo(dn[1]) <=> 1 \in Own(dn)
    BY DEF Own, Echo, Drops
  <1>5. 1 \in Own(dn) => \A i \in Own(t) : dn[1].id < t[i].id
    BY <1>1, <1>2 DEF Ordered
  <1>6. Ordered(u, t, st, ids)
    <2>1. \A i \in Own(t) : t[i].id \in st
      BY <1>1, <1>2 DEF Ordered
    <2>2. ASSUME NEW i \in Own(t), NEW j \in Own(t), i < j PROVE t[i].id < t[j].id
      <3>1. i + 1 < j + 1
        BY <1>1, <1>2, <2>2
      <3> QED BY <1>1, <1>2, <3>1 DEF Ordered
    <2>3. ASSUME NEW i \in Own(t), NEW n \in st, n > t[i].id
          PROVE  \E j \in Own(t) : t[j].id = n
      <3>1. PICK j \in Own(dn) : dn[j].id = n
        BY <1>1, <1>2, <2>3 DEF Ordered
      <3>2. j # 1
        <4> SUFFICES ASSUME j = 1 PROVE FALSE
          OBVIOUS
        <4>1. n < t[i].id /\ t[i].id \in Nat /\ n \in Nat
          <5>1. t[i].id \in st /\ st \subseteq 1 .. ids
            BY <1>1, <1>2 DEF Ordered
          <5>2. t[i].id \in 1 .. ids /\ n \in 1 .. ids
            BY <5>1
          <5>3. n = dn[1].id /\ 1 \in Own(dn)
            BY <3>1
          <5>4. n < t[i].id
            BY <1>5, <5>3
          <5> QED BY <5>2, <5>4
        <4> QED BY <2>3, <4>1
      <3> QED BY <1>1, <1>2, <1>3, <3>1, <3>2
    <2> QED BY <2>1, <2>2, <2>3 DEF Ordered
  <1>7. \A x \in Awaited(u, t, st) :
          \/ \E i \in Fresh(u, st) : x = [id |-> u[i].id, act |-> u[i].act]
          \/ \E i \in Own(t) : x = [id |-> dn[i + 1].id, act |-> dn[i + 1].act] /\ x.id = t[i].id
    BY <1>1, <1>2 DEF Awaited
  <1>8. Awaited(u, t, st) \subseteq Awaited(u, dn, st)
    BY <1>2, <1>7 DEF Awaited
  <1>9. ASSUME NEW x \in Awaited(u, dn, st)
        PROVE  x \in Awaited(u, t, st) \/ (Echo(dn[1]) /\ x.id = dn[1].id)
    <2>1. CASE \E i \in Fresh(u, st) : x = [id |-> u[i].id, act |-> u[i].act]
      BY <2>1 DEF Awaited
    <2>2. CASE \E i \in Own(dn) : x = [id |-> dn[i].id, act |-> dn[i].act]
      <3>1. PICK j \in Own(dn) : x = [id |-> dn[j].id, act |-> dn[j].act]
        BY <2>2
      <3>2. CASE j = 1
        BY <1>4, <3>1, <3>2
      <3>3. CASE j # 1
        <4>1. PICK i \in Own(t) : j = i + 1
          BY <1>3, <3>3
        <4>2. x = [id |-> t[i].id, act |-> t[i].act]
          BY <1>1, <1>2, <3>1, <4>1
        <4> QED BY <4>2 DEF Awaited
      <3> QED BY <3>2, <3>3
    <2> QED BY <1>9, <2>1, <2>2 DEF Awaited
  <1>10. Echo(dn[1]) => [id |-> dn[1].id, act |-> dn[1].act] \in Awaited(u, dn, st)
    BY <1>4 DEF Awaited
  <1>11. ASSUME Echo(dn[1]), NEW x \in Awaited(u, t, st)
         PROVE  x.id > dn[1].id
    <2>1. dn[1].id \in st /\ 1 \in Own(dn)
      BY <1>4, <1>11 DEF Ordered
    <2>2. CASE \E i \in Fresh(u, st) : x = [id |-> u[i].id, act |-> u[i].act]
      <3>1. PICK i \in Fresh(u, st) : x.id = u[i].id
        BY <2>2
      <3>2. dn[1].id < u[i].id
        BY <2>1, <3>1 DEF Ordered
      <3> QED BY <3>1, <3>2
    <2>3. CASE \E i \in Own(t) : x.id = t[i].id
      BY <1>5, <2>1, <2>3
    <2> QED BY <1>7, <2>2, <2>3
  <1>12. Silent(u, dn) => Silent(u, t) /\ dn[1].type = "event" /\ ~Echo(dn[1])
    BY <1>1 DEF Silent, Echo, Drops
  <1> QED BY <1>6, <1>8, <1>9, <1>10, <1>11, <1>12

\* The client hears, and settles what it has observed; if the echo is the one that is due,
\* none is any more.
LEMMA AnsweredHeard ==
    ASSUME NEW k \in Clients, NEW q, NEW u \in Seq(Messages), NEW dn \in Seq(Answers), NEW st,
           NEW n, NEW x, NEW a, Answered(k, seen, u, dn, st, n, x, a),
           NEW t, Drops(t, dn), q.lastObserved = k.lastObserved, q.event = k.event,
           q.ids = k.ids, Sighted(k) => Sighted(q),
           \/ q.submitted = k.submitted
           \/ q.submitted = 0 /\ Echo(dn[1]) /\ dn[1].id = k.submitted
    PROVE  Answered(q, seen, u, t, st, n, x, a)
  <1> DEFINE awaited == Awaited(u, dn, st)
             left == Awaited(u, t, st)
             h == dn[1]
  <1>1. /\ Ordered(u, dn, st, k.ids) /\ n \in Nat /\ x \in BOOLEAN
        /\ Heeds(k, seen, awaited, n, x) /\ (~Sighted(k) => Silent(u, dn))
        /\ Numbered(k, seen, awaited, a) /\ k.ids \in Nat
    BY DEF Answered, Clients
  <1>2. /\ Ordered(u, t, st, k.ids) /\ left \subseteq awaited
        /\ \A y \in awaited : y \in left \/ (Echo(h) /\ y.id = h.id)
        /\ Echo(h) => \A y \in left : y.id > h.id
        /\ Silent(u, dn) => Silent(u, t)
    BY <1>1, HeardIs
  <1>3. \A y \in awaited : y.id \in Nat \ {0}
    <2>1. awaited \subseteq Named
      BY <1>1, AwaitedIs
    <2> HIDE DEF awaited
    <2> QED BY <2>1 DEF Named
  <1> HIDE DEF awaited, left, h
  <1>4. ASSUME NEW y \in left, y.id # q.submitted
        PROVE  y.act < n \/ \E o \in left : o.id > y.id /\ o.act = y.act
    <2>1. y.id # k.submitted
      <3>1. CASE q.submitted = k.submitted
        BY <1>4, <3>1
      <3>2. CASE Echo(h) /\ h.id = k.submitted
        <4>1. y.id > h.id /\ y.id \in Nat
          BY <1>2, <1>3, <3>2
        <4> QED BY <3>2, <4>1
      <3> QED BY <3>1, <3>2 DEF h
    <2>2. CASE y.act < n
      BY <2>2
    <2>3. CASE \E o \in awaited : o.id > y.id /\ o.act = y.act
      <3>1. PICK o \in awaited : o.id > y.id /\ o.act = y.act
        BY <2>3
      <3>2. o \in left
        <4> SUFFICES ASSUME Echo(h), o.id = h.id PROVE FALSE
          BY <1>2
        <4>1. y.id > h.id /\ y.id \in Nat /\ h.id \in Nat
          BY <1>2, <1>3
        <4> QED BY <3>1, <4>1
      <3> QED BY <3>1, <3>2
    <2> QED BY <1>1, <1>2, <2>1, <2>2, <2>3 DEF Heeds
  <1>5. ASSUME ~x, NEW y \in left, y.id = q.submitted
        PROVE  n <= y.act /\ (seen.act > y.act => seen.content # q.lastObserved)
    <2>1. y.id = k.submitted
      BY <1>2, <1>3, <1>5
    <2> QED BY <1>1, <1>2, <1>5, <2>1 DEF Heeds
  <1>6. Heeds(q, seen, left, n, x)
    BY <1>1, <1>2, <1>4, <1>5 DEF Heeds
  <1>7. Numbered(q, seen, left, a)
    BY <1>1, <1>2 DEF Numbered
  <1> QED BY <1>1, <1>2, <1>6, <1>7 DEF Answered, left
\* cancelWrite
LEMMA CancelGoes ==
    ASSUME NEW k \in Clients, Watched(k, seen)
    PROVE  LET w == OnlyClient(Cancel(k)) IN
           /\ Goes(w) /\ Stays(w, k) /\ w.seen = seen /\ w.coming = coming
           /\ w.client.write = None
  <1> DEFINE q == Cancel(k)
             w == OnlyClient(q)
  <1>1. q \in Clients /\ q.write = None /\ SameButWrite(q, k)
    BY CancelIs
  <1>2. w.client = q /\ w.seen = seen /\ w.coming = coming /\ w.sent = <<>>
    BY DEF OnlyClient
  <1> HIDE DEF q, w
  <1>3. ~Pending(q) /\ (Sighted(q) <=> q.baseline) /\ (Sighted(k) => Sighted(q))
    BY <1>1 DEF Sighted, Pending, SameButWrite
  <1>4. Watched(q, seen)
    BY <1>1, <1>3 DEF Watched, SameButWrite
  <1>5. Permitted(q)
    BY <1>1 DEF Permitted
  <1>6. Stays(w, k)
    BY <1>1, <1>2, <1>3 DEF Stays, SameButWrite
  <1> QED BY <1>1, <1>2, <1>4, <1>5, <1>6 DEF Goes, w, q

\* acknowledgeLocalEvent
LEMMA AcknowledgeAlike ==
    ASSUME NEW k \in Clients, NEW sn, Watched(k, sn), NEW id
    PROVE  LET q == Acknowledge(k, id) IN
           /\ Alike(q, k) /\ q.ids = k.ids /\ q.submitted = k.submitted /\ q.event = k.event
  <1>1. (k.polling # None /\ ~k.polling.stale) => Sighted(k)
    BY DEF Watched
  <1>2. CASE k.event = None \/ k.event.id # id
    BY <1>1, <1>2 DEF Acknowledge, Alike
  <1>3. CASE ~(k.event = None \/ k.event.id # id)
    <2> DEFINE a == [k EXCEPT !.waiting = @ \ {k.event.content}]
               b == [a EXCEPT !.lastLocal = k.event.content, !.baseline = TRUE]
    <2>1. /\ a.lastLocal = k.lastLocal /\ a.lastObserved = k.lastObserved
          /\ a.baseline = k.baseline /\ a.event = k.event /\ a.ids = k.ids
          /\ a.evidence = k.evidence /\ a.write = k.write /\ a.polling = k.polling
          /\ a.submitted = k.submitted
      BY DEF Clients
    <2>2. /\ b.lastLocal = k.event.content /\ b.lastObserved = k.lastObserved
          /\ b.baseline = TRUE /\ b.event = k.event /\ b.ids = k.ids
          /\ b.evidence = k.evidence /\ b.write = k.write /\ b.polling = k.polling
          /\ b.submitted = k.submitted
      BY DEF Clients
    <2>3. Acknowledge(k, id) = IF k.lastObserved = k.event.content THEN b ELSE a
      BY <1>3 DEF Acknowledge
    <2> HIDE DEF a, b
    <2> QED BY <1>1, <2>1, <2>2, <2>3 DEF Alike
  <1> QED BY <1>2, <1>3

\* What is due after an echo.
Owed(m) == CASE ~Latest(m) -> due
             [] Latest(m) /\ Accepts(TRUE) /\ ~SentAnew(m) -> Due(m.content)
             [] OTHER -> Unknown

LEMMA OwedIs ==
    ASSUME NEW m
    PROVE  \/ ~Latest(m) /\ Owed(m) = due
           \/ /\ Latest(m) /\ Accepts(TRUE) /\ ~SentAnew(m)
              /\ Owed(m).known = TRUE /\ Owed(m).content = m.content
           \/ /\ Latest(m) /\ (Accepts(TRUE) => SentAnew(m)) /\ Owed(m).known = FALSE
  <1>1. CASE ~Latest(m)
    BY <1>1 DEF Owed
  <1>2. CASE Latest(m) /\ Accepts(TRUE) /\ ~SentAnew(m)
    BY <1>2 DEF Owed, Due
  <1>3. CASE Latest(m) /\ ~(Accepts(TRUE) /\ ~SentAnew(m))
    BY <1>3 DEF Owed, Unknown
  <1> QED BY <1>1, <1>2, <1>3

\* applyRemoteEvent, for an event of this device
LEMMA HearOwnLeads ==
    ASSUME Sound(client, seen, coming), ~client.stopped, Watched(client, seen),
           Permitted(client), NEW m, m.content \in Contents, m.act \in Nat, heeded \in Nat,
           NEW r \in Results, ~Confused(HearOwn(m, r)),
           (~crossed /\ m.id = client.submitted) =>
             /\ heeded <= m.act
             /\ seen.act > m.act => seen.content # client.lastObserved,
           m.id # client.submitted => m.act < heeded \/ SentAnew(m),
           (due.known /\ ~crossed) => Brought(client, seen, coming, due.content)
    PROVE  \E q \in Clients :
             /\ q.lastObserved = client.lastObserved /\ q.event = client.event
             /\ q.ids = client.ids /\ (Sighted(client) => Sighted(q))
             /\ q.submitted = client.submitted \/ (q.submitted = 0 /\ m.id = client.submitted)
             /\ Leads(HearOwn(m, r), q, Owed(m), heeded)
  <1> DEFINE k == Acknowledge(client, m.id)
             n == [k EXCEPT !.submitted = 0]
             s == seen.content
             w == HearOwn(m, r)
             d == Owed(m)
             there == /\ r.before /\ s = m.content /\ n.evidence = <<>>
                      /\ ~(n.write # None /\ n.write.remote /\ n.write.hasWritten)
  <1>1. client \in Clients /\ seen \in Snapshots /\ seen.act \in Nat
    BY DEF Sound, Board, Snapshots
  <1>2. Sound(k, seen, coming) /\ ~k.stopped /\ k \in Clients
    BY AcknowledgeSound DEF Sound
  <1>3. /\ Alike(k, client) /\ k.ids = client.ids /\ k.submitted = client.submitted
        /\ k.event = client.event
    BY <1>1, AcknowledgeAlike
  <1>4. w = IF ~EchoIsDue(m) THEN OnlyClient(k)
            ELSE IF r.before /\ ~Known(n, s) THEN OnlyClient(NewLocal(n, s))
            ELSE IF ~Accepts(TRUE) THEN OnlyClient(n)
            ELSE IF there THEN OnlyClient(Cancel(n))
            ELSE Begin(n, m.content, TRUE, TRUE, TRUE, r)
    BY DEF HearOwn
  <1> HIDE DEF k
  <1>5. /\ Sound(n, seen, coming) /\ ~n.stopped /\ n \in Clients
        /\ Alike(n, client) /\ n.ids = client.ids /\ n.submitted = 0 /\ n.event = client.event
    <2>1. Sound(n, seen, coming) /\ ~n.stopped
      BY <1>2, SubmittedSound
    <2>2. /\ n.lastObserved = k.lastObserved /\ n.lastLocal = k.lastLocal
          /\ n.evidence = k.evidence /\ n.write = k.write /\ n.baseline = k.baseline
          /\ n.polling = k.polling /\ n.ids = k.ids /\ n.submitted = 0 /\ n.event = k.event
      BY <1>2 DEF Clients
    <2> HIDE DEF n
    <2> QED BY <1>3, <2>1, <2>2 DEF Alike, Sound
  <1> HIDE DEF n, w, d
  <1>6. /\ Watched(k, seen) /\ Permitted(k) /\ (Sighted(client) => Sighted(k))
        /\ \A c : Brought(client, seen, coming, c) <=> Brought(k, seen, coming, c)
    BY <1>3, AlikeGoes
  <1>7. /\ Watched(n, seen) /\ Permitted(n) /\ (Sighted(client) => Sighted(n))
        /\ \A c : Brought(client, seen, coming, c) <=> Brought(n, seen, coming, c)
    BY <1>5, AlikeGoes
  <1>8. k.lastObserved = client.lastObserved /\ n.lastObserved = client.lastObserved
    BY <1>3, <1>5 DEF Alike
  <1>9. EchoIsDue(m) <=> m.id = client.submitted
    BY DEF EchoIsDue
  <1>10. \/ ~Latest(m) /\ d = due
         \/ Latest(m) /\ Accepts(TRUE) /\ ~SentAnew(m) /\ d.known = TRUE /\ d.content = m.content
         \/ Latest(m) /\ (Accepts(TRUE) => SentAnew(m)) /\ d.known = FALSE
    BY OwedIs DEF d
  <1> HIDE DEF there
  <1>11. CASE ~EchoIsDue(m)
    <2>1. w = OnlyClient(k)
      BY <1>4, <1>11
    <2>2. (d.known /\ ~crossed) => Brought(k, seen, coming, d.content)
      <3>1. Latest(m) => ~(m.act < heeded)
        BY DEF Latest
      <3>2. d.known => d = due
        BY <1>9, <1>10, <1>11, <3>1
      <3> QED BY <1>6, <3>2
    <2>3. Alike(k, k)
      BY <1>6 DEF Alike, Watched
    <2>4. Minds(w, k) /\ Passes(w, k)
      BY <1>6, <2>1, <2>3, AlikeMinds
    <2>5. w.client = k /\ w.seen = seen /\ w.coming = coming
      BY <2>1 DEF OnlyClient
    <2>6. Leads(w, k, d, heeded)
      BY <2>2, <2>4, <2>5 DEF Leads, Minds
    <2> QED BY <1>2, <1>3, <1>6, <1>8, <2>6 DEF w, d
  <1>12. CASE EchoIsDue(m)
    <2>1. m.id = client.submitted
      BY <1>9, <1>12
    <2>2. Leads(w, n, d, heeded)
      <3>1. CASE r.before /\ ~Known(n, s)
        <4>1. w = OnlyClient(NewLocal(n, s))
          BY <1>4, <1>12, <3>1
        <4>2. seen.act # 0 /\ coming = <<>> /\ s # n.lastObserved
          BY <1>5, <3>1, UnknownSound DEF Known
        <4>3. Finds(w, n) /\ Goes(w)
          BY <1>1, <1>5, <4>1, <4>2, NewLocalFinds
        <4> QED BY <4>2, <4>3 DEF Leads, Noticing
      <3>2. CASE ~(r.before /\ ~Known(n, s)) /\ ~Accepts(TRUE)
        <4>1. w = OnlyClient(n)
          BY <1>4, <1>12, <3>2
        <4>2. (d.known /\ ~crossed) => Brought(n, seen, coming, d.content)
          BY <1>7, <1>10, <3>2
        <4>3. Alike(n, n)
          BY <1>7 DEF Alike, Watched
        <4>4. Minds(w, n) /\ Passes(w, n)
          BY <1>7, <4>1, <4>3, AlikeMinds
        <4>5. w.client = n /\ w.seen = seen /\ w.coming = coming
          BY <4>1 DEF OnlyClient
        <4> QED BY <4>2, <4>4, <4>5 DEF Leads, Minds
      <3>3. CASE ~(r.before /\ ~Known(n, s)) /\ Accepts(TRUE) /\ there
        <4>1. w = OnlyClient(Cancel(n))
          BY <1>4, <1>12, <3>3
        <4>2. /\ Goes(w) /\ Stays(w, n) /\ w.seen = seen /\ w.coming = coming
              /\ w.client.write = None
          BY <1>5, <1>7, <4>1, CancelGoes
        <4>3. s = m.content /\ n.evidence = <<>>
          BY <3>3 DEF there
        <4>4. Final(seen, coming) = s
          <5>1. CASE coming = <<>>
            BY <5>1 DEF Final
          <5>2. CASE coming # <<>>
            <6>1. coming \in Seq(Unread)
                  /\ Board(n.lastObserved, n.lastLocal, n.evidence, seen, coming)
              BY <1>5 DEF Sound, Board, Unread
            <6>2. Len(coming) \in DOMAIN coming
              BY <5>2, <6>1, ComingIs
            <6>3. Of(n.evidence, coming[Len(coming)].content) = {}
              BY <4>3, NothingFound
            <6>4. coming[Len(coming)].content = s
              BY <6>1, <6>2, <6>3 DEF Board
            <6> QED BY <5>2, <6>4 DEF Final
          <5> QED BY <5>1, <5>2
        <4>5. ~crossed => Latest(m)
          BY <2>1, <4>3 DEF Latest
        <4>6. (d.known /\ ~crossed) => Look[Final(seen, coming)] = Look[d.content]
          BY <1>10, <4>3, <4>4, <4>5
        <4>7. (d.known /\ ~crossed) => Brought(w.client, w.seen, w.coming, d.content)
          BY <4>2, <4>6 DEF Brought, Pending
        <4> QED BY <4>2, <4>7 DEF Leads, Passes
      <3>4. CASE ~(r.before /\ ~Known(n, s)) /\ Accepts(TRUE) /\ ~there
        <4>1. w = Begin(n, m.content, TRUE, TRUE, TRUE, r)
          BY <1>4, <1>12, <3>4
        <4> DEFINE v == Begin(n, m.content, TRUE, TRUE, TRUE, r)
        <4>2. Clear(v, n)
          BY <1>8, <4>1 DEF Confused, Clear, w
        <4>3. /\ Goes(v)
              /\ \/ Finds(v, n) /\ seen.content # n.lastObserved
                 \/ /\ Stays(v, n)
                    /\ \A c : (\/ Look[m.content] = Look[c]
                               \/ /\ TRUE /\ seen.act # 0 /\ coming = <<>>
                                  /\ seen.content # n.lastObserved
                                  /\ Of(n.evidence, seen.content) = {}) =>
                         GivenUp(v) \/ Brought(v.client, v.seen, v.coming, c)
          BY <1>5, <1>7, <3>4, <4>2, BeginLeads
        <4> HIDE DEF v
        <4>4. ASSUME d.known, ~crossed
              PROVE  \/ Look[m.content] = Look[d.content]
                     \/ /\ seen.act # 0 /\ coming = <<>> /\ seen.content # n.lastObserved
                        /\ Of(n.evidence, seen.content) = {}
          <5>1. CASE Latest(m)
            BY <1>10, <4>4, <5>1
          <5>2. CASE ~Latest(m)
            <6>1. heeded <= m.act
              BY <2>1, <4>4
            <6>2. seen.act > m.act
              BY <1>1, <5>2, <6>1 DEF Latest
            <6>3. seen.content # n.lastObserved /\ seen.act # 0
              BY <1>1, <1>8, <2>1, <4>4, <6>2
            <6>4. Board(n.lastObserved, n.lastLocal, n.evidence, seen, coming)
              BY <1>5 DEF Sound
            <6> QED BY <6>3, <6>4 DEF Board
          <5> QED BY <5>1, <5>2
        <4>5. CASE Finds(v, n) /\ seen.content # n.lastObserved
          BY <4>1, <4>3, <4>5 DEF Leads, Noticing, v
        <4>6. CASE Stays(v, n)
          <5>1. \/ Finds(v, n) /\ seen.content # n.lastObserved
                \/ (d.known /\ ~crossed) => GivenUp(v) \/ Brought(v.client, v.seen, v.coming, d.content)
            BY <4>3, <4>4
          <5> QED BY <4>1, <4>3, <4>5, <4>6, <5>1 DEF Leads, Passes, v
        <4> QED BY <4>3, <4>5, <4>6
      <3> QED BY <3>1, <3>2, <3>3, <3>4
    <2> QED BY <1>5, <1>7, <1>8, <2>1, <2>2 DEF w, d
  <1> QED BY <1>11, <1>12
(***************************************************************************)
(* The steps again.                                                         *)
(***************************************************************************)

\* A client with the same copy in hand.
LEMMA AnsweredAlike ==
    ASSUME NEW k, NEW q, NEW sn, NEW u, NEW dn, NEW st, NEW n, NEW x, NEW a,
           Answered(k, sn, u, dn, st, n, x, a), q.lastObserved = k.lastObserved,
           q.event = k.event, q.ids = k.ids, q.submitted = k.submitted,
           Sighted(k) => Sighted(q)
    PROVE  Answered(q, sn, u, dn, st, n, x, a)
  <1> DEFINE awaited == Awaited(u, dn, st)
  <1>1. /\ Ordered(u, dn, st, k.ids) /\ n \in Nat /\ x \in BOOLEAN
        /\ Heeds(k, sn, awaited, n, x) /\ (~Sighted(k) => Silent(u, dn))
        /\ Numbered(k, sn, awaited, a)
    BY DEF Answered
  <1> HIDE DEF awaited
  <1>2. Heeds(q, sn, awaited, n, x) /\ Numbered(q, sn, awaited, a)
    BY <1>1 DEF Heeds, Numbered
  <1> QED BY <1>1, <1>2 DEF Answered, awaited

LEMMA MindsLeads ==
    ASSUME NEW w, NEW k, Minds(w, k),
           (due.known /\ ~crossed) => Brought(k, seen, coming, due.content)
    PROVE  Leads(w, k, due, heeded)
  BY DEF Minds, Leads, Noticing

\* What the invariant says of the client.
LEMMA ConvergeIs ==
    ASSUME ConvergeInv
    PROVE  /\ Sound(client, seen, coming) /\ client \in Clients /\ seen \in Snapshots
           /\ settings.sending \in Sendings /\ up \in Seq(Messages) /\ down \in Seq(Answers)
           /\ Watched(client, seen) /\ Permitted(client) /\ acts \in Nat /\ heeded \in Nat
           /\ client.event # None => client.event.id = client.ids
           /\ (client.write # None \/ client.polling # None) => ~client.stopped
           /\ Answered(client, seen, up, down, stored, heeded, crossed, acts)
           /\ (due.known /\ ~crossed) => Brought(client, seen, coming, due.content)
  <1>1. GuardInv /\ Answered(client, seen, up, down, stored, heeded, crossed, acts)
    BY DEF ConvergeInv
  <1>2. /\ Sound(client, seen, coming) /\ client \in Clients /\ seen \in Snapshots
        /\ settings.sending \in Sendings /\ up \in Seq(Messages) /\ down \in Seq(Answers)
        /\ acts \in Nat
        /\ (client.write # None \/ client.polling # None) => ~client.stopped
    BY <1>1 DEF GuardInv, Sound, Board, InHand
  <1>3. heeded \in Nat /\ (client.event # None => client.event.id = client.ids)
    BY <1>1 DEF Answered, Numbered
  <1> QED BY <1>1, <1>2, <1>3 DEF ConvergeInv

LEMMA PollConverges ==
    ASSUME ConvergeInv, GuardInv', Poll
    PROVE  ConvergeInv'
  <1> DEFINE w == Process(client, seen.content)
  <1>1. Brings(w, due, heeded) /\ ~client.stopped
        /\ UNCHANGED <<settings, down, stored, acts>>
    BY DEF Poll, Becomes
  <1>2. Keeps(w) /\ Minds(w, client)
    BY <1>1, ConvergeIs, ProcessKeeps, ProcessMinds
  <1> HIDE DEF w
  <1>3. Leads(w, client, due, heeded)
    BY <1>2, ConvergeIs, MindsLeads
  <1> QED BY <1>1, <1>2, <1>3, ConvergeIs, LeadsOn

LEMMA SourceAnsweredConverges ==
    ASSUME ConvergeInv, GuardInv', NEW ignored \in BOOLEAN, NEW read \in BOOLEAN,
           SourceAnswered(ignored, read)
    PROVE  ConvergeInv'
  <1> DEFINE p == client.polling
             k == [client EXCEPT !.polling = None]
             s == seen.content
             q == [k EXCEPT !.lastLocal = p.content]
             w == IF p.stale \/ ~read THEN OnlyClient(k)
                  ELSE IF s # p.content THEN Process(k, s)
                  ELSE IF ignored THEN OnlyClient(q) ELSE Send(k, p.content)
  <1>1. Brings(w, due, heeded) /\ p # None /\ UNCHANGED <<settings, down, stored, acts>>
    BY DEF SourceAnswered, Becomes
  <1>2. /\ client \in Clients /\ InHand(client) /\ ~client.stopped /\ p \in Polls
        /\ Watched(client, seen) /\ Permitted(client) /\ settings.sending \in Sendings
        /\ (due.known /\ ~crossed) => Brought(client, seen, coming, due.content)
        /\ Answered(client, seen, up, down, stored, heeded, crossed, acts)
    BY <1>1, ConvergeIs DEF Sound, Clients
  <1>3. /\ k \in Clients /\ k.polling = None
        /\ k.lastLocal = client.lastLocal /\ k.lastObserved = client.lastObserved
        /\ k.baseline = client.baseline /\ k.guard = client.guard /\ k.event = client.event
        /\ k.evidence = client.evidence /\ k.write = client.write /\ k.ids = client.ids
        /\ k.stopped = client.stopped /\ k.tokens = client.tokens
        /\ k.submitted = client.submitted
    BY <1>2 DEF Clients
  <1> HIDE DEF k
  <1>4. Sound(k, seen, coming) /\ ~k.stopped
    <2>1. InHand(k)
      BY <1>2, <1>3 DEF InHand
    <2> QED BY <1>2, <1>3, <2>1, ConvergeIs, SettledSound
  <1>5. Alike(k, client)
    BY <1>3 DEF Alike
  <1>6. /\ Watched(k, seen) /\ Permitted(k) /\ (Sighted(client) => Sighted(k))
        /\ (due.known /\ ~crossed) => Brought(k, seen, coming, due.content)
        /\ k.event # None => k.event.id = k.ids
    BY <1>2, <1>3, <1>5, AlikeGoes, ConvergeIs
  <1>7. Answered(k, seen, up, down', stored, heeded, crossed, acts')
    <2>1. Answered(k, seen, up, down, stored, heeded, crossed, acts)
      BY <1>2, <1>3, <1>6, AnsweredAlike
    <2> QED BY <1>1, <2>1
  <1>8. CASE p.stale \/ ~read \/ s # p.content
    <2>1. Keeps(OnlyClient(k)) /\ Keeps(Process(k, s)) /\ Minds(Process(k, s), k)
      BY <1>2, <1>4, <1>6, OnlyClientKeeps, ProcessKeeps, ProcessMinds
    <2>2. Minds(OnlyClient(k), k)
      <3>1. Alike(k, k)
        BY <1>3 DEF Alike
      <3> QED BY <1>6, <3>1, AlikeMinds
    <2>3. Keeps(w) /\ Minds(w, k)
      BY <1>8, <2>1, <2>2
    <2> HIDE DEF w
    <2>4. Leads(w, k, due, heeded)
      BY <1>6, <2>3, MindsLeads
    <2> QED BY <1>1, <1>3, <1>7, <2>3, <2>4, ConvergeIs, LeadsOn
  <1>9. CASE ~p.stale /\ read /\ s = p.content
    <2>1. /\ k.event # None /\ k.event.content = k.lastObserved
          /\ p.content = k.lastObserved /\ p.content \in Shown /\ Sighted(client)
      <3>1. Sighted(client)
        BY <1>1, <1>2, <1>9 DEF Watched
      <3> QED BY <1>1, <1>2, <1>3, <1>9, <3>1 DEF InHand, Polls, Shown
    <2>2. Keeps(OnlyClient(q)) /\ Minds(OnlyClient(q), k)
      <3>1. /\ q \in Clients /\ q.lastLocal = p.content /\ q.lastObserved = k.lastObserved
            /\ q.baseline = k.baseline /\ q.guard = k.guard /\ q.event = k.event
            /\ q.evidence = k.evidence /\ q.write = k.write /\ q.polling = k.polling
            /\ q.stopped = k.stopped /\ q.tokens = k.tokens /\ q.ids = k.ids
            /\ q.submitted = k.submitted
        BY <1>3, <2>1 DEF Clients
      <3> HIDE DEF q, p
      <3>2. InHand(q)
        BY <1>3, <1>4, <2>1, <3>1 DEF InHand
      <3>3. Sound(q, seen, coming) /\ ~q.stopped
        BY <1>4, <2>1, <3>1, <3>2, SettledSound
      <3>4. Alike(q, k)
        BY <1>3, <2>1, <3>1 DEF Alike
      <3> QED BY <1>6, <3>1, <3>3, <3>4, OnlyClientKeeps, AlikeMinds
    <2>3. Keeps(Send(k, p.content)) /\ Minds(Send(k, p.content), k)
      <3> HIDE DEF p
      <3>1. Keeps(Send(k, p.content))
        BY <1>2, <1>4, <2>1, SendKeeps
      <3>2. Minds(Send(k, seen.content), k)
        BY <1>2, <1>3, <1>6, <1>9, <2>1, SendMinds
      <3> QED BY <1>9, <3>1, <3>2
    <2>4. Keeps(w) /\ Minds(w, k)
      <3> HIDE DEF q, p
      <3> QED BY <1>9, <2>2, <2>3
    <2> HIDE DEF w
    <2>5. Leads(w, k, due, heeded)
      BY <1>6, <2>4, MindsLeads
    <2> QED BY <1>1, <1>3, <1>7, <2>4, <2>5, ConvergeIs, LeadsOn
  <1> QED BY <1>8, <1>9
\* A retry with nothing to compare takes what it finds for a copy.
LEMMA UnsightedIs ==
    ASSUME NEW k, Sound(k, seen, coming), NEW r \in Results, Pending(k),
           ~(k.write.remote /\ ~Accepts(k.write.own)), Unsighted(k, r)
    PROVE  Apply(k, r) = OnlyClient(NewLocal(k, seen.content))
  <1> DEFINE s == seen.content
             o == IF r.before /\ k.write.accept THEN Remember(k, s) ELSE k
             knownWrite == r.before /\ EvidenceFor(o, s) # {}
             e == IF r.before /\ ~Known(o, s) THEN [o EXCEPT !.evidence = <<>>] ELSE o
             m == IF knownWrite THEN Remember(e, s) ELSE e
             w == [m EXCEPT !.write.observed = s, !.write.hasObservation = TRUE]
  <1>1. /\ k \in Clients /\ Proven(k) /\ k.write.attempt > 1 /\ r.before /\ ~k.write.accept
        /\ ~k.write.hasObservation /\ EvidenceFor(k, s) = {}
    BY DEF Sound, Unsighted
  <1>2. ~(k.write.hasWritten /\ Same(k.write.content, s))
    BY <1>1, WrittenIsFound
  <1>3. Apply(k, r) = IF Changed(e, s, knownWrite) THEN OnlyClient(NewLocal(e, s))
                      ELSE IF Full(w) THEN OnlyClient(Retry(w)) ELSE Perform(w, r)
    BY <1>1, <1>2 DEF Apply
  <1>4. o = k /\ ~knownWrite /\ (e = k \/ e = [k EXCEPT !.evidence = <<>>])
    BY <1>1
  <1>5. e.write = k.write /\ NewLocal(e, s) = NewLocal(k, s)
    <2> HIDE DEF e
    <2>1. [k EXCEPT !.evidence = <<>>].write = k.write
      BY <1>1 DEF Clients
    <2> QED BY <1>1, <1>4, <2>1, NewLocalForgets
  <1> HIDE DEF e, w, knownWrite
  <1>6. Changed(e, s, knownWrite)
    BY <1>1, <1>4, <1>5 DEF Changed
  <1> QED BY <1>3, <1>5, <1>6

\* No echo is to come while there is nothing to compare with: any act may be the last.
LEMMA AnsweredUnsighted ==
    ASSUME NEW k, NEW sn, NEW u, NEW dn, NEW st, NEW n, NEW x, NEW a,
           Answered(k, sn, u, dn, st, n, x, a), ~Sighted(k), NEW o \in Nat
    PROVE  Answered(k, sn, u, dn, st, o, x, a)
  <1>1. Silent(u, dn)
    BY DEF Answered
  <1>2. Own(dn) = {} /\ Fresh(u, st) = {}
    BY <1>1 DEF Silent, Own, Fresh
  <1>3. Awaited(u, dn, st) = {}
    BY <1>2 DEF Awaited
  <1> QED BY <1>3 DEF Answered, Heeds

LEMMA RetryWriteConverges ==
    ASSUME ~confused', ConvergeInv, GuardInv', NEW r \in Results, RetryWrite(r)
    PROVE  ConvergeInv'
  <1> DEFINE k == [client EXCEPT !.write.timer = FALSE, !.write.attempt = @ + 1]
             w == Apply(k, r)
             d == IF Unseeing(r) THEN Due(seen.content) ELSE due
             n == IF Unseeing(r) THEN seen.act ELSE heeded
  <1>0. Yields(w, d, n, Blind(r))
    BY DEF RetryWrite
  <1>1. /\ Sound(client, seen, coming) /\ client.write # None /\ ~Blind(r)
        /\ Watched(client, seen) /\ Permitted(client) /\ seen \in Snapshots
        /\ (due.known /\ ~crossed) => Brought(client, seen, coming, due.content)
        /\ Answered(client, seen, up, down, stored, heeded, crossed, acts)
    BY <1>0, ConvergeIs DEF RetryWrite, Yields
  <1>2. /\ Brings(w, d, n) /\ ~Confused(w) /\ client.write.timer
        /\ UNCHANGED <<settings, down, stored, acts>>
    BY <1>0, <1>1 DEF RetryWrite, Brings, Yields
  <1>3. /\ Sound(k, seen, coming) /\ ~k.stopped /\ SameButWrite(k, client)
        /\ k.write # None /\ k.write.attempt > 1 /\ ~k.write.timer
        /\ k.write.content = client.write.content /\ k.write.own = client.write.own
        /\ k.write.remote = client.write.remote /\ k.write.accept = client.write.accept
        /\ k.write.status = client.write.status
        /\ k.write.hasWritten = client.write.hasWritten
        /\ k.write.observed = client.write.observed
        /\ k.write.hasObservation = client.write.hasObservation
    BY <1>1, RetriedSound
  <1> HIDE DEF k
  <1>4. /\ k \in Clients /\ k.lastObserved = client.lastObserved /\ k.evidence = client.evidence
        /\ k.event = client.event /\ k.ids = client.ids /\ k.submitted = client.submitted
        /\ k.baseline = client.baseline /\ k.lastLocal = client.lastLocal
        /\ k.polling = client.polling
    BY <1>3 DEF SameButWrite, Sound
  <1>5. Pending(client) /\ Pending(k)
    BY <1>1, <1>2, <1>3 DEF Watched, Pending
  <1>6. Sighted(k) <=> Sighted(client)
    BY <1>3, <1>4, <1>5 DEF Sighted
  <1>7. Watched(k, seen) /\ Permitted(k)
    BY <1>1, <1>3, <1>4, <1>5, <1>6 DEF Watched, Permitted
  <1>8. \A x : Brought(client, seen, coming, x) => Brought(k, seen, coming, x)
    <2>1. Known(client, seen.content) <=> Known(k, seen.content)
      <3>1. EvidenceFor(k, seen.content) = EvidenceFor(client, seen.content)
        BY <1>4 DEF EvidenceFor
      <3> QED BY <1>3, <1>4, <1>5, <3>1 DEF Known
    <2> QED BY <1>3, <1>5, <2>1 DEF Brought
  <1>9. Unsighted(k, r) <=> Unseeing(r)
    <2>1. EvidenceFor(k, seen.content) = EvidenceFor(client, seen.content)
      BY <1>4 DEF EvidenceFor
    <2> QED BY <1>3, <2>1 DEF Unsighted, Unseeing
  <1>10. Unsighted(k, r) => seen.act # 0 /\ coming = <<>>
    BY <1>1, <1>9 DEF Blind
  <1>11. Clear(w, k)
    BY <1>2, <1>4 DEF Confused, Clear
  <1>12. Keeps(w) /\ Attempts(w, k, r)
    BY <1>3, <1>5, <1>7, <1>10, <1>11, ApplyKeeps, ApplyLeads
  <1>13. Leads(w, k, d, n)
    <2>1. CASE Unseeing(r)
      <3>1. ~(k.write.remote /\ ~Accepts(k.write.own))
        BY <1>3, <1>7 DEF Permitted
      <3>2. w = OnlyClient(NewLocal(k, seen.content)) /\ seen.act # 0 /\ coming = <<>>
        BY <1>3, <1>5, <1>9, <1>10, <2>1, <3>1, UnsightedIs
      <3> HIDE DEF w
      <3>3. Finds(w, k)
        BY <1>1, <1>4, <3>2, NewLocalFinds
      <3>4. ~Sighted(k)
        BY <1>5, <1>9, <2>1 DEF Sighted, Unsighted
      <3> QED BY <1>12, <2>1, <3>3, <3>4 DEF Leads, Noticing, Attempts
    <2>2. CASE ~Unseeing(r)
      <3>1. d = due /\ n = heeded /\ ~Unsighted(k, r)
        BY <1>9, <2>2
      <3> HIDE DEF w, d, n
      <3>2. CASE Finds(w, k)  /\ seen.content # k.lastObserved
        BY <1>12, <3>2 DEF Leads, Noticing, Attempts
      <3>3. CASE ~(Finds(w, k) /\ seen.content # k.lastObserved)
        <4>1. /\ Stays(w, k)
              /\ \A x : Brought(k, seen, coming, x) =>
                   GivenUp(w) \/ Brought(w.client, w.seen, w.coming, x)
          BY <1>3, <1>12, <3>1, <3>3 DEF Attempts
        <4> QED BY <1>1, <1>8, <1>12, <3>1, <4>1 DEF Leads, Attempts, Passes
      <3> QED BY <3>2, <3>3
    <2> QED BY <2>1, <2>2
  <1> HIDE DEF w
  <1>14. Answered(k, seen, up, down', stored, n, crossed, acts')
    <2>1. Answered(k, seen, up, down, stored, heeded, crossed, acts)
      BY <1>1, <1>4, <1>6, AnsweredAlike
    <2>2. Answered(k, seen, up, down, stored, n, crossed, acts)
      <3>1. Unseeing(r) => ~Sighted(k)
        BY <1>5, <1>9 DEF Sighted, Unsighted
      <3>2. seen.act \in Nat
        BY <1>1 DEF Snapshots
      <3> QED BY <2>1, <3>1, <3>2, AnsweredUnsighted
    <2> QED BY <1>2, <2>2
  <1> HIDE DEF d, n
  <1> QED BY <1>1, <1>2, <1>4, <1>12, <1>13, <1>14, ConvergeIs, LeadsOn
LEMMA HearConverges ==
    ASSUME ~confused', ConvergeInv, GuardInv', NEW r \in Results, Hear(r)
    PROVE  ConvergeInv'
  <1> DEFINE m == Head(down)
  <1>1. /\ Sound(client, seen, coming) /\ client \in Clients /\ seen \in Snapshots
        /\ Watched(client, seen) /\ Permitted(client) /\ ~client.stopped
        /\ up \in Seq(Messages) /\ down \in Seq(Answers) /\ down # <<>> /\ heeded \in Nat
        /\ (due.known /\ ~crossed) => Brought(client, seen, coming, due.content)
        /\ Answered(client, seen, up, down, stored, heeded, crossed, acts)
    <2>1. ~client.stopped /\ down # <<>>
      BY DEF ConvergeInv, GuardInv, Hear
    <2> QED BY <2>1, ConvergeIs
  <1>2. /\ Drops(down', down) /\ m = down[1] /\ m \in Answers /\ down' \in Seq(Answers)
        /\ UNCHANGED <<settings, stored, acts>>
    <2>1. down' = Tail(down) /\ UNCHANGED <<settings, stored, acts>>
      BY DEF Hear
    <2> QED BY <1>1, <2>1, TailDrops
  <1>3. \/ Brings(OnlyClient(Acknowledge(client, m.id)), due, heeded)
        \/ m.type = "event" /\ m.own /\ Brings(HearOwn(m, r), Owed(m), heeded)
        \/ /\ m.type = "event" /\ Accepts(FALSE)
           /\ Brings(Begin(client, m.content, FALSE, TRUE, FALSE, r), Due(m.content), heeded)
        \/ Brings(OnlyClient(client), due, heeded)
    BY DEF Hear, Becomes, Owed
  <1> HIDE DEF m
  <1>4. Answered(client, seen, up, down', stored, heeded, crossed, acts')
    <2>1. Answered(client, seen, up, down', stored, heeded, crossed, acts)
      BY <1>1, <1>2, AnsweredHeard
    <2> QED BY <1>2, <2>1
  <1>5. ASSUME NEW x \in {client, Acknowledge(client, m.id)}, Brings(OnlyClient(x), due, heeded)
        PROVE  ConvergeInv'
    <2>1. /\ Alike(x, client) /\ x.ids = client.ids /\ x.submitted = client.submitted
          /\ x.event = client.event
      <3>1. Alike(client, client)
        BY <1>1 DEF Alike, Watched
      <3> QED BY <1>1, <1>5, <3>1, AcknowledgeAlike
    <2>2. Keeps(OnlyClient(x))
      BY <1>1, <1>5, AcknowledgeSound, OnlyClientKeeps
    <2>3. Minds(OnlyClient(x), client)
      BY <1>1, <2>1, AlikeMinds
    <2>4. Leads(OnlyClient(x), client, due, heeded)
      BY <1>1, <2>3, MindsLeads
    <2> QED BY <1>1, <1>2, <1>4, <1>5, <2>2, <2>4, LeadsOn
  <1>6. CASE m.type = "event" /\ m.own /\ Brings(HearOwn(m, r), Owed(m), heeded)
    <2> DEFINE awaited == Awaited(up, down, stored)
               e == [id |-> m.id, act |-> m.act]
    <2>1. m.content \in Contents /\ m.act \in Nat /\ ~Confused(HearOwn(m, r))
      BY <1>2, <1>6 DEF Answers, Brings, Yields
    <2>2. Echo(down[1]) /\ e \in awaited
      <3>1. Echo(down[1])
        BY <1>2, <1>6 DEF Echo
      <3>2. Ordered(up, down, stored, client.ids) /\ client.ids \in Nat
        BY <1>1 DEF Answered, Clients
      <3> QED BY <1>1, <1>2, <3>1, <3>2, HeardIs
    <2>3. Heeds(client, seen, awaited, heeded, crossed)
      BY <1>1 DEF Answered
    <2>4. e.id = m.id /\ e.act = m.act
      OBVIOUS
    <2> HIDE DEF e
    <2>5. (~crossed /\ m.id = client.submitted) =>
            /\ heeded <= m.act
            /\ seen.act > m.act => seen.content # client.lastObserved
      BY <2>2, <2>3, <2>4 DEF Heeds
    <2>6. m.id # client.submitted => m.act < heeded \/ SentAnew(m)
      <3>1. ASSUME NEW o \in awaited, o.id > m.id, o.act = m.act PROVE SentAnew(m)
        <4>0. o.id # m.id
          <5>1. m.id \in Nat /\ o.id \in Nat
            <6>1. Ordered(up, down, stored, client.ids) /\ client.ids \in Nat
              BY <1>1 DEF Answered, Clients
            <6>2. awaited \subseteq Named
              BY <1>1, <6>1, AwaitedIs
            <6> HIDE DEF awaited
            <6> QED BY <2>2, <2>4, <3>1, <6>2 DEF Named
          <5> QED BY <3>1, <5>1
        <4>1. CASE \E i \in Fresh(up, stored) : o = [id |-> up[i].id, act |-> up[i].act]
          BY <3>1, <4>0, <4>1 DEF Fresh, SentAnew
        <4>2. CASE \E i \in Own(down) : o = [id |-> down[i].id, act |-> down[i].act]
          BY <3>1, <4>0, <4>2 DEF Own, SentAnew
        <4> QED BY <3>1, <4>1, <4>2 DEF Awaited
      <3> HIDE DEF awaited
      <3> QED BY <2>2, <2>3, <2>4, <3>1 DEF Heeds
    <2>7. PICK q \in Clients :
            /\ q.lastObserved = client.lastObserved /\ q.event = client.event
            /\ q.ids = client.ids /\ (Sighted(client) => Sighted(q))
            /\ q.submitted = client.submitted \/ (q.submitted = 0 /\ m.id = client.submitted)
            /\ Leads(HearOwn(m, r), q, Owed(m), heeded)
      BY <1>1, <2>1, <2>5, <2>6, HearOwnLeads
    <2>8. Answered(q, seen, up, down', stored, heeded, crossed, acts')
      <3>1. Answered(q, seen, up, down', stored, heeded, crossed, acts)
        BY <1>1, <1>2, <2>2, <2>7, AnsweredHeard
      <3> QED BY <1>2, <3>1
    <2>9. Keeps(HearOwn(m, r))
      BY <1>1, <2>1, HearOwnKeeps
    <2> DEFINE w == HearOwn(m, r)
               d == Owed(m)
    <2>10. Brings(w, d, heeded) /\ Keeps(w) /\ Leads(w, q, d, heeded)
      BY <1>6, <2>7, <2>9
    <2> HIDE DEF w, d
    <2> QED BY <1>1, <1>2, <2>7, <2>8, <2>10, LeadsOn
  <1>7. CASE /\ m.type = "event" /\ Accepts(FALSE)
             /\ Brings(Begin(client, m.content, FALSE, TRUE, FALSE, r), Due(m.content), heeded)
    <2> DEFINE w == Begin(client, m.content, FALSE, TRUE, FALSE, r)
               d == Due(m.content)
    <2>1. m.content \in Contents /\ Brings(w, d, heeded) /\ ~Confused(w)
      BY <1>2, <1>7 DEF Answers, Brings, Yields
    <2>2. Clear(w, client)
      BY <2>1 DEF Confused, Clear
    <2>3. Keeps(w)
      BY <1>1, <2>1, <2>2, BeginKeeps
    <2>4. /\ Goes(w)
          /\ \/ Finds(w, client) /\ seen.content # client.lastObserved
             \/ /\ Stays(w, client)
                /\ \A x : Look[m.content] = Look[x] =>
                     GivenUp(w) \/ Brought(w.client, w.seen, w.coming, x)
      BY <1>1, <1>7, <2>1, <2>2, BeginLeads
    <2>5. d.content = m.content
      BY DEF Due
    <2> HIDE DEF w, d
    <2>6. Leads(w, client, d, heeded)
      BY <2>4, <2>5 DEF Leads, Noticing, Passes
    <2> QED BY <1>1, <1>2, <1>4, <2>1, <2>3, <2>6, LeadsOn
  <1> QED BY <1>3, <1>5, <1>6, <1>7
\* The user selects an event: it is later than all the echoes that are to come.
LEMMA AnsweredSelected ==
    ASSUME NEW k \in Clients, NEW q, NEW u \in Seq(Messages), NEW dn \in Seq(Answers), NEW st,
           NEW n, NEW x, NEW a, Answered(k, seen, u, dn, st, n, x, a), seen \in Snapshots,
           q.lastObserved = k.lastObserved, q.event = k.event, q.ids = k.ids,
           q.submitted = 0, Sighted(k) => Sighted(q)
    PROVE  Answered(q, seen, u, dn, st, a + 1, x, a + 1)
  <1> DEFINE awaited == Awaited(u, dn, st)
             b == a + 1
  <1>1. /\ Ordered(u, dn, st, k.ids) /\ x \in BOOLEAN
        /\ Heeds(k, seen, awaited, n, x) /\ (~Sighted(k) => Silent(u, dn))
        /\ Numbered(k, seen, awaited, a) /\ k.ids \in Nat
    BY DEF Answered, Clients
  <1>2. awaited \subseteq Named
    BY <1>1, AwaitedIs
  <1> HIDE DEF awaited
  <1>3. \A m \in awaited : m.id # 0 /\ m.act \in Nat /\ m.act <= a
    BY <1>1, <1>2 DEF Numbered, Named
  <1>4. a \in Nat /\ seen.act \in Nat /\ seen.act <= a
    BY <1>1 DEF Numbered, Snapshots
  <1>5. b \in Nat /\ seen.act <= b /\ \A m \in awaited : m.act < b /\ m.act <= b
    BY <1>3, <1>4
  <1>6. k.event # None => k.event.id = k.ids /\ k.ids # 0 /\ k.event.act <= a
    BY <1>1 DEF Numbered
  <1>7. k.event # None => k.event.act <= b
    <2>1. \A e \in Nat : e <= a => e <= b
      BY <1>4
    <2>2. k.event # None => k.event.act \in Nat
      BY DEF Clients, Copies
    <2> HIDE DEF b
    <2> QED BY <1>6, <2>1, <2>2
  <1> HIDE DEF b
  <1>8. Heeds(q, seen, awaited, b, x)
    BY <1>1, <1>3, <1>5 DEF Heeds
  <1>9. Numbered(q, seen, awaited, b)
    BY <1>5, <1>6, <1>7 DEF Numbered
  <1> QED BY <1>1, <1>5, <1>8, <1>9 DEF Answered, awaited, b

\* Nothing is underway: no echo is to come.
LEMMA AnsweredNone ==
    ASSUME NEW k, NEW q, NEW sn, NEW u, NEW dn, NEW st, NEW n, NEW x, NEW a, NEW b \in Nat,
           Answered(k, sn, u, dn, st, n, x, a), sn \in Snapshots, k \in Clients, a <= b,
           q.ids = k.ids,
           q.event = None \/ (q.event = k.event /\ q.lastObserved = k.lastObserved)
    PROVE  Answered(q, sn, <<>>, <<>>, st, n, x, b)
  <1>1. DOMAIN <<>> = {}
    OBVIOUS
  <1>2. /\ Own(<<>>) = {} /\ Fresh(<<>>, st) = {} /\ Awaited(<<>>, <<>>, st) = {}
        /\ Silent(<<>>, <<>>)
    BY <1>1 DEF Own, Fresh, Awaited, Silent
  <1>3. /\ Ordered(u, dn, st, k.ids) /\ n \in Nat /\ x \in BOOLEAN
        /\ Heeds(k, sn, Awaited(u, dn, st), n, x) /\ Numbered(k, sn, Awaited(u, dn, st), a)
    BY DEF Answered
  <1>4. Ordered(<<>>, <<>>, st, q.ids)
    BY <1>1, <1>2, <1>3 DEF Ordered
  <1>5. Heeds(q, sn, {}, n, x)
    BY <1>3 DEF Heeds
  <1>6. Numbered(q, sn, {}, b)
    <2>1. sn.act \in Nat /\ a \in Nat /\ sn.act <= a
      BY <1>3 DEF Numbered, Snapshots
    <2>2. sn.act <= b
      BY <2>1
    <2>3. q.event # None => q.event.act <= b
      <3>1. q.event # None => q.event.act \in Nat /\ q.event.act <= a
        BY <1>3 DEF Numbered, Clients, Copies
      <3>2. \A e \in Nat : e <= a => e <= b
        BY <2>1
      <3> QED BY <3>1, <3>2
    <2> QED BY <1>3, <2>2, <2>3 DEF Numbered
  <1> QED BY <1>2, <1>3, <1>4, <1>5, <1>6 DEF Answered

\* Neither a write nor a poll is underway.
LEMMA IdleGoes ==
    ASSUME NEW q, q.write = None, q.polling = None, NEW sn
    PROVE  Watched(q, sn) /\ Permitted(q)
  BY DEF Watched, Permitted, Pending, Sighted

LEMMA SelectConverges ==
    ASSUME ~confused', ConvergeInv, GuardInv', NEW c \in Contents, NEW own \in BOOLEAN,
           NEW r \in Results, Select(c, own, r)
    PROVE  ConvergeInv'
  <1> DEFINE k == [client EXCEPT !.submitted = 0]
             w == Begin(k, c, own, FALSE, FALSE, r)
  <1>1. /\ Sound(client, seen, coming) /\ client \in Clients /\ seen \in Snapshots
        /\ Watched(client, seen) /\ Permitted(client) /\ acts \in Nat
        /\ up \in Seq(Messages) /\ down \in Seq(Answers)
        /\ (client.write # None \/ client.polling # None) => ~client.stopped
        /\ (due.known /\ ~crossed) => Brought(client, seen, coming, due.content)
        /\ Answered(client, seen, up, down, stored, heeded, crossed, acts)
    BY ConvergeIs
  <1>2. acts' = acts + 1 /\ UNCHANGED <<settings, down, stored>>
    BY DEF Select
  <1>3. /\ k \in Clients /\ k.submitted = 0
        /\ k.lastLocal = client.lastLocal /\ k.lastObserved = client.lastObserved
        /\ k.baseline = client.baseline /\ k.event = client.event
        /\ k.evidence = client.evidence /\ k.write = client.write
        /\ k.polling = client.polling /\ k.stopped = client.stopped /\ k.ids = client.ids
    BY <1>1 DEF Clients
  <1>4. Sound(k, seen, coming)
    BY <1>1, SubmittedSound
  <1>5. CASE client.stopped
    <2> DEFINE o == Outdated(k)
               q == Cancel(o)
               e == OnlyClient(q)
    <2>1. /\ o \in Clients /\ SameButPolling(o, k) /\ (o.polling = None <=> k.polling = None)
      BY <1>3, OutdatedIs
    <2>2. q \in Clients /\ q.write = None /\ SameButWrite(q, o)
      BY <2>1, CancelIs
    <2>3. w = e
      BY <1>3, <1>5 DEF Begin
    <2> HIDE DEF o, q, k
    <2>4. /\ q.write = None /\ q.polling = None /\ q.ids = client.ids
          /\ q.event = client.event /\ q.lastObserved = client.lastObserved
      BY <1>1, <1>3, <1>5, <2>1, <2>2 DEF SameButPolling, SameButWrite
    <2>5. Brings(w, due, heeded)
      BY <1>5 DEF Select, Becomes, k
    <2> HIDE DEF w
    <2>6. e.client = q /\ e.seen = seen /\ e.coming = coming /\ e.sent = <<>>
      BY DEF OnlyClient
    <2> HIDE DEF e
    <2>7. ~Noticed(e) /\ ~GivenUp(e)
      BY <2>4, <2>6 DEF Noticed, GivenUp
    <2>8. /\ client' = q /\ seen' = seen /\ coming' = coming /\ due' = due /\ heeded' = heeded
          /\ crossed' = (crossed \/ \E i \in DOMAIN e.sent : e.sent[i].act < heeded')
      BY <2>3, <2>5, <2>6, <2>7 DEF Brings, Yields
    <2>9. crossed' = crossed
      <3>1. DOMAIN <<>> = {}
        OBVIOUS
      <3>2. crossed \in BOOLEAN
        BY <1>1 DEF Answered
      <3> QED BY <2>6, <2>8, <3>1, <3>2
    <2>10. up' = <<>> /\ down' = <<>>
      BY <1>5, <2>8, <2>1, <2>2, <1>3 DEF GuardInv, SameButPolling, SameButWrite
    <2>11. Answered(client', seen', up', down', stored', heeded', crossed', acts')
      <3>1. acts + 1 \in Nat /\ acts <= acts + 1
        BY <1>1
      <3>2. Answered(q, seen, <<>>, <<>>, stored, heeded, crossed, acts + 1)
        BY <1>1, <2>4, <3>1, AnsweredNone
      <3> QED BY <1>2, <2>8, <2>9, <2>10, <3>2
    <2>12. Watched(client', seen') /\ client'.write = None
      BY <2>4, <2>8, IdleGoes
    <2>13. (due'.known /\ ~crossed') => Brought(client', seen', coming', due'.content)
      BY <1>1, <1>5, <2>4, <2>8, <2>9 DEF Brought, Pending
    <2> QED BY <2>11, <2>12, <2>13 DEF ConvergeInv, Permitted
  <1>6. CASE ~client.stopped
    <2> DEFINE d == Due(c)
               n == acts + 1
    <2>1. Brings(w, d, n) /\ ~Confused(w)
      BY <1>2, <1>6 DEF Select, Brings, Yields
    <2>2. Clear(w, k)
      BY <1>3, <2>1 DEF Confused, Clear
    <2> HIDE DEF k
    <2>3. Keeps(w)
      BY <1>3, <1>4, <1>6, <2>2, BeginKeeps
    <2>4. /\ Goes(w)
          /\ \/ Finds(w, k) /\ seen.content # k.lastObserved
             \/ /\ Stays(w, k)
                /\ \A x : Look[c] = Look[x] =>
                     GivenUp(w) \/ Brought(w.client, w.seen, w.coming, x)
      BY <1>3, <1>4, <1>6, <2>2, BeginLeads
    <2>5. d.content = c
      BY DEF Due
    <2>6. Answered(k, seen, up, down', stored, n, crossed, acts')
      <3>1. Sighted(client) => Sighted(k)
        BY <1>3 DEF Sighted, Pending
      <3>2. Answered(k, seen, up, down, stored, acts + 1, crossed, acts + 1)
        BY <1>1, <1>3, <3>1, AnsweredSelected
      <3> QED BY <1>2, <3>2
    <2> HIDE DEF w, d, n
    <2>7. Leads(w, k, d, n)
      BY <2>4, <2>5 DEF Leads, Noticing, Passes
    <2> QED BY <1>1, <1>2, <1>3, <2>1, <2>3, <2>6, <2>7, LeadsOn
  <1> QED BY <1>5, <1>6

LEMMA PasteConverges ==
    ASSUME ConvergeInv, GuardInv', NEW read \in BOOLEAN, Paste(read)
    PROVE  ConvergeInv'
  <1> DEFINE k == client
             s == seen.content
             w == OnlyClient(IF read /\ ~Known(k, s) THEN NewLocal(k, s) ELSE Cancel(k))
  <1>1. /\ Sound(k, seen, coming) /\ k \in Clients /\ ~k.stopped /\ seen \in Snapshots
        /\ Watched(k, seen) /\ up \in Seq(Messages) /\ down \in Seq(Answers)
        /\ (due.known /\ ~crossed) => Brought(k, seen, coming, due.content)
        /\ Answered(k, seen, up, down, stored, heeded, crossed, acts)
    BY ConvergeIs DEF Paste
  <1>2. /\ Brings(w, due, heeded) /\ UNCHANGED <<settings, down, stored, acts>>
        /\ ~Pending(k)
    BY DEF Paste, Becomes, Pending
  <1>3. CASE read /\ ~Known(k, s)
    <2>1. w = OnlyClient(NewLocal(k, s)) /\ seen.act # 0 /\ coming = <<>> /\ s # k.lastObserved
      BY <1>1, <1>3, UnknownSound DEF Known
    <2> HIDE DEF w
    <2>2. Keeps(w) /\ Finds(w, k) /\ Goes(w)
      BY <1>1, <2>1, NewLocalKeeps, NewLocalFinds
    <2>3. Leads(w, k, due, heeded)
      BY <2>1, <2>2 DEF Leads, Noticing
    <2> QED BY <1>1, <1>2, <2>2, <2>3, LeadsOn
  <1>4. CASE ~(read /\ ~Known(k, s))
    <2>1. w = OnlyClient(Cancel(k))
      BY <1>4
    <2> HIDE DEF w
    <2>2. /\ Keeps(w) /\ Goes(w) /\ Stays(w, k) /\ w.seen = seen /\ w.coming = coming
          /\ w.client.write = None
      BY <1>1, <2>1, CancelSound, OnlyClientKeeps, CancelGoes
    <2>3. (due.known /\ ~crossed) => Brought(w.client, w.seen, w.coming, due.content)
      BY <1>1, <1>2, <2>2 DEF Brought, Pending
    <2>4. Leads(w, k, due, heeded)
      BY <2>2, <2>3 DEF Leads, Passes
    <2> QED BY <1>1, <1>2, <2>2, <2>4, LeadsOn
  <1> QED BY <1>3, <1>4
LEMMA CopyConverges ==
    ASSUME ConvergeInv, GuardInv', NEW c \in Shown, Copy(c)
    PROVE  ConvergeInv'
  <1> DEFINE awaited == Awaited(up, down, stored)
             k == client
  <1>1. /\ k \in Clients /\ Watched(k, seen) /\ Permitted(k) /\ acts \in Nat
        /\ Answered(k, seen, up, down, stored, heeded, crossed, acts)
    BY ConvergeIs
  <1>2. /\ acts' = acts + 1 /\ Distinct(c) /\ seen' = User(c, acts + 1) /\ coming' = <<>>
        /\ due' = Due(c)
        /\ UNCHANGED <<client, settings, up, down, stored, heeded, crossed>>
    BY DEF Copy, hub
  <1>3. seen'.act = acts + 1 /\ seen'.content = c /\ acts + 1 # 0 /\ acts <= acts + 1
    BY <1>1, <1>2 DEF User
  <1>4. /\ c # k.lastObserved /\ EvidenceFor(k, c) = {}
        /\ k.write # None => c # k.write.observed /\ ~Same(k.write.content, c)
    BY <1>2 DEF Distinct, Held, EvidenceFor, Same
  <1>5. Watched(k, seen')
    BY <1>1, <1>3, <1>4 DEF Watched, Pending
  <1>6. /\ Ordered(up, down, stored, k.ids) /\ heeded \in Nat /\ crossed \in BOOLEAN
        /\ Heeds(k, seen, awaited, heeded, crossed) /\ (~Sighted(k) => Silent(up, down))
        /\ Numbered(k, seen, awaited, acts)
    BY <1>1 DEF Answered
  <1>7. \A m \in awaited : m.act < acts + 1 /\ m.act <= acts + 1
    <2>1. awaited \subseteq Named
      <3>1. up \in Seq(Messages) /\ down \in Seq(Answers) /\ k.ids \in Nat
        BY ConvergeIs DEF Clients
      <3> QED BY <1>6, <3>1, AwaitedIs
    <2> HIDE DEF awaited
    <2>2. \A m \in awaited : m.act \in Nat /\ m.act <= acts
      BY <1>6, <2>1 DEF Named, Numbered
    <2> QED BY <1>1, <2>2
  <1> HIDE DEF awaited
  <1>8. Heeds(k, seen', awaited, heeded, crossed)
    BY <1>3, <1>4, <1>6, <1>7 DEF Heeds
  <1>9. Numbered(k, seen', awaited, acts + 1)
    <2>1. k.event # None => k.event.act <= acts + 1
      <3>1. k.event # None => k.event.act \in Nat /\ k.event.act <= acts
        BY <1>1, <1>6 DEF Numbered, Clients, Copies
      <3>2. \A e \in Nat : e <= acts => e <= acts + 1
        BY <1>1
      <3> QED BY <3>1, <3>2
    <2>2. acts + 1 \in Nat /\ acts + 1 <= acts + 1
      BY <1>1
    <2> QED BY <1>3, <1>6, <1>7, <2>1, <2>2 DEF Numbered
  <1>10. Answered(client', seen', up', down', stored', heeded', crossed', acts')
    BY <1>2, <1>6, <1>8, <1>9 DEF Answered, awaited
  <1>11. Brought(client', seen', coming', due'.content)
    <2>1. due'.content = c
      BY <1>2 DEF Due
    <2>2. Pending(k) => ~Known(k, c)
      BY <1>4 DEF Known, Pending
    <2> QED BY <1>2, <1>3, <2>1, <2>2 DEF Brought, Final
  <1> QED BY <1>1, <1>2, <1>5, <1>10, <1>11 DEF ConvergeInv, Permitted, Accepts, Allowed

LEMMA LandConverges ==
    ASSUME ConvergeInv, GuardInv', Land
    PROVE  ConvergeInv'
  <1> DEFINE awaited == Awaited(up, down, stored)
             k == client
             h == Head(coming)
             t == Tail(coming)
  <1>1. /\ k \in Clients /\ Watched(k, seen) /\ Permitted(k) /\ acts \in Nat
        /\ Answered(k, seen, up, down, stored, heeded, crossed, acts)
        /\ (due.known /\ ~crossed) => Brought(k, seen, coming, due.content)
        /\ Board(k.lastObserved, k.lastLocal, k.evidence, seen, coming)
    BY ConvergeIs DEF Sound
  <1>2. /\ coming # <<>> /\ seen' = h /\ coming' = t
        /\ UNCHANGED <<client, settings, up, down, stored, acts, heeded, crossed, due>>
    BY DEF Land, hub, ghosts
  <1>3. coming \in Seq(Unread)
    BY <1>1 DEF Board, Unread
  <1>4. /\ h = coming[1] /\ 1 \in DOMAIN coming /\ h.act = 0
        /\ Of(k.evidence, h.content) = {} => h.content = seen.content
    <2>1. 1 \in DOMAIN coming
      BY <1>2, <1>3, ComingIs
    <2>2. h = coming[1]
      BY <1>2, <1>3, HeadTailProperties
    <2> QED BY <1>1, <1>3, <2>1, <2>2, ComingIs DEF Board
  <1>5. Final(h, t) = Final(seen, coming)
    <2>1. /\ t \in Seq(Unread) /\ Len(t) = Len(coming) - 1 /\ Len(coming) \in Nat /\ Len(coming) # 0
          /\ \A i \in 1 .. Len(t) : t[i] = coming[i + 1]
      BY <1>2, <1>3, HeadTailProperties, LenProperties, EmptySeq
    <2>2. CASE t = <<>>
      <3>1. Len(coming) = 1
        <4>1. Len(t) = 0
          BY <2>2, EmptySeq
        <4>2. \A n \in Nat : 0 = n - 1 => n = 1
          OBVIOUS
        <4> QED BY <2>1, <4>1, <4>2
      <3> QED BY <1>2, <1>4, <2>2, <3>1 DEF Final
    <2>3. CASE t # <<>>
      <3>1. Len(t) \in 1 .. Len(t) /\ Len(t) + 1 = Len(coming)
        BY <2>1, <2>3, EmptySeq, LenProperties
      <3> QED BY <1>2, <2>1, <2>3, <3>1 DEF Final
    <2> QED BY <2>2, <2>3
  <1> HIDE DEF h, t
  <1>6. Watched(k, h)
    BY <1>1, <1>4 DEF Watched
  <1>7. /\ Ordered(up, down, stored, k.ids) /\ heeded \in Nat /\ crossed \in BOOLEAN
        /\ Heeds(k, seen, awaited, heeded, crossed) /\ (~Sighted(k) => Silent(up, down))
        /\ Numbered(k, seen, awaited, acts)
    BY <1>1 DEF Answered
  <1>8. \A m \in awaited : ~(h.act > m.act)
    <2>1. awaited \subseteq Named
      <3>1. up \in Seq(Messages) /\ down \in Seq(Answers) /\ k.ids \in Nat
        BY ConvergeIs DEF Clients
      <3> QED BY <1>7, <3>1, AwaitedIs
    <2> HIDE DEF awaited
    <2> QED BY <1>4, <2>1 DEF Named
  <1> HIDE DEF awaited
  <1>9. Heeds(k, h, awaited, heeded, crossed)
    BY <1>4, <1>7, <1>8 DEF Heeds
  <1>10. Numbered(k, h, awaited, acts)
    BY <1>1, <1>4, <1>7 DEF Numbered
  <1>11. Answered(client', seen', up', down', stored', heeded', crossed', acts')
    BY <1>2, <1>7, <1>9, <1>10 DEF Answered, awaited
  <1>12. (due'.known /\ ~crossed') => Brought(client', seen', coming', due'.content)
    BY <1>1, <1>2, <1>5 DEF Brought
  <1> QED BY <1>1, <1>2, <1>6, <1>11, <1>12 DEF ConvergeInv, Permitted, Accepts, Allowed

LEMMA StopConverges ==
    ASSUME ConvergeInv, GuardInv', Stop
    PROVE  ConvergeInv'
  <1> DEFINE k == Cancel(client)
             q == [k EXCEPT !.stopped = TRUE, !.event = None, !.submitted = 0,
                            !.waiting = {}, !.polling = None]
  <1>1. /\ client \in Clients /\ seen \in Snapshots /\ acts \in Nat
        /\ Answered(client, seen, up, down, stored, heeded, crossed, acts)
        /\ (due.known /\ ~crossed) => Brought(client, seen, coming, due.content)
    BY ConvergeIs
  <1>2. k \in Clients /\ k.write = None /\ k.ids = client.ids
    BY <1>1, CancelIs DEF SameButWrite
  <1>3. /\ client' = q /\ up' = <<>> /\ down' = <<>>
        /\ UNCHANGED <<seen, coming, stored, acts, heeded, crossed>>
        /\ due' = IF Pending(client) THEN Unknown ELSE due
    BY DEF Stop, os
  <1> HIDE DEF k
  <1>4. q.event = None /\ q.polling = None /\ q.write = None /\ q.ids = client.ids
    BY <1>2 DEF Clients
  <1> HIDE DEF q
  <1>5. Watched(client', seen') /\ Permitted(client)'
    <2>1. Watched(q, seen)
      BY <1>4, IdleGoes
    <2> QED BY <1>3, <1>4, <2>1 DEF Permitted
  <1>6. Answered(client', seen', up', down', stored', heeded', crossed', acts')
    <2>1. acts <= acts
      BY <1>1
    <2>2. Answered(q, seen, <<>>, <<>>, stored, heeded, crossed, acts)
      BY <1>1, <1>4, <2>1, AnsweredNone
    <2> QED BY <1>3, <2>2
  <1>7. (due'.known /\ ~crossed') => Brought(client', seen', coming', due'.content)
    <2>1. CASE Pending(client)
      BY <1>3, <2>1 DEF Unknown
    <2>2. CASE ~Pending(client)
      BY <1>1, <1>3, <1>4, <2>2 DEF Brought, Pending
    <2> QED BY <2>1, <2>2
  <1> QED BY <1>5, <1>6, <1>7 DEF ConvergeInv

LEMMA StartConverges ==
    ASSUME ConvergeInv, GuardInv', NEW read \in BOOLEAN, Start(read)
    PROVE  ConvergeInv'
  <1> DEFINE k == [client EXCEPT !.stopped = FALSE, !.baseline = FALSE]
             s == seen.content
             e == IF Known(k, s) THEN k ELSE [k EXCEPT !.evidence = <<>>]
             q == [e EXCEPT !.lastLocal = s, !.lastObserved = s, !.baseline = TRUE]
             x == Consume(q, s)
  <1>1. /\ client \in Clients /\ seen \in Snapshots /\ acts \in Nat /\ s \in Shown
        /\ client.write = None /\ client.polling = None /\ client.event = None
        /\ up = <<>> /\ down = <<>>
        /\ Answered(client, seen, up, down, stored, heeded, crossed, acts)
        /\ (due.known /\ ~crossed) => Brought(client, seen, coming, due.content)
    <2>1. client.stopped /\ GuardInv
      BY DEF Start, ConvergeInv
    <2>2. InHand(client) /\ up = <<>> /\ down = <<>>
      BY <2>1 DEF GuardInv, Sound
    <2> QED BY <2>1, <2>2, ConvergeIs DEF InHand, Snapshots
  <1>2. /\ client' = (IF read THEN x ELSE k)
        /\ UNCHANGED <<seen, coming, up, down, stored, acts, heeded, crossed, due>>
    BY DEF Start, os, ghosts
  <1>3. k \in Clients /\ k.write = None /\ k.polling = None /\ k.event = None /\ k.ids = client.ids
    BY <1>1 DEF Clients
  <1> HIDE DEF k
  <1>4. e \in Clients /\ e.write = None /\ e.polling = None /\ e.event = None /\ e.ids = client.ids
    <2>1. <<>> \in Seq(Findings)
      OBVIOUS
    <2> DEFINE f == [k EXCEPT !.evidence = <<>>]
    <2>2. f \in Clients /\ f.write = None /\ f.polling = None /\ f.event = None /\ f.ids = client.ids
      BY <1>3, <2>1 DEF Clients
    <2> HIDE DEF f
    <2>3. e = k \/ e = f
      BY DEF f
    <2> HIDE DEF e
    <2> QED BY <1>3, <2>2, <2>3
  <1> HIDE DEF e
  <1>5. q \in Clients /\ q.write = None /\ q.polling = None /\ q.event = None /\ q.ids = client.ids
    BY <1>1, <1>4 DEF Clients
  <1> HIDE DEF q
  <1>6. x.write = None /\ x.polling = None /\ x.event = None /\ x.ids = client.ids
    <2>1. \E f : x = [q EXCEPT !.evidence = f]
      <3>1. q = [q EXCEPT !.evidence = q.evidence]
        BY <1>5 DEF Clients
      <3> QED BY <3>1 DEF Consume
    <2>2. PICK f : x = [q EXCEPT !.evidence = f]
      BY <2>1
    <2> HIDE DEF x
    <2> QED BY <1>5, <2>2 DEF Clients
  <1> HIDE DEF x
  <1> DEFINE y == client'
  <1>7. y.write = None /\ y.polling = None /\ y.event = None /\ y.ids = client.ids
    BY <1>2, <1>3, <1>6
  <1> HIDE DEF y
  <1>8. Watched(client', seen') /\ Permitted(client)'
    <2>1. Watched(y, seen)
      BY <1>7, IdleGoes
    <2> QED BY <1>2, <1>7, <2>1 DEF y, Permitted
  <1>9. Answered(client', seen', up', down', stored', heeded', crossed', acts')
    <2>1. acts <= acts
      BY <1>1
    <2>2. Answered(y, seen, <<>>, <<>>, stored, heeded, crossed, acts)
      BY <1>1, <1>7, <2>1, AnsweredNone
    <2> QED BY <1>1, <1>2, <2>2 DEF y
  <1>10. (due'.known /\ ~crossed') => Brought(client', seen', coming', due'.content)
    <2>1. client'.write = None
      BY <1>7 DEF y
    <2> QED BY <1>1, <1>2, <2>1 DEF Brought, Pending
  <1> QED BY <1>8, <1>9, <1>10 DEF ConvergeInv
LEMMA DisconnectConverges ==
    ASSUME ConvergeInv, GuardInv', Disconnect
    PROVE  ConvergeInv'
  <1>1. /\ client \in Clients /\ seen \in Snapshots /\ acts \in Nat
        /\ Watched(client, seen) /\ Permitted(client)
        /\ Answered(client, seen, up, down, stored, heeded, crossed, acts)
        /\ (due.known /\ ~crossed) => Brought(client, seen, coming, due.content)
    BY ConvergeIs
  <1>2. /\ up' = <<>> /\ down' = <<>>
        /\ UNCHANGED <<client, seen, coming, settings, stored, acts, heeded, crossed, due>>
    BY DEF Disconnect, os, ghosts
  <1>3. Answered(client, seen, <<>>, <<>>, stored, heeded, crossed, acts)
    <2>1. acts <= acts
      BY <1>1
    <2> QED BY <1>1, <2>1, AnsweredNone
  <1> QED BY <1>1, <1>2, <1>3 DEF ConvergeInv, Permitted, Accepts, Allowed

LEMMA AckExpiresConverges ==
    ASSUME ConvergeInv, GuardInv', AckExpires
    PROVE  ConvergeInv'
  <1> DEFINE q == [client EXCEPT !.waiting = {}]
  <1>1. /\ client \in Clients /\ Watched(client, seen) /\ Permitted(client)
        /\ Answered(client, seen, up, down, stored, heeded, crossed, acts)
        /\ (due.known /\ ~crossed) => Brought(client, seen, coming, due.content)
    BY ConvergeIs
  <1>2. /\ client' = q
        /\ UNCHANGED <<seen, coming, settings, up, down, stored, acts, heeded, crossed, due>>
    <2>1. client' = q
      BY DEF AckExpires
    <2>2. UNCHANGED <<os, settings, hub, ghosts>>
      BY DEF AckExpires
    <2> QED BY <2>1, <2>2 DEF os, hub, ghosts
  <1>3. /\ q.lastLocal = client.lastLocal /\ q.lastObserved = client.lastObserved
        /\ q.baseline = client.baseline /\ q.event = client.event
        /\ q.evidence = client.evidence /\ q.write = client.write /\ q.polling = client.polling
        /\ q.ids = client.ids /\ q.submitted = client.submitted
    BY <1>1 DEF Clients
  <1> HIDE DEF q
  <1>4. Alike(q, client)
    BY <1>1, <1>3 DEF Alike, Watched
  <1>5. /\ Watched(q, seen) /\ Permitted(q) /\ (Sighted(client) => Sighted(q))
        /\ (due.known /\ ~crossed) => Brought(q, seen, coming, due.content)
    BY <1>1, <1>4, AlikeGoes
  <1>6. Answered(q, seen, up, down, stored, heeded, crossed, acts)
    BY <1>1, <1>3, <1>5, AnsweredAlike
  <1> QED BY <1>2, <1>5, <1>6 DEF ConvergeInv, Permitted, Accepts, Allowed

LEMMA ChangesConverge ==
    ASSUME ConvergeInv, GuardInv'
    PROVE  /\ \A s \in [sending : Sendings, receiving : {"all", "blocked", "paused"}] :
                ChangeSettings(s) => ConvergeInv'
           /\ \A x \in Sendings : ChangeDevices(x) => ConvergeInv'
  <1>1. /\ client \in Clients /\ Watched(client, seen) /\ Permitted(client)
        /\ Answered(client, seen, up, down, stored, heeded, crossed, acts)
        /\ (due.known /\ ~crossed) => Brought(client, seen, coming, due.content)
    BY ConvergeIs
  <1>2. ASSUME NEW s \in [sending : Sendings, receiving : {"all", "blocked", "paused"}],
               ChangeSettings(s)
        PROVE  ConvergeInv'
    <2> DEFINE w == client.write
               undone == /\ w # None
                         /\ \/ w.remote /\ s.receiving = "paused"
                            \/ ~w.own /\ s.receiving = "blocked"
               o == Outdated(client)
               q == IF undone THEN Cancel(o) ELSE o
    <2>1. /\ client' = q /\ settings' = s
          /\ due' = IF undone /\ w.status = "pending" THEN Unknown ELSE due
          /\ UNCHANGED <<seen, coming, up, down, stored, acts, heeded, crossed>>
      BY <1>2 DEF ChangeSettings, os, hub
    <2>2. o \in Clients /\ SameButPolling(o, client) /\ (o.polling # None => o.polling.stale)
      BY <1>1, OutdatedIs
    <2>3. Cancel(o) \in Clients /\ Cancel(o).write = None /\ SameButWrite(Cancel(o), o)
      BY <2>2, CancelIs
    <2> HIDE DEF o
    <2>4. /\ Watched(o, seen) /\ (Sighted(client) => Sighted(o)) /\ o.write = client.write
          /\ \A cm, d : Brought(client, seen, cm, d) <=> Brought(o, seen, cm, d)
      <3>1. Alike(o, client)
        BY <2>2 DEF Alike, SameButPolling
      <3> QED BY <1>1, <2>2, <3>1, AlikeGoes DEF SameButPolling
    <2>5. /\ q.lastObserved = client.lastObserved /\ q.event = client.event
          /\ q.ids = client.ids /\ q.submitted = client.submitted
          /\ Watched(q, seen) /\ (Sighted(client) => Sighted(q))
          /\ q.write = IF undone THEN None ELSE client.write
      <3>1. CASE undone
        <4>1. Watched(Cancel(o), seen) /\ (Sighted(o) => Sighted(Cancel(o)))
          BY <2>2, <2>3, <2>4 DEF Watched, Sighted, Pending, SameButWrite
        <4> QED BY <2>2, <2>3, <2>4, <3>1, <4>1 DEF SameButPolling, SameButWrite
      <3>2. CASE ~undone
        BY <2>2, <2>4, <3>2 DEF SameButPolling
      <3> QED BY <3>1, <3>2
    <2>6. (due'.known /\ ~crossed') => Brought(client', seen', coming', due'.content)
      <3>1. CASE undone /\ w.status = "pending"
        BY <2>1, <3>1 DEF Unknown
      <3>2. CASE undone /\ w.status # "pending"
        <4>1. ~Pending(client) /\ ~Pending(q)
          BY <2>5, <3>2 DEF Pending
        <4> HIDE DEF q
        <4>2. (due.known /\ ~crossed) => Brought(q, seen, coming, due.content)
          BY <1>1, <4>1 DEF Brought
        <4> QED BY <2>1, <3>2, <4>2
      <3>3. CASE ~undone
        <4>1. q = o /\ due' = due
          BY <2>1, <3>3
        <4> QED BY <1>1, <2>1, <2>4, <4>1
      <3> QED BY <3>1, <3>2, <3>3
    <2> HIDE DEF q
    <2>7. Permitted(client)'
      BY <2>1, <2>5 DEF Permitted, Accepts, Allowed
    <2>8. Answered(q, seen, up, down, stored, heeded, crossed, acts)
      BY <1>1, <2>5, AnsweredAlike
    <2> QED BY <2>1, <2>5, <2>6, <2>7, <2>8 DEF ConvergeInv
  <1>3. ASSUME NEW x \in Sendings, ChangeDevices(x)
        PROVE  ConvergeInv'
    <2>1. /\ settings' = [settings EXCEPT !.sending = x]
          /\ UNCHANGED <<client, seen, coming, up, down, stored, acts, heeded, crossed, due>>
      BY <1>3 DEF ChangeDevices, os, hub, ghosts
    <2>2. settings'.receiving = settings.receiving
      BY <2>1 DEF ConvergeInv, GuardInv
    <2> QED BY <1>1, <2>1, <2>2 DEF ConvergeInv, Permitted, Accepts, Allowed
  <1> QED BY <1>2, <1>3
\* The hub answers with something that is not an echo.
LEMMA ToldIs ==
    ASSUME NEW u, NEW dn, NEW st, NEW ids, Ordered(u, dn, st, ids),
           NEW v, NEW m, Adds(v, dn, m), ~Echo(m)
    PROVE  /\ Ordered(u, v, st, ids) /\ Awaited(u, v, st) = Awaited(u, dn, st)
           /\ (m.type = "event" /\ Silent(u, dn)) => Silent(u, v)
  <1>1. PICK p \in Nat : /\ DOMAIN v = DOMAIN dn \cup {p} /\ v[p] = m
                         /\ \A i \in DOMAIN dn : i \in Nat /\ i < p /\ v[i] = dn[i]
    BY DEF Adds
  <1>2. \A i \in DOMAIN v : i \in DOMAIN dn \/ i = p
    BY <1>1
  <1>3. \A i \in DOMAIN dn : i \in DOMAIN v /\ v[i] = dn[i]
    BY <1>1
  <1>4. Own(v) = Own(dn)
    BY <1>1, <1>2, <1>3 DEF Own, Echo
  <1>5. \A i \in Own(v) : v[i] = dn[i]
    BY <1>3, <1>4 DEF Own
  <1>6. Ordered(u, v, st, ids)
    BY <1>4, <1>5 DEF Ordered
  <1>7. Awaited(u, v, st) = Awaited(u, dn, st)
    BY <1>4, <1>5 DEF Awaited
  <1>8. (m.type = "event" /\ Silent(u, dn)) => Silent(u, v)
    BY <1>1, <1>2, <1>3 DEF Silent, Echo
  <1> QED BY <1>6, <1>7, <1>8

\* There is one act for each id.
Agreed(awaited) == \A m, o \in awaited : m.id = o.id => m.act = o.act

\* The hub takes the event e from u, and its echo goes down.
Moves(e, t, u, v, dn) ==
    /\ Drops(t, u) /\ Adds(v, dn, e) /\ Echo(e)
    /\ e.id = u[1].id /\ e.act = u[1].act

\* The same echoes are to come as before.
LEMMA EchoedIs ==
    ASSUME NEW u, NEW dn, NEW st, NEW ids \in Nat, Ordered(u, dn, st, ids),
           Agreed(Awaited(u, dn, st)), NEW t, NEW v, NEW e, Moves(e, t, u, v, dn),
           e.id \notin st
    PROVE  LET more == st \cup {e.id}
           IN  Ordered(t, v, more, ids) /\ Awaited(t, v, more) = Awaited(u, dn, st)
  <1> DEFINE more == st \cup {e.id}
             Mark(m) == [id |-> m.id, act |-> m.act]
  <1>0. Drops(t, u) /\ Adds(v, dn, e) /\ Echo(e) /\ e.id = u[1].id /\ e.act = u[1].act
    BY DEF Moves
  <1>1. PICK p \in Nat : /\ DOMAIN v = DOMAIN dn \cup {p} /\ v[p] = e
                         /\ \A i \in DOMAIN dn : i \in Nat /\ i < p /\ v[i] = dn[i]
    BY <1>0 DEF Adds
  <1>2. /\ 1 \in DOMAIN u
        /\ \A i \in DOMAIN t : i \in Nat /\ i > 0 /\ i + 1 \in DOMAIN u /\ t[i] = u[i + 1]
        /\ \A j \in DOMAIN u : j = 1 \/ \E i \in DOMAIN t : j = i + 1
    BY <1>0 DEF Drops
  <1>3. /\ Own(v) = Own(dn) \cup {p} /\ v[p] = e /\ p \notin Own(dn)
        /\ \A i \in Own(dn) : v[i] = dn[i] /\ i < p /\ i \in Nat
    <2>1. \A i \in DOMAIN dn : i \in DOMAIN v /\ v[i] = dn[i] /\ i < p /\ i # p /\ i \in Nat
      BY <1>1
    <2>2. p \in Own(v)
      BY <1>0, <1>1 DEF Own, Echo
    <2>3. Own(v) = Own(dn) \cup {p}
      BY <1>1, <2>1, <2>2 DEF Own
    <2> QED BY <1>1, <2>1, <2>3 DEF Own
  <1>4. 1 \in Fresh(u, st) /\ \A n \in st : n < e.id
    BY <1>0, <1>2 DEF Fresh, Ordered
  <1>5. e.id \in 1 .. ids
    BY <1>0, <1>2 DEF Ordered
  <1>6. \A i \in Fresh(t, more) : i + 1 \in Fresh(u, st) /\ t[i] = u[i + 1] /\ t[i].id # e.id
    BY <1>2 DEF Fresh
  <1>7. \A j \in Fresh(u, st) : u[j].id = e.id \/ \E i \in Fresh(t, more) : j = i + 1 /\ t[i] = u[j]
    BY <1>0, <1>2 DEF Fresh
  <1>8. Ordered(t, v, more, ids)
    <2>1. \A i \in DOMAIN t : t[i].id \in 1 .. ids
      BY <1>2 DEF Ordered
    <2>2. ASSUME NEW i \in DOMAIN t, NEW j \in DOMAIN t, i <= j PROVE t[i].id <= t[j].id
      <3>1. i + 1 \in DOMAIN u /\ j + 1 \in DOMAIN u /\ i + 1 <= j + 1
        BY <1>2, <2>2
      <3>2. u[i + 1].id <= u[j + 1].id
        BY <3>1 DEF Ordered
      <3> QED BY <1>2, <3>2
    <2>3. \A i \in Own(v) : v[i].id \in more
      BY <1>3 DEF Ordered
    <2>4. ASSUME NEW i \in Own(v), NEW j \in Own(v), i < j PROVE v[i].id < v[j].id
      <3>1. CASE j = p
        <4>1. i \in Own(dn)
          BY <1>3, <2>4, <3>1
        <4> QED BY <1>3, <1>4, <3>1, <4>1 DEF Ordered
      <3>2. CASE j \in Own(dn)
        <4>1. i \in Own(dn)
          BY <1>3, <2>4, <3>2
        <4> QED BY <1>3, <2>4, <3>2, <4>1 DEF Ordered
      <3> QED BY <1>3, <3>1, <3>2
    <2>5. more \subseteq 1 .. ids
      BY <1>5 DEF Ordered
    <2>6. ASSUME NEW i \in Fresh(t, more), NEW n \in more PROVE n < t[i].id
      <3>1. i + 1 \in Fresh(u, st) /\ t[i] = u[i + 1] /\ t[i].id # e.id
        BY <1>6
      <3>2. CASE n \in st
        BY <3>1, <3>2 DEF Ordered
      <3>3. CASE n = e.id
        <4>1. i + 1 \in DOMAIN u /\ 1 <= i + 1 /\ i \in DOMAIN t
          BY <1>2, <2>6 DEF Fresh
        <4>2. u[1].id <= u[i + 1].id /\ u[i + 1].id \in Nat
          BY <1>2, <4>1 DEF Ordered
        <4> QED BY <1>0, <1>5, <3>1, <3>3, <4>2
      <3> QED BY <3>2, <3>3
    <2>7. ASSUME NEW i \in Own(v), NEW n \in more, n > v[i].id
          PROVE  \E j \in Own(v) : v[j].id = n
      <3>1. CASE n = e.id
        BY <1>3, <3>1
      <3>2. CASE n \in st /\ i \in Own(dn)
        <4>1. n > dn[i].id
          BY <1>3, <2>7, <3>2
        <4>2. \E j \in Own(dn) : dn[j].id = n
          BY <3>2, <4>1 DEF Ordered
        <4> QED BY <1>3, <4>2
      <3>3. CASE n \in st /\ i = p
        <4>1. n < e.id /\ n > e.id /\ n \in Nat
          BY <1>3, <1>4, <2>5, <2>7, <3>3
        <4> QED BY <1>5, <4>1
      <3> QED BY <1>3, <3>1, <3>2, <3>3
    <2> QED BY <2>1, <2>2, <2>3, <2>4, <2>5, <2>6, <2>7 DEF Ordered
  <1>9. \A j \in Fresh(u, st) : u[j].id = e.id => Mark(u[j]) = Mark(e)
    <2> SUFFICES ASSUME NEW j \in Fresh(u, st), u[j].id = e.id PROVE u[j].act = e.act
      OBVIOUS
    <2>1. Mark(u[j]) \in Awaited(u, dn, st) /\ Mark(u[1]) \in Awaited(u, dn, st)
      BY <1>4 DEF Awaited
    <2> QED BY <1>0, <2>1 DEF Agreed
  <1>10. \A x \in Awaited(t, v, more) : x \in Awaited(u, dn, st)
    <2>1. \A i \in Fresh(t, more) : Mark(t[i]) \in Awaited(u, dn, st)
      BY <1>6 DEF Awaited
    <2>2. \A i \in Own(v) : Mark(v[i]) \in Awaited(u, dn, st)
      <3>1. Mark(v[p]) = Mark(u[1])
        BY <1>0, <1>3
      <3>2. Mark(u[1]) \in Awaited(u, dn, st)
        BY <1>4 DEF Awaited
      <3>3. \A i \in Own(dn) : Mark(v[i]) \in Awaited(u, dn, st)
        BY <1>3 DEF Awaited
      <3> QED BY <1>3, <3>1, <3>2, <3>3
    <2> QED BY <2>1, <2>2 DEF Awaited
  <1>11. \A x \in Awaited(u, dn, st) : x \in Awaited(t, v, more)
    <2>1. ASSUME NEW j \in Fresh(u, st) PROVE Mark(u[j]) \in Awaited(t, v, more)
      <3>1. CASE u[j].id = e.id
        <4>1. Mark(u[j]) = Mark(v[p]) /\ p \in Own(v)
          BY <1>3, <1>9, <3>1
        <4> QED BY <4>1 DEF Awaited
      <3>2. CASE u[j].id # e.id
        <4>1. PICK i \in Fresh(t, more) : t[i] = u[j]
          BY <1>7, <3>2
        <4> QED BY <4>1 DEF Awaited
      <3> QED BY <3>1, <3>2
    <2>2. ASSUME NEW i \in Own(dn) PROVE Mark(dn[i]) \in Awaited(t, v, more)
      BY <1>3 DEF Awaited
    <2> QED BY <2>1, <2>2 DEF Awaited
  <1>12. Awaited(t, v, more) = Awaited(u, dn, st)
    BY <1>10, <1>11
  <1> QED BY <1>8, <1>12

\* The hub knows the event.
LEMMA DroppedIs ==
    ASSUME NEW u, NEW dn, NEW st, NEW ids, Ordered(u, dn, st, ids),
           NEW t, Drops(t, u), u[1].id \in st
    PROVE  Ordered(t, dn, st, ids) /\ Awaited(t, dn, st) = Awaited(u, dn, st)
  <1>1. /\ 1 \in DOMAIN u
        /\ \A i \in DOMAIN t : i \in Nat /\ i > 0 /\ i + 1 \in DOMAIN u /\ t[i] = u[i + 1]
        /\ \A j \in DOMAIN u : j = 1 \/ \E i \in DOMAIN t : j = i + 1
    BY DEF Drops
  <1>2. \A i \in Fresh(t, st) : i + 1 \in Fresh(u, st) /\ t[i] = u[i + 1]
    BY <1>1 DEF Fresh
  <1>3. \A j \in Fresh(u, st) : \E i \in Fresh(t, st) : j = i + 1 /\ t[i] = u[j]
    BY <1>1 DEF Fresh
  <1>4. Ordered(t, dn, st, ids)
    <2>1. \A i \in DOMAIN t : t[i].id \in 1 .. ids
      BY <1>1 DEF Ordered
    <2>2. ASSUME NEW i \in DOMAIN t, NEW j \in DOMAIN t, i <= j PROVE t[i].id <= t[j].id
      <3>1. i + 1 \in DOMAIN u /\ j + 1 \in DOMAIN u /\ i + 1 <= j + 1
        BY <1>1, <2>2
      <3>2. u[i + 1].id <= u[j + 1].id
        BY <3>1 DEF Ordered
      <3> QED BY <1>1, <3>2
    <2> QED BY <1>2, <2>1, <2>2 DEF Ordered
  <1>5. Awaited(t, dn, st) = Awaited(u, dn, st)
    BY <1>2, <1>3 DEF Awaited
  <1> QED BY <1>4, <1>5
LEMMA StoreConverges ==
    ASSUME ConvergeInv, GuardInv', Store
    PROVE  ConvergeInv'
  <1> DEFINE m == Head(up)
             event == Event(TRUE, m.id, m.content, m.act)
             told == IF m.id \in stored THEN <<>> ELSE <<event>>
             ack == Ack(m.id)
             v == down \o told
             st == stored \cup {m.id}
             awaited == Awaited(up, down, stored)
  <1>1. /\ client \in Clients /\ client.ids \in Nat
        /\ Watched(client, seen) /\ Permitted(client)
        /\ up \in Seq(Messages) /\ down \in Seq(Answers)
        /\ Answered(client, seen, up, down, stored, heeded, crossed, acts)
        /\ (due.known /\ ~crossed) => Brought(client, seen, coming, due.content)
    BY ConvergeIs DEF Clients
  <1>2. /\ up # <<>> /\ up' = Tail(up) /\ down' = v \o <<ack>> /\ stored' = st
        /\ UNCHANGED <<client, seen, coming, settings, acts, heeded, crossed, due>>
    BY DEF Store, os, ghosts
  <1>3. m \in Messages /\ Drops(up', up) /\ m = up[1]
    BY <1>1, <1>2, TailDrops
  <1> HIDE DEF m
  <1>4. /\ event \in Answers /\ ack \in Answers /\ Echo(event) /\ ~Echo(ack)
        /\ event.id = m.id /\ event.act = m.act
    <2>1. m.id \in Nat /\ m.content \in Contents /\ m.act \in Nat
      BY <1>3 DEF Messages
    <2> QED BY <2>1 DEF Answers, Event, Ack, Echo
  <1> HIDE DEF event, ack
  <1>5. v \in Seq(Answers) /\ (m.id \in stored => v = down) /\ (m.id \notin stored => Adds(v, down, event))
    <2>1. CASE m.id \in stored
      <3>1. told = <<>>
        BY <2>1
      <3> QED BY <1>1, <2>1, <3>1, ConcatEmptySeq
    <2>2. CASE m.id \notin stored
      <3>1. told = <<event>> /\ <<event>> \in Seq(Answers)
        BY <1>4, <2>2
      <3> HIDE DEF told
      <3>2. v \in Seq(Answers)
        BY <1>1, <3>1, ConcatProperties
      <3>3. Adds(v, down, event)
        BY <1>1, <1>4, <3>1, AddsIs
      <3> QED BY <2>2, <3>2, <3>3
    <2> QED BY <2>1, <2>2
  <1> HIDE DEF v
  <1>6. Adds(down', v, ack)
    BY <1>2, <1>4, <1>5, AddsIs
  <1>7. /\ Ordered(up, down, stored, client.ids) /\ heeded \in Nat /\ crossed \in BOOLEAN
        /\ Heeds(client, seen, awaited, heeded, crossed)
        /\ ~Sighted(client) => Silent(up, down)
        /\ Numbered(client, seen, awaited, acts)
    BY <1>1 DEF Answered
  <1>8. Ordered(up', v, st, client.ids) /\ Awaited(up', v, st) = awaited
    <2>1. CASE m.id \in stored
      <3>1. st = stored /\ v = down
        BY <1>5, <2>1
      <3> HIDE DEF st
      <3> QED BY <1>3, <1>7, <2>1, <3>1, DroppedIs
    <2>2. CASE m.id \notin stored
      <3>1. Agreed(Awaited(up, down, stored))
        BY <1>7 DEF Heeds, Agreed
      <3>2. st = stored \cup {event.id}
        BY <1>4
      <3>3. Moves(event, up', up, v, down) /\ event.id \notin stored
        BY <1>3, <1>4, <1>5, <2>2 DEF Moves
      <3> HIDE DEF st
      <3>4. /\ Ordered(up', v, stored \cup {event.id}, client.ids)
            /\ Awaited(up', v, stored \cup {event.id}) = Awaited(up, down, stored)
        <4> DEFINE t == up'
        <4>1. /\ Ordered(up, down, stored, client.ids) /\ Agreed(Awaited(up, down, stored))
              /\ Moves(event, t, up, v, down) /\ event.id \notin stored /\ client.ids \in Nat
          BY <1>1, <1>7, <3>1, <3>3
        <4> HIDE DEF t, awaited, told
        <4>2. /\ Ordered(t, v, stored \cup {event.id}, client.ids)
              /\ Awaited(t, v, stored \cup {event.id}) = Awaited(up, down, stored)
          BY <4>1, EchoedIs
        <4> QED BY <4>2 DEF t
      <3> QED BY <3>2, <3>4
    <2> QED BY <2>1, <2>2
  <1> HIDE DEF st, awaited
  <1>9. Ordered(up', down', st, client.ids) /\ Awaited(up', down', st) = awaited
    BY <1>4, <1>6, <1>8, ToldIs
  <1>10. Sighted(client)
    BY <1>2, <1>7 DEF Silent
  <1>11. Answered(client, seen, up', down', st, heeded, crossed, acts)
    BY <1>7, <1>9, <1>10 DEF Answered
  <1> QED BY <1>1, <1>2, <1>11 DEF ConvergeInv, Permitted, Accepts, Allowed

LEMMA PeerCopiesConverges ==
    ASSUME ConvergeInv, GuardInv', NEW c \in Contents, PeerCopies(c)
    PROVE  ConvergeInv'
  <1> DEFINE event == Event(FALSE, 0, c, 0)
  <1>1. /\ client \in Clients /\ Watched(client, seen) /\ Permitted(client)
        /\ down \in Seq(Answers)
        /\ Answered(client, seen, up, down, stored, heeded, crossed, acts)
        /\ (due.known /\ ~crossed) => Brought(client, seen, coming, due.content)
    BY ConvergeIs
  <1>2. /\ down' = Append(down, event)
        /\ UNCHANGED <<client, seen, coming, settings, up, stored, acts, heeded, crossed, due>>
    BY DEF PeerCopies, os, ghosts
  <1>3. event \in Answers /\ event.type = "event" /\ ~Echo(event)
    BY DEF Event, Answers, Echo
  <1> HIDE DEF event
  <1>4. Adds(down', down, event)
    <2>1. down' = down \o <<event>>
      BY <1>1, <1>2, <1>3, AppendIsConcat
    <2> QED BY <1>1, <1>3, <2>1, AddsIs
  <1>5. Answered(client, seen, up, down', stored, heeded, crossed, acts)
    <2>1. Ordered(up, down, stored, client.ids)
      BY <1>1 DEF Answered
    <2>2. /\ Ordered(up, down', stored, client.ids)
          /\ Awaited(up, down', stored) = Awaited(up, down, stored)
          /\ Silent(up, down) => Silent(up, down')
      BY <1>3, <1>4, <2>1, ToldIs
    <2> QED BY <1>1, <2>2 DEF Answered
  <1> QED BY <1>1, <1>2, <1>5 DEF ConvergeInv, Permitted, Accepts, Allowed

LEMMA ConvergeStarts == Init => ConvergeInv
  <1> SUFFICES ASSUME Init PROVE ConvergeInv
    OBVIOUS
  <1>1. /\ client = [New EXCEPT !.baseline = TRUE] /\ seen = User(Nothing, 0)
        /\ up = <<>> /\ down = <<>> /\ stored = {} /\ acts = 0 /\ heeded = 0 /\ crossed = FALSE
        /\ due = [known |-> FALSE]
    BY DEF Init
  <1>2. /\ client.write = None /\ client.polling = None /\ client.event = None /\ client.ids = 0
        /\ seen.act = 0 /\ ~due.known
    BY <1>1 DEF New, User
  <1>3. Watched(client, seen) /\ Permitted(client)
    BY <1>2, IdleGoes
  <1>4. DOMAIN <<>> = {}
    OBVIOUS
  <1>5. /\ Own(<<>>) = {} /\ Fresh(<<>>, {}) = {} /\ Awaited(<<>>, <<>>, {}) = {}
        /\ Silent(<<>>, <<>>)
    BY <1>4 DEF Own, Fresh, Awaited, Silent
  <1>6. Ordered(<<>>, <<>>, {}, 0)
    BY <1>4, <1>5 DEF Ordered
  <1>7. Heeds(client, seen, {}, 0, FALSE) /\ Numbered(client, seen, {}, 0)
    BY <1>2 DEF Heeds, Numbered
  <1>8. Answered(client, seen, up, down, stored, heeded, crossed, acts)
    BY <1>1, <1>2, <1>5, <1>6, <1>7 DEF Answered
  <1> QED BY <1>2, <1>3, <1>8, GuardStarts DEF ConvergeInv

LEMMA ConvergeStep ==
    ASSUME ~confused', ConvergeInv, [Next]_vars
    PROVE  ConvergeInv'
  <1>0. GuardInv'
    BY GuardStep DEF ConvergeInv
  <1>1. CASE Work
    <2>1. CASE Poll
      BY <1>0, <2>1, PollConverges
    <2>2. CASE Land
      BY <1>0, <2>2, LandConverges
    <2>3. CASE Store
      BY <1>0, <2>3, StoreConverges
    <2>4. CASE Reconnect
      BY <1>0, <2>4 DEF ConvergeInv, Reconnect, os, ghosts, Permitted, Accepts, Allowed
    <2>5. CASE AckExpires
      BY <1>0, <2>5, AckExpiresConverges
    <2>6. ASSUME NEW read \in BOOLEAN,
                 \/ Start(read) \/ Paste(read)
                 \/ \E ignored \in BOOLEAN : SourceAnswered(ignored, read)
          PROVE  ConvergeInv'
      BY <1>0, <2>6, StartConverges, PasteConverges, SourceAnsweredConverges
    <2>7. ASSUME NEW r \in Results, Hear(r) \/ RetryWrite(r)
          PROVE  ConvergeInv'
      BY <1>0, <2>7, HearConverges, RetryWriteConverges
    <2> QED BY <1>1, <2>1, <2>2, <2>3, <2>4, <2>5, <2>6, <2>7 DEF Work
  <1>2. CASE Disconnect
    BY <1>0, <1>2, DisconnectConverges
  <1>3. CASE Stop
    BY <1>0, <1>3, StopConverges
  <1>4. ASSUME NEW c \in Shown, Copy(c) PROVE ConvergeInv'
    BY <1>0, <1>4, CopyConverges
  <1>5. ASSUME NEW c \in Contents, PeerCopies(c) PROVE ConvergeInv'
    BY <1>0, <1>5, PeerCopiesConverges
  <1>6. ASSUME NEW c \in Contents, NEW own \in BOOLEAN, NEW r \in Results, Select(c, own, r)
        PROVE  ConvergeInv'
    BY <1>0, <1>6, SelectConverges
  <1>7. ASSUME NEW s \in [sending : {"all", "some", "nobody", "deferred"},
                          receiving : {"all", "blocked", "paused"}], ChangeSettings(s)
        PROVE  ConvergeInv'
    BY <1>0, <1>7, ChangesConverge DEF Sendings
  <1>8. ASSUME NEW x \in {"some", "nobody", "deferred"}, ChangeDevices(x) PROVE ConvergeInv'
    BY <1>0, <1>8, ChangesConverge DEF Sendings
  <1>9. CASE UNCHANGED vars
    BY <1>0, <1>9 DEF vars, os, hub, ghosts, ConvergeInv, Permitted, Accepts, Allowed
  <1> QED BY <1>1, <1>2, <1>3, <1>4, <1>5, <1>6, <1>7, <1>8, <1>9 DEF Next

\* Every echo still to come is of an older act than the last the client knows of, or is
\* the last submitted; a write in progress is for what is due, or will find the user's copy:
\* as long as the client has not lost track of its own writes.
THEOREM ConvergeInvariant == Spec => [](confused \/ ConvergeInv)
  <1>1. (confused \/ ConvergeInv) /\ [Next]_vars => (confused \/ ConvergeInv)'
    BY ConvergeStep, ConfusedStays
  <1> QED BY ConvergeStarts, <1>1, PTL DEF Spec

\* The clipboards converge (sync-service.js, applyRemoteEvent and its echoes): when all is
\* quiet, a client that has not lost track of its own writes shows what is due, the last
\* event of the hub's stream or what the user has copied or selected since; nothing is said
\* after a copy that was sent after a selection (crossed), nor where it is not known what is due.
THEOREM CopiesConverge == Spec => []Converges
  <1>1. confused \/ ConvergeInv => Converges
    BY DEF ConvergeInv, Converges, Quiet, Brought, Final
  <1> QED BY ConvergeInvariant, <1>1, PTL
=============================================================================
