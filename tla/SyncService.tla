----------------------------- MODULE SyncService -----------------------------
(***************************************************************************)
(* A client's sync service (src/client/sync-service.js, loop-guard.js): it  *)
(* polls the clipboard, sends what the user has copied, writes what arrives *)
(* and must tell the two apart by content alone, while its own writes may   *)
(* be seen late, reads fail, messages get lost and answers are late.        *)
(*                                                                          *)
(* The fields of the class are those of the record client.  Its methods are *)
(* operators from one such record to the next, so that a step is the whole  *)
(* handler.  The clipboard of the operating system and the hub's ordered    *)
(* stream of events are the environment.                                    *)
(***************************************************************************)
EXTENDS Naturals, Sequences, FiniteSets

CONSTANTS
    Contents,       \* what can be copied; stands for its hash
    Nothing,        \* an empty clipboard, no hash
    Look,           \* what a snapshot shows: an image may be encoded differently
    ReadsAs,        \* what is read back after a write
    MaxAttempts,    \* remoteWriteMaxAttempts
    MaxUnconfirmed, \* MAX_UNCONFIRMED_WRITES
    MaxActs,        \* bound: copies and selections of the user
    MaxPeers,       \* bound: events of other devices
    MaxLate,        \* bound: writes that are seen late
    MaxFaults,      \* bound: reads and writes that fail
    MaxDrops,       \* bound: messages and connections lost, acknowledgements late
    MaxChanges      \* bound: changes of the settings, restarts

ASSUME SyncAssumption ==
    /\ Nothing \notin Contents
    /\ ReadsAs \in [Contents \cup {Nothing} -> Contents \cup {Nothing}]
    /\ ReadsAs[Nothing] = Nothing
    /\ \A c \in Contents : Look[ReadsAs[c]] = Look[c] /\ Look[c] # Look[Nothing]
    /\ \A c, d \in Contents : Look[c] = Look[d] => ReadsAs[c] = ReadsAs[d]
    /\ MaxUnconfirmed <= 2
    /\ {MaxAttempts, MaxUnconfirmed, MaxActs, MaxPeers, MaxLate, MaxFaults,
        MaxDrops, MaxChanges} \subseteq Nat

VARIABLES
    client,         \* the fields of ClipboardSyncService, see New
    seen,           \* what the clipboard shows: content, and who put it there
    coming,         \* writes that were made and are not seen yet
    settings,       \* sending: "all", "some" (a route), "nobody", "deferred";
                    \* receiving: "all", "blocked" (by the rules), "paused"
    online,         \* sendClipboard finds an open connection
    up, down,       \* underway to the hub, and from it
    stored,         \* ids the hub has stored
    asks,           \* the source application is asked for before a copy is sent
    acts,           \* history: copies and selections of the user so far
    heeded,         \* history: the last of them that the client knows of
    crossed,        \* history: a copy was sent after a selection had followed it
    due,            \* history: what the clipboard ought to show in the end
    confused,       \* history: the client has lost track of its own writes, see Confused
                    \* and Blind
    peers, late, faults, drops, changes     \* counters of the bounds

os == <<seen, coming>>
hub == <<online, up, down, stored>>
ghosts == <<acts, heeded, crossed, due, confused>>
bounds == <<peers, late, faults, drops, changes>>
vars == <<client, os, settings, asks, hub, ghosts, bounds>>

None == [kind |-> "none"]

\* Who put a content on the clipboard: the user, by his nth act, or the client.
User(c, n) == [content |-> c, act |-> n]
Written(c) == [content |-> c, act |-> 0]

Shown == Contents \cup {Nothing}

\* The matcher of a write of c, applied to a snapshot s.
Same(c, s) == s # Nothing /\ Look[c] = Look[s]

New == [lastLocal |-> Nothing, lastObserved |-> Nothing, baseline |-> FALSE,
        guard |-> {}, waiting |-> {}, event |-> None, submitted |-> 0,
        evidence |-> <<>>, write |-> None, polling |-> None, stopped |-> FALSE,
        ids |-> 0, tokens |-> 0]

-----------------------------------------------------------------------------
(* What the client knows of a snapshot s.                                   *)

EvidenceFor(k, s) == {i \in DOMAIN k.evidence : Same(k.evidence[i].content, s)}

Pending(k) == k.write # None /\ k.write.status = "pending"

\* isKnownWriteObservation; isKnownSnapshot and acceptPrevious come to the same.
Known(k, s) ==
    \/ s = k.lastObserved
    \/ EvidenceFor(k, s) # {}
    \/ /\ Pending(k)
       /\ \/ k.write.hasObservation /\ s = k.write.observed
          \/ k.write.hasWritten /\ Same(k.write.content, s)

-----------------------------------------------------------------------------
(* The methods that change the fields.                                      *)

\* this.generation += 1 concerns a poll that waits for its source application.
Outdated(k) == IF k.polling = None THEN k ELSE [k EXCEPT !.polling.stale = TRUE]

Cancel(k) == [k EXCEPT !.write = None]      \* cancelWrite

\* consumeWriteEvidence
Consume(k, s) ==
    LET found == EvidenceFor(k, s)
    IN  IF found = {} THEN k
        ELSE LET i == CHOOSE n \in found : \A m \in found : m <= n
             IN  [k EXCEPT !.evidence = SubSeq(@, i + 1, Len(@))]

\* rememberKnownSnapshot
Remember(k, s) ==
    LET o == IF s = k.lastObserved THEN k ELSE Outdated(k)
        r == [o EXCEPT !.lastObserved = s, !.lastLocal = s, !.baseline = TRUE]
        w == IF Pending(r)
             THEN [r EXCEPT !.write.observed = s, !.write.hasObservation = TRUE] ELSE r
    IN  Consume(w, s)

\* localEvent, the copy to be sent, with the id it gets, the devices it is for and, for
\* the properties, the user's act that made it.
Copied(k, s, n, route) ==
    [kind |-> "event", content |-> s, act |-> n, id |-> k.ids + 1, route |-> route]

\* Mutant: a new copy does not reset the loop guard.
NewLocalKeepsGuard(k, s) ==
    [Cancel(Outdated(k)) EXCEPT
        !.evidence = <<>>, !.submitted = 0, !.lastLocal = Nothing,
        !.lastObserved = s, !.waiting = {},
        !.event = IF s = Nothing THEN None ELSE Copied(k, s, seen.act, "none"),
        !.ids = k.ids + 1]

\* observeNewLocalSnapshot
NewLocal(k, s) ==
    [Cancel(Outdated(k)) EXCEPT
        !.evidence = <<>>, !.submitted = 0, !.lastLocal = Nothing, !.guard = {},
        !.lastObserved = s, !.waiting = {},
        !.event = IF s = Nothing THEN None ELSE Copied(k, s, seen.act, "none"),
        !.ids = k.ids + 1]

\* confirmWrite
Confirm(k, s) ==
    [Outdated(k) EXCEPT
        !.guard = @ \cup {k.write.content, s}, !.lastLocal = s, !.lastObserved = s,
        !.event = None, !.waiting = {}, !.baseline = TRUE, !.evidence = <<>>,
        !.write.status = "succeeded", !.write.timer = FALSE, !.write.actual = s]

\* acknowledgeLocalEvent
Acknowledge(k, id) ==
    IF k.event = None \/ k.event.id # id THEN k
    ELSE LET a == [k EXCEPT !.waiting = @ \ {k.event.content}]
         IN  IF k.lastObserved = k.event.content
             THEN [a EXCEPT !.lastLocal = k.event.content, !.baseline = TRUE] ELSE a

Allowed(own) == own \/ settings.receiving # "blocked"       \* isReceiveAllowed
Accepts(own) == Allowed(own) /\ settings.receiving # "paused"

\* scheduleClipboardWriteRetry
Retry(k) == IF k.write.attempt >= MaxAttempts
            THEN [k EXCEPT !.write.status = "failed", !.write.timer = FALSE]
            ELSE [k EXCEPT !.write.timer = TRUE]

-----------------------------------------------------------------------------
(* Writing.  A step has a result r: how its reads and its write turn out.   *)

Results == [before : BOOLEAN, write : {"seen", "late", "fails"}, after : BOOLEAN]
Good == [before |-> TRUE, write |-> "seen", after |-> TRUE]

\* What a step changes: the client, the clipboard, and what it has sent.
OnlyClient(k) == [client |-> k, seen |-> seen, coming |-> coming, sent |-> <<>>]

\* unconfirmedWrites without that of the write with the given token, of which there is
\* at most one.
Others(found, token) ==
    LET own == {i \in DOMAIN found : found[i].token = token}
        n == CHOOSE i \in own : TRUE
    IN  IF own = {} THEN found
        ELSE SubSeq(found, 1, n - 1) \o SubSeq(found, n + 1, Len(found))

\* writeEvent: evidence of the write is kept until it is read back.
Evidenced(k) ==
    [k EXCEPT !.evidence = Append(Others(@, k.write.token),
                                  [token |-> k.write.token, content |-> k.write.content]),
              !.write.hasWritten = TRUE]

\* applyClipboardWrite from the write on.
Perform(k, r) ==
    IF r.write = "fails" THEN OnlyClient(Retry(k))
    ELSE LET e    == Evidenced(k)
             put  == Written(ReadsAs[k.write.content])
             slow == r.write = "late" \/ coming # <<>>
             now  == IF slow THEN seen ELSE put
             s    == now.content
             next == CASE r.after /\ Same(k.write.content, s) -> Confirm(e, s)
                       [] r.after /\ ~Same(k.write.content, s) /\ ~Known(e, s) -> NewLocal(e, s)
                       [] OTHER -> Retry(e)
         IN  [client |-> next, seen |-> now, sent |-> <<>>,
              coming |-> IF slow THEN Append(coming, put) ELSE coming]

\* A retry finds neither what it found before nor a write of its own.
Changed(k, s, knownWrite) ==
    /\ k.write.attempt > 1 /\ ~k.write.accept /\ ~knownWrite
    /\ ~k.write.hasObservation \/ s # k.write.observed

\* There is no room for the evidence of another write.
Full(k) ==
    /\ Len(k.evidence) >= MaxUnconfirmed
    /\ \A i \in DOMAIN k.evidence : k.evidence[i].token # k.write.token

\* applyClipboardWrite
Apply(k, r) ==
    LET s == seen.content
        o == IF r.before /\ k.write.accept THEN Remember(k, s) ELSE k
        knownWrite == r.before /\ EvidenceFor(o, s) # {}
        e == IF r.before /\ ~Known(o, s) THEN [o EXCEPT !.evidence = <<>>] ELSE o
        m == IF knownWrite THEN Remember(e, s) ELSE e
        w == [m EXCEPT !.write.observed = s, !.write.hasObservation = TRUE]
    IN  IF ~Pending(k) THEN OnlyClient(k)
        ELSE IF k.write.remote /\ ~Accepts(k.write.own) THEN OnlyClient(Cancel(k))
        ELSE IF /\ k.write.attempt > 1 /\ r.before
                /\ k.write.hasWritten /\ Same(k.write.content, s) THEN OnlyClient(Confirm(k, s))
        ELSE IF r.before /\ k.write.accept /\ ~Known(k, s) THEN OnlyClient(NewLocal(k, s))
        ELSE IF ~r.before THEN OnlyClient(Retry(k))
        ELSE IF Changed(e, s, knownWrite) THEN OnlyClient(NewLocal(e, s))
        ELSE IF Full(w) THEN OnlyClient(Retry(w))
        ELSE Perform(w, r)

\* beginWrite
Begin(k, c, own, remote, accept, r) ==
    LET i == Cancel(Outdated(k))
    IN  IF k.stopped THEN OnlyClient(i) ELSE Apply([i EXCEPT
          !.tokens = k.tokens + 1,
          !.write = [kind |-> "write", content |-> c, own |-> own, remote |-> remote,
                     accept |-> accept, status |-> "pending", attempt |-> 1,
                     timer |-> FALSE, hasWritten |-> FALSE, actual |-> Nothing, token |-> k.tokens + 1,
                     observed |-> k.lastObserved, hasObservation |-> k.baseline]], r)

-----------------------------------------------------------------------------
(* Reading and sending.                                                     *)

\* Whose act the snapshot s is: the same copy may be sent again for other devices.
Author(k, s) == IF k.event # None /\ k.event.content = s THEN k.event.act ELSE seen.act

\* sendLocalSnapshot
Send(k, s) ==
    LET route == settings.sending
        again == k.event # None /\ k.event.route \in {"none", route}
        e == IF again THEN [k EXCEPT !.event.route = route]
             ELSE [k EXCEPT !.event = Copied(k, s, Author(k, s), route), !.ids = k.ids + 1]
    IN  CASE route = "nobody" -> OnlyClient([k EXCEPT !.lastLocal = s])
          [] route = "deferred" -> OnlyClient(k)
          [] OTHER ->
               IF online
               THEN [OnlyClient([e EXCEPT !.submitted = e.event.id, !.waiting = @ \cup {s}])
                       EXCEPT !.sent = <<[id |-> e.event.id, content |-> s, act |-> Author(k, s)]>>]
               ELSE OnlyClient(e)

\* processLocalSnapshot, once the snapshot is not one of the client's own writes.
Local(k, s) ==
    LET n == IF s = k.lastObserved THEN k ELSE NewLocal(k, s)
        set == [n EXCEPT !.lastLocal = s, !.baseline = TRUE]
    IN  IF s = Nothing THEN OnlyClient([set EXCEPT !.waiting = {}])
        ELSE IF ~n.baseline THEN OnlyClient(set)
        ELSE IF s = n.lastLocal \/ s \in n.waiting THEN OnlyClient(n)
        ELSE IF s \in n.guard THEN OnlyClient([set EXCEPT !.guard = @ \ {s}])
        ELSE IF settings.sending = "nobody" THEN OnlyClient(set)
        ELSE IF asks THEN OnlyClient([n EXCEPT !.polling =
                             [kind |-> "polling", content |-> s, stale |-> FALSE]])
        ELSE Send(n, s)

\* unconfirmedWriteMatches
Recognised(k, s) == EvidenceFor(k, s) # {}

\* processLocalSnapshot
Process(k, s) ==
    LET c == IF Pending(k) /\ k.write.remote /\ ~Accepts(k.write.own) THEN Cancel(k) ELSE k
    IN  IF Pending(c) /\ c.write.hasWritten /\ Same(c.write.content, s)
        THEN OnlyClient(Confirm(c, s))
        ELSE IF (Pending(c) /\ c.write.accept /\ Known(c, s)) \/ Recognised(c, s)
        THEN OnlyClient(Remember(c, s)) ELSE Local(c, s)

-----------------------------------------------------------------------------
(* Steps.                                                                   *)

Due(c) == [known |-> TRUE, content |-> c]
Unknown == [known |-> FALSE]

\* A write is late after a copy of the user that no poll has found: the poll that finds it
\* lets go of the evidence.  Or what is shown looks like the write, and confirms it, though
\* it is the user's, or other writes are still to come.
Confused(w) ==
    /\ Len(w.coming) > Len(coming)
    /\ \/ seen.act # 0 /\ client.lastObserved # seen.content
       \/ /\ Same(w.coming[Len(w.coming)].content, seen.content)
          /\ seen.act # 0 \/ coming # <<>>

\* The client finds a copy, which is now what is due.
Noticed(w) ==
    /\ w.client.ids > client.ids /\ w.client.lastObserved # client.lastObserved
    /\ seen.act # 0

GivenUp(w) == w.client.write # None /\ w.client.write.status = "failed"

\* What is due after a step that should make d due, for the sake of the user's act n;
\* a write that is given up is not due any more.
Yields(step, d, n, blind) ==
    \E w \in {step} :
       /\ client' = w.client /\ seen' = w.seen /\ coming' = w.coming
       /\ up' = up \o w.sent
       /\ due' = CASE Noticed(w) -> Due(seen.content)
                   [] ~Noticed(w) /\ GivenUp(w) -> Unknown
                   [] OTHER -> d
       /\ heeded' = IF Noticed(w) THEN seen.act ELSE n
       /\ crossed' = (crossed \/ \E i \in DOMAIN w.sent : w.sent[i].act < heeded')
       /\ confused' = (confused \/ blind \/ Confused(w))

Brings(step, d, n) == Yields(step, d, n, FALSE)

Becomes(step, d) == Brings(step, d, heeded)

Uses(r) ==
    /\ late' = late + (IF r.write = "late" THEN 1 ELSE 0) /\ late' <= MaxLate
    /\ faults' = faults + Cardinality({x \in {1, 2, 3} :
                    (x = 1 /\ ~r.before) \/ (x = 2 /\ ~r.after) \/ (x = 3 /\ r.write = "fails")})
    /\ faults' <= MaxFaults

Init ==
    /\ seen = User(Nothing, 0) /\ coming = <<>>
    /\ client = [New EXCEPT !.baseline = TRUE]
    /\ settings \in [sending : {"all", "deferred"}, receiving : {"all"}]
    /\ online = TRUE /\ up = <<>> /\ down = <<>> /\ stored = {}
    /\ asks \in BOOLEAN /\ acts = 0 /\ heeded = 0 /\ due = [known |-> FALSE]
    /\ crossed = FALSE /\ confused = FALSE
    /\ peers = 0 /\ late = 0 /\ faults = 0 /\ drops = 0 /\ changes = 0

\* The poll timer.  While the source application is asked for, it does nothing;
\* a read that fails does nothing either.
Poll ==
    /\ client.polling = None /\ ~client.stopped
    /\ Becomes(Process(client, seen.content), due)
    /\ UNCHANGED <<settings, asks, online, down, stored, acts, bounds>>

\* The source application is known, and may be one the settings ignore.
SourceAnswered(ignored, read) ==
    /\ client.polling # None
    /\ faults' = faults + (IF read THEN 0 ELSE 1) /\ faults' <= MaxFaults
    /\ LET p == client.polling
           k == [client EXCEPT !.polling = None]
       IN  Becomes(IF p.stale \/ ~read THEN OnlyClient(k)
                   ELSE IF seen.content # p.content THEN Process(k, seen.content)
                   ELSE IF ignored THEN OnlyClient([k EXCEPT !.lastLocal = p.content])
                   ELSE Send(k, p.content), due)
    /\ UNCHANGED <<settings, asks, online, down, stored, acts, peers, late, drops, changes>>

\* A retry that has no observation to compare with (a baseline could not be read) takes
\* what it finds for a copy of the user; it is blind if that is what the client has
\* written, or if something it has written is still to come.
Unseeing(r) ==
    /\ r.before /\ ~client.write.accept /\ ~client.write.hasObservation
    /\ EvidenceFor(client, seen.content) = {}
Blind(r) == Unseeing(r) /\ (seen.act = 0 \/ coming # <<>>)

\* The timer of a write's next attempt.
RetryWrite(r) ==
    /\ client.write # None /\ client.write.timer /\ Uses(r)
    /\ Yields(Apply([client EXCEPT !.write.timer = FALSE, !.write.attempt = @ + 1], r),
              IF Unseeing(r) THEN Due(seen.content) ELSE due,
              IF Unseeing(r) THEN seen.act ELSE heeded, Blind(r))
    /\ UNCHANGED <<settings, asks, online, down, stored, acts, peers, drops, changes>>

\* Mutant: the copy the client remembers, which a write from a peer makes it forget.
EchoIsDueForCopy(m) == client.event # None /\ client.event.id = m.id

\* An own event is the last one submitted, with no copy or selection since.
EchoIsDue(m) == m.id = client.submitted

\* applyRemoteEvent, for an event of this device.
HearOwn(m, r) ==
    LET k == Acknowledge(client, m.id)
        n == [k EXCEPT !.submitted = 0]
        s == seen.content
        there == /\ r.before /\ s = m.content /\ n.evidence = <<>>
                 /\ ~(n.write # None /\ n.write.remote /\ n.write.hasWritten)
    IN  IF ~EchoIsDue(m) THEN OnlyClient(k)
        ELSE IF r.before /\ ~Known(n, s) THEN OnlyClient(NewLocal(n, s))
        ELSE IF ~Accepts(TRUE) THEN OnlyClient(n)
        ELSE IF there THEN OnlyClient(Cancel(n))
        ELSE Begin(n, m.content, TRUE, TRUE, TRUE, r)

\* The user has done nothing since he made the event m of this device, or has copied the
\* same once more.
Latest(m) == heeded <= m.act /\ (seen.act <= m.act \/ seen.content = m.content)

\* The copy of the event m was sent once more for other devices, under another id whose
\* echo is still to come.
SentAnew(m) ==
    \/ \E i \in DOMAIN up : up[i].act = m.act /\ up[i].id # m.id
    \/ \E i \in DOMAIN down : /\ down[i].type = "event" /\ down[i].own
                            /\ down[i].act = m.act /\ down[i].id # m.id

\* The next event of the stream, or acknowledgement, arrives.
Hear(r) ==
    /\ down # <<>> /\ down' = Tail(down) /\ Uses(r)
    /\ LET m == Head(down)
       IN  CASE m.type = "ack" -> r = Good /\ Becomes(OnlyClient(Acknowledge(client, m.id)), due)
             [] m.type = "event" /\ m.own ->
                  Becomes(HearOwn(m, r),
                     CASE ~Latest(m) -> due
                       [] Latest(m) /\ Accepts(TRUE) /\ ~SentAnew(m) -> Due(m.content)
                       [] OTHER -> Unknown)
             [] m.type = "event" /\ ~m.own /\ Accepts(FALSE) ->
                  Becomes(Begin(client, m.content, FALSE, TRUE, FALSE, r), Due(m.content))
             [] OTHER -> r = Good /\ Becomes(OnlyClient(client), due)
    /\ UNCHANGED <<settings, asks, online, stored, acts, peers, drops, changes>>

\* beginHistoryWrite: the user selects an event of the history.
Select(c, own, r) ==
    /\ acts < MaxActs /\ acts' = acts + 1 /\ Uses(r)
    /\ LET w == Begin([client EXCEPT !.submitted = 0], c, own, FALSE, FALSE, r)
       IN  IF client.stopped THEN r = Good /\ Becomes(w, due) ELSE Brings(w, Due(c), acts')
    /\ UNCHANGED <<settings, asks, online, down, stored, peers, drops, changes>>

\* isWriteCurrent, with confirm: what was selected is pasted only if it is still there.
Paste(read) ==
    LET k == client
        s == seen.content
    IN  /\ k.write # None /\ ~k.write.remote /\ k.write.status = "succeeded"
        /\ ~(read /\ s = k.write.actual)
        /\ Becomes(OnlyClient(IF read /\ ~Known(k, s) THEN NewLocal(k, s) ELSE Cancel(k)), due)
        /\ faults' = faults + (IF read THEN 0 ELSE 1) /\ faults' <= MaxFaults
        /\ UNCHANGED <<settings, asks, online, down, stored, acts, peers, late, drops, changes>>

\* updatePolicy
ChangeSettings(s) ==
    /\ changes < MaxChanges /\ changes' = changes + 1 /\ s # settings
    /\ s.sending = settings.sending \/ s.receiving = settings.receiving    \* bound
    /\ settings' = s
    /\ LET w == client.write
           undone == /\ w # None
                     /\ \/ w.remote /\ s.receiving = "paused"
                        \/ ~w.own /\ s.receiving = "blocked"
       IN  /\ client' = IF undone THEN Cancel(Outdated(client)) ELSE Outdated(client)
           /\ due' = IF undone /\ w.status = "pending" THEN Unknown ELSE due
    /\ UNCHANGED <<os, asks, hub, acts, heeded, crossed, confused, peers, late, faults, drops>>

\* The list of devices changes, and with it the route that the rules allow; the
\* service is not told.
ChangeDevices(x) ==
    /\ changes < MaxChanges /\ changes' = changes + 1
    /\ settings.sending # "all" /\ x # settings.sending
    /\ settings' = [settings EXCEPT !.sending = x]
    /\ UNCHANGED <<client, os, asks, hub, ghosts, peers, late, faults, drops>>

\* stop, as the connection's settings change; the hub's client is stopped as well.
Stop ==
    /\ ~client.stopped /\ changes < MaxChanges /\ changes' = changes + 1
    /\ client' = [Cancel(client) EXCEPT !.stopped = TRUE, !.event = None, !.submitted = 0,
                                       !.waiting = {}, !.polling = None]
    /\ due' = IF Pending(client) THEN Unknown ELSE due
    /\ online' = FALSE /\ up' = <<>> /\ down' = <<>>
    /\ UNCHANGED <<os, settings, asks, stored, acts, heeded, crossed, confused, peers, late, faults, drops>>

\* start, establishLocalBaseline: what the clipboard shows is not to be sent.
Start(read) ==
    /\ client.stopped
    /\ faults' = faults + (IF read THEN 0 ELSE 1) /\ faults' <= MaxFaults
    /\ LET k == [client EXCEPT !.stopped = FALSE, !.baseline = FALSE]
           s == seen.content
           e == IF Known(k, s) THEN k ELSE [k EXCEPT !.evidence = <<>>]
       IN  client' = IF read
                     THEN Consume([e EXCEPT !.lastLocal = s, !.lastObserved = s, !.baseline = TRUE], s)
                     ELSE k
    /\ online' = TRUE
    /\ UNCHANGED <<os, settings, asks, up, down, stored, ghosts, peers, late, drops, changes>>

-----------------------------------------------------------------------------
(* The user, the operating system, the hub.                                 *)

\* What the client holds at the moment: a copy of the same content cannot be told
\* apart from it.
Held == {seen.content, client.lastObserved}
          \cup {client.evidence[i].content : i \in DOMAIN client.evidence}
          \cup (IF client.write = None THEN {} ELSE {client.write.content, client.write.observed})
          \cup (IF client.polling = None THEN {} ELSE {client.polling.content})

Distinct(c) == \A h \in Held : Look[h] # Look[c]

\* The user copies.  Writes made before and not seen yet are never seen, as the
\* code has it ("until readback or a distinct local copy resolves it").
Copy(c) ==
    /\ acts < MaxActs /\ acts' = acts + 1 /\ Distinct(c) /\ ReadsAs[c] = c
    /\ seen' = User(c, acts + 1) /\ coming' = <<>> /\ due' = Due(c)
    /\ UNCHANGED <<client, settings, asks, hub, heeded, crossed, confused, bounds>>

\* A late write is seen.
Land ==
    /\ coming # <<>> /\ seen' = Head(coming) /\ coming' = Tail(coming)
    /\ UNCHANGED <<client, settings, asks, hub, ghosts, bounds>>

Event(own, id, c, n) == [type |-> "event", own |-> own, id |-> id, content |-> c, act |-> n]
Ack(id) == [type |-> "ack", id |-> id]

\* The hub takes the next event of this device; a known one it acknowledges only.
Store ==
    /\ up # <<>> /\ up' = Tail(up)
    /\ LET m == Head(up)
       IN  /\ stored' = stored \cup {m.id}
           /\ down' = down \o (IF m.id \in stored THEN <<>>
                               ELSE <<Event(TRUE, m.id, m.content, m.act)>>) \o <<Ack(m.id)>>
    /\ UNCHANGED <<client, os, settings, asks, online, ghosts, bounds>>

\* Another device's event.
PeerCopies(c) ==
    /\ peers < MaxPeers /\ peers' = peers + 1 /\ online
    /\ down' = Append(down, Event(FALSE, 0, c, 0))
    /\ UNCHANGED <<client, os, settings, asks, online, up, stored, ghosts,
                   late, faults, drops, changes>>

\* The connection is lost with all that is underway, and comes back.
Disconnect ==
    /\ online /\ drops < MaxDrops /\ drops' = drops + 1
    /\ online' = FALSE /\ up' = <<>> /\ down' = <<>>
    /\ UNCHANGED <<client, os, settings, asks, stored, ghosts, peers, late, faults, changes>>

Reconnect ==
    /\ ~online /\ ~client.stopped /\ online' = TRUE
    /\ UNCHANGED <<client, os, settings, asks, up, down, stored, ghosts, bounds>>

\* Mutant: a copy that was sent counts as underway for ever.
AckLasts == client.waiting # {} /\ UNCHANGED vars

\* pendingAckMs has passed since a copy was sent.
AckExpires ==
    /\ client.waiting # {}
    /\ \/ up = <<>> /\ down = <<>> /\ UNCHANGED drops
       \/ drops < MaxDrops /\ drops' = drops + 1
    /\ client' = [client EXCEPT !.waiting = {}]
    /\ UNCHANGED <<os, settings, asks, hub, ghosts, peers, late, faults, changes>>

-----------------------------------------------------------------------------
Work ==
    \/ Poll \/ Land \/ Store \/ Reconnect \/ AckExpires
    \/ \E read \in BOOLEAN : \/ Start(read) \/ Paste(read)
                            \/ \E ignored \in BOOLEAN : SourceAnswered(ignored, read)
    \/ \E r \in Results : Hear(r) \/ RetryWrite(r)

Next ==
    \/ Work \/ Disconnect \/ Stop
    \/ \E c \in Shown : Copy(c)
    \/ \E c \in Contents : PeerCopies(c)
    \/ \E c \in Contents, own \in BOOLEAN, r \in Results : Select(c, own, r)
    \/ \E s \in [sending : {"all", "some", "nobody", "deferred"},
                 receiving : {"all", "blocked", "paused"}] : ChangeSettings(s)
    \/ \E x \in {"some", "nobody", "deferred"} : ChangeDevices(x)

Spec == Init /\ [][Next]_vars

Fairness ==
    /\ WF_vars(Poll) /\ WF_vars(Land) /\ WF_vars(Store) /\ WF_vars(Reconnect)
    /\ WF_vars(AckExpires)
    /\ WF_vars(\E ignored \in BOOLEAN : SourceAnswered(ignored, TRUE))
    /\ WF_vars(Start(TRUE)) /\ WF_vars(Hear(Good)) /\ WF_vars(RetryWrite(Good))

FairSpec == Spec /\ Fairness

-----------------------------------------------------------------------------
(* Properties.                                                              *)

\* The client does not send what it has written itself, late, retried or encoded anew, so
\* that no event comes back to the devices it came from; unless it has lost track of its
\* writes (confused): one was late after a copy of the user no poll had found (sync-service.js:
\* 409, 346-356) or confirmed by what only looks like it, or a retry had nothing to compare
\* with (536).  And, without exception, the loop guard swallows no copy of the user,
\* though he copies what a peer had sent before.
GuardExact ==
    /\ ~confused => \A i \in DOMAIN up : up[i].act # 0
    /\ (/\ seen.act # 0 /\ ~client.stopped /\ client.baseline
        /\ client.lastObserved = seen.content /\ client.lastLocal # seen.content)
       => seen.content \notin client.guard

\* Nothing is underway, and a poll would change nothing.
Quiet ==
    /\ online /\ ~client.stopped /\ up = <<>> /\ down = <<>> /\ coming = <<>>
    /\ ~Pending(client) /\ client.polling = None /\ client.evidence = <<>>
    /\ client.lastObserved = seen.content /\ client.lastLocal = seen.content

\* When all is quiet the clipboard shows the last event of the hub's stream, or
\* what the user has copied or selected since ("concurrent copies converge"), unless
\* a copy was sent after a selection: its echo is then taken for newer, though
\* sync-service.js:582 says it never replaces a newer copy or selection (crossed); or
\* the client has lost track of its own writes, and may send one as a copy (confused).
\* Nothing is said (due is not known) after a write was given up, or undone by the settings
\* or a stop, nor after an echo that is not applied, or whose copy was sent once more.
Converges ==
    Quiet /\ due.known /\ ~crossed /\ ~confused => Look[due.content] = Look[seen.content]

\* In the end all is quiet: a write does not stay unresolved, and a copy does not
\* stay unsent unless the settings put sending off.
Settles == <>[](settings.sending = "deferred" \/ Quiet)
=============================================================================
