------------------------------ MODULE SyncEngine ------------------------------
(***************************************************************************)
(* The sync engine of the Mac application (SyncEngine.swift), with the      *)
(* handlers of AppModel.swift that call it.  Unlike the sync service it     *)
(* tells its own writes from the user's copies by the change count of the   *)
(* pasteboard, reads a copy once, and sends it again until it is            *)
(* acknowledged or was sent MaxAttempts times.                              *)
(*                                                                          *)
(* Everything runs on one thread, but the user may copy at any moment, also *)
(* between the two looks a poll takes at the pasteboard.  The record engine *)
(* holds the fields of the class; its methods are operators from one such   *)
(* record to what a step changes.                                           *)
(***************************************************************************)
EXTENDS Naturals, Sequences, FiniteSets

CONSTANTS
    Contents,       \* what can be copied; stands for its hash
    Large,          \* the texts that exceed maxSendBytes
    Nothing,        \* an empty pasteboard, or a type that is not synced; no hash
    ReadsAs,        \* what is read back after a write: images are written as PNG
    MaxAttempts,    \* maxSendAttempts
    MaxActs,        \* bound: copies and selections of the user
    MaxPeers,       \* bound: events of other devices
    MaxMishaps      \* bound: reads and writes that fail, full send buffers, connections
                    \* lost, acknowledgements late, changes of the settings and the
                    \* devices, restarts, copies that are repeated or overtake a poll

ASSUME EngineAssumption ==
    /\ Nothing \notin Contents /\ Large \subseteq Contents
    /\ ReadsAs \in [Contents \cup {Nothing} -> Contents \cup {Nothing}]
    /\ ReadsAs[Nothing] = Nothing /\ \A c \in Contents : ReadsAs[ReadsAs[c]] = ReadsAs[c]
    /\ MaxAttempts \in Nat \ {0}
    /\ {MaxActs, MaxPeers, MaxMishaps} \subseteq Nat

VARIABLES
    engine,         \* the fields of SyncEngine, see New
    board,          \* the pasteboard: change count, content, the user's act or 0
    settings,       \* sending: "all", "some" (a route), "nobody", "deferred", "paused";
                    \* receiving: "all", "blocked" (by the rules), "paused"
    online,         \* the session has an open connection
    up, down,       \* underway to the hub, and from it
    stored,         \* what the hub has stored of this device
    acts,           \* history: copies and selections of the user so far
    due,            \* history: what the pasteboard ought to show in the end
    owed,           \* history: the copy on the pasteboard has to reach the hub: "yes", "no",
                    \* or would have to, had it not been "repeated", had it not "overtaken"
                    \* a poll, had an event or selection not been written over it
                    \* ("overwritten": write then drops the copy that waits)
    peers, mishaps, \* counters of the bounds
    drops           \* history: the mishaps that cost a send

hub == <<online, up, down, stored>>
ghosts == <<acts, due, owed>>
bounds == <<peers, mishaps, drops>>
vars == <<engine, board, settings, hub, ghosts, bounds>>

None == [kind |-> "none"]
New == [seen |-> 0, own |-> 0, observed |-> Nothing, submitted |-> 0,
        pending |-> None, ids |-> 0]

\* What a step changes.
Step(e, b, sent) == [engine |-> e, board |-> b, sent |-> sent]

Dropped(e) == [e EXCEPT !.pending = None]

\* Mutant: a send that is repeated gets an id of its own.
RoutedAnew(e, x) == [e EXCEPT !.pending.id = e.ids + 1, !.pending.route = x, !.ids = e.ids + 1]

\* The copy with the devices it is for; other devices make it another event.
Routed(e, x) ==
    IF e.pending.route \in {"none", x} THEN [e EXCEPT !.pending.route = x]
    ELSE [e EXCEPT !.pending.id = e.ids + 1, !.pending.route = x, !.pending.attempts = 0,
                   !.ids = e.ids + 1]

\* The pasteboard still holds the copy.
Current(e, b) == b.count = e.pending.count

Exhausted(p) == p.attempts >= MaxAttempts

\* trySendPending, to the devices x; send returns accepted.
TrySend(e, b, x, accepted) ==
    IF e.pending = None THEN Step(e, b, <<>>)
    ELSE IF ~Current(e, b) \/ x \in {"paused", "nobody"}
    THEN Step(Dropped(e), b, <<>>)
    ELSE IF x = "deferred"
    THEN Step([e EXCEPT !.pending.state = "deferred"], b, <<>>)
    ELSE LET q == Routed(e, x)
             p == q.pending
         IN  IF Exhausted(p) THEN Step(Dropped(q), b, <<>>)
             ELSE IF ~accepted THEN Step([q EXCEPT !.pending.state = "unsent"], b, <<>>)
             ELSE Step([q EXCEPT !.pending.state = "sent", !.pending.attempts = @ + 1,
                                 !.submitted = p.id], b,
                       <<[id |-> p.id, content |-> p.content, act |-> p.act, route |-> p.route]>>)

\* observeLocalChange, for the change count that poll has read; read: the pasteboard
\* can be read, and holds what board shows by now.
Observe(e, b, count, read, accepted) ==
    LET n == [e EXCEPT !.submitted = 0, !.pending = None]
        s == b.content
    IN  IF settings.sending = "paused" THEN Step([n EXCEPT !.observed = Nothing], b, <<>>)
        ELSE IF ~read THEN Step(n, b, <<>>)
        ELSE IF s = Nothing \/ s \in Large THEN Step([n EXCEPT !.observed = s], b, <<>>)
        ELSE IF s = e.observed THEN Step(n, b, <<>>)
        ELSE TrySend([n EXCEPT !.observed = s, !.ids = e.ids + 1,
                        !.pending = [kind |-> "local", count |-> count, content |-> s,
                                     act |-> b.act, id |-> e.ids + 1, route |-> "none",
                                     state |-> "unsent", attempts |-> 0]],
                     b, settings.sending, accepted)

\* Mutant: the change count is taken before the write.
WriteEarly(e, b, c, w) ==
    IF w = "done"
    THEN Step([Dropped(e) EXCEPT !.own = b.count, !.seen = b.count, !.observed = c],
              [count |-> b.count + 1, content |-> ReadsAs[c], act |-> 0], <<>>)
    ELSE Step(e, b, <<>>)

\* write, with its result w: a rejected one has cleared the pasteboard.
Write(e, b, c, w) ==
    LET n == [count |-> b.count + 1, content |-> IF w = "done" THEN ReadsAs[c] ELSE Nothing,
              act |-> 0]
    IN  CASE w = "done" -> Step([Dropped(e) EXCEPT !.own = n.count, !.seen = n.count,
                                                   !.observed = c], n, <<>>)
          [] w = "rejected" -> Step(e, n, <<>>)
          [] w = "invalid" -> Step(e, b, <<>>)

Writes == {"done", "rejected", "invalid"}

\* Mutant: any acknowledgement ends the wait for one.
AcknowledgeAny(e, id) == Dropped(e)

\* handleAck
Acknowledge(e, id) == IF e.pending # None /\ e.pending.id = id THEN Dropped(e) ELSE e

\* clipboardHoldsLastWrite
HoldsLastWrite(e, b) == e.own # 0 /\ b.count = e.own

Accepts(own) == settings.receiving = "all" \/ (own /\ settings.receiving = "blocked")

\* Mutant: an own event is written over a newer copy as well.
EchoIsDueOver(e, b, m) == m.id = e.submitted /\ e.observed # m.content /\ Accepts(TRUE)

\* An own event is written again only over a write that came after the copy.
EchoIsDue(e, b, m) ==
    m.id = e.submitted /\ HoldsLastWrite(e, b) /\ e.observed # m.content /\ Accepts(TRUE)

\* applyRemote, for an event of this device.
HearOwn(e, b, m, w) ==
    LET a == Acknowledge(e, m.id)
        k == IF m.id = a.submitted THEN [a EXCEPT !.submitted = 0] ELSE a
    IN  IF EchoIsDue(a, b, m) THEN Write(k, b, m.content, w) ELSE Step(k, b, <<>>)

-----------------------------------------------------------------------------
(* Steps.                                                                   *)

Due(c) == [known |-> TRUE, content |-> c]

\* After a failure, or a change of the route of a copy underway, until the user's next
\* copy or selection.
Unknown == [known |-> FALSE]

\* The step, with what is due and what is owed after it.
Brings(step, d, o) ==
    \E s \in {step} :
       /\ engine' = s.engine /\ board' = s.board /\ up' = up \o s.sent
       /\ due' = d /\ owed' = o

Costs(n) == mishaps' = mishaps + n /\ mishaps' <= MaxMishaps

\* A send is refused offline, and when too much waits in the connection's buffer:
\* then the copy is left to the next connection or list of devices, and not owed.
Refusal(connected, accepted) == IF connected /\ ~accepted THEN 1 ELSE 0

Init ==
    /\ engine = New /\ board = [count |-> 0, content |-> Nothing, act |-> 0]
    /\ settings \in [sending : {"all", "deferred"}, receiving : {"all"}]
    /\ online = TRUE /\ up = <<>> /\ down = <<>> /\ stored = {}
    /\ acts = 0 /\ due = Due(Nothing) /\ owed = "no"
    /\ peers = 0 /\ mishaps = 0 /\ drops = 0

\* Mutant: what is no new event does not count as seen.
LookedLate(e, b) == IF b.content = e.observed THEN e ELSE [e EXCEPT !.seen = b.count]

\* poll takes note of the change count.
Looked(e, b) == [e EXCEPT !.seen = b.count]

\* poll, when the change count has moved.
Poll(read, accepted) ==
    /\ board.count # engine.seen /\ (accepted => online)
    /\ LET e == Looked(engine, board)
       IN  Brings(IF board.count = e.own THEN Step(e, board, <<>>)
                  ELSE Observe(e, board, board.count, read, accepted),
                  due, IF read /\ accepted = online THEN owed ELSE "no")
    /\ Costs((IF read THEN 0 ELSE 1) + Refusal(online, accepted))
    /\ UNCHANGED <<settings, online, down, stored, acts, peers, drops>>

\* Images are read as PNG.
Copyable(c) == ReadsAs[c] = c

\* The copy c would be owed to the other devices.
Owes(c) ==
    /\ c \in Contents \ Large /\ c # engine.observed
    /\ settings.sending \in {"all", "some", "deferred"}

\* poll, when the user copies between its look at the change count and its reading.
PollOvertaken(c) ==
    /\ board.count # engine.seen /\ board.count # engine.own
    /\ settings.sending # "paused"
    /\ acts < MaxActs /\ acts' = acts + 1 /\ Costs(1) /\ Copyable(c)
    /\ LET b == [count |-> board.count + 1, content |-> c, act |-> acts + 1]
       IN  Brings(Observe(Looked(engine, board), b, board.count, TRUE, FALSE),
                  Due(c), IF Owes(c) THEN "overtaken" ELSE "no")
    /\ UNCHANGED <<settings, online, down, stored, peers, drops>>

\* poll, five seconds after the last send: it was lost, or its answer is late.
Resend(accepted) ==
    /\ board.count = engine.seen /\ (accepted => online)
    /\ engine.pending # None /\ engine.pending.state = "sent"
    /\ drops' = drops + (IF up = <<>> /\ down = <<>> THEN 0 ELSE 1)
    /\ Brings(TrySend(engine, board, settings.sending, accepted), due,
              IF accepted = online THEN owed ELSE "no")
    /\ Costs(drops' - drops + Refusal(online, accepted))
    /\ UNCHANGED <<settings, online, down, stored, acts, peers>>

\* The user has done nothing since he made the copy m.
Latest(m) == m.act = acts

\* handleClipboard and handleAck: the next event or acknowledgement arrives.
Hear(w) ==
    /\ down # <<>> /\ down' = Tail(down) /\ Costs(IF w = "done" THEN 0 ELSE 1)
    /\ LET m == Head(down)
           own == HearOwn(engine, board, m, w)
           unseen == board.count # engine.seen     \* a copy is lost that no poll has found
           written == IF w = "done" /\ ~unseen /\ due.known THEN Due(m.content) ELSE Unknown
           idle == Step(engine, board, <<>>)
       IN  CASE m.type = "ack" ->
                  w = "done" /\ Brings(Step(Acknowledge(engine, m.id), board, <<>>), due, owed)
             [] m.type = "event" /\ m.own ->
                  Brings(own, CASE ~Latest(m) -> due
                                [] Latest(m) /\ Accepts(TRUE) -> written
                                [] OTHER -> Unknown,
                         IF own.board = board THEN owed ELSE "overwritten")
             [] m.type = "event" /\ ~m.own /\ Accepts(FALSE) ->
                  Brings(Write(engine, board, m.content, w), written,
                         IF w = "invalid" THEN owed ELSE "overwritten")
             [] OTHER -> w = "done" /\ Brings(idle, due, owed)
    /\ UNCHANGED <<settings, online, stored, acts, peers, drops>>

\* writeHistory: the user selects an event of the history.
Select(c, w) ==
    /\ acts < MaxActs /\ acts' = acts + 1
    /\ Costs(IF w = "done" THEN 0 ELSE 1)
    /\ Brings(Write([engine EXCEPT !.submitted = 0], board, c, w),
              IF w = "done" THEN Due(c) ELSE Unknown, IF w = "invalid" THEN owed ELSE "overwritten")
    /\ UNCHANGED <<settings, online, down, stored, peers, drops>>

Sending == {"all", "some", "nobody", "deferred", "paused"}

\* applySetting; the engine is not told.
ChangeSettings(s) ==
    /\ Costs(1) /\ s # settings
    /\ s.sending = settings.sending \/ s.receiving = settings.receiving    \* bound
    /\ settings' = s
    /\ owed' = IF s.sending = settings.sending THEN owed ELSE "no"
    /\ due' = IF s.sending = settings.sending \/ engine.pending = None THEN due ELSE Unknown
    /\ UNCHANGED <<engine, board, hub, acts, peers, drops>>

\* handleDevices, whose list may change the route the rules allow; devicesChanged.
ChangeDevices(x, accepted) ==
    /\ {x, settings.sending} \subseteq {"some", "nobody", "deferred"} \/ x = settings.sending
    /\ settings' = [settings EXCEPT !.sending = x]
    /\ online /\ UNCHANGED online /\ Costs(1 + Refusal(TRUE, accepted))
    /\ LET tells == engine.pending # None /\ engine.pending.state # "sent"
       IN  Brings(IF tells THEN TrySend(engine, board, x, accepted) ELSE Step(engine, board, <<>>),
                  due, IF x = "nobody" \/ ~accepted THEN "no" ELSE owed)
    /\ UNCHANGED <<down, stored, acts, peers, drops>>

\* restartConnection, or the application is left and launched again: stop and start,
\* which takes what the pasteboard shows for known.
Restart(relaunched, read) ==
    /\ Costs(IF read THEN 1 ELSE 2)
    /\ LET s == IF read /\ board.content \notin Large THEN board.content ELSE Nothing
       IN  engine' = [engine EXCEPT !.pending = None, !.submitted = 0, !.seen = board.count,
                                    !.observed = s, !.own = IF relaunched THEN 0 ELSE @]
    /\ owed' = "no" /\ online' = FALSE /\ up' = <<>> /\ down' = <<>>
    /\ UNCHANGED <<board, settings, stored, acts, due, peers, drops>>

-----------------------------------------------------------------------------
(* The user, the hub and the connection.                                    *)

\* The user copies something else than the pasteboard shows.
Copy(c) ==
    /\ acts < MaxActs /\ acts' = acts + 1 /\ c # board.content /\ Copyable(c)
    /\ board' = [count |-> board.count + 1, content |-> c, act |-> acts + 1]
    /\ due' = Due(c) /\ owed' = IF Owes(c) THEN "yes" ELSE "no"
    /\ UNCHANGED <<engine, settings, hub, bounds>>

\* The user or an application copies once more what the pasteboard shows.
Repeat ==
    /\ Costs(1) /\ board.content # Nothing
    /\ acts' = IF board.act # 0 /\ board.content = engine.observed THEN acts ELSE acts + 1
    /\ board' = [board EXCEPT !.count = @ + 1, !.act = IF acts' = acts THEN @ ELSE acts']
    /\ due' = Unknown /\ owed' = IF owed \in {"yes", "repeated"} THEN "repeated" ELSE "no"
    /\ UNCHANGED <<engine, settings, hub, peers, drops>>

Event(m) == [type |-> "event", own |-> TRUE, id |-> m.id, content |-> m.content, act |-> m.act]
Ack(id) == [type |-> "ack", id |-> id]

\* The hub takes the next event of this device; a known one it acknowledges only.
Store ==
    /\ up # <<>> /\ up' = Tail(up)
    /\ LET m == Head(up)
           again == \E n \in stored : n.id = m.id
       IN  /\ stored' = IF again THEN stored ELSE stored \cup {m}
           /\ down' = down \o (IF again THEN <<>> ELSE <<Event(m)>>) \o <<Ack(m.id)>>
    /\ UNCHANGED <<engine, board, settings, online, ghosts, bounds>>

\* Another device's event.
PeerCopies(c) ==
    /\ peers < MaxPeers /\ peers' = peers + 1 /\ online
    /\ down' = Append(down, [type |-> "event", own |-> FALSE, id |-> 0, content |-> c, act |-> 0])
    /\ UNCHANGED <<engine, board, settings, online, up, stored, ghosts, mishaps, drops>>

\* The connection is lost with all that is underway.
Disconnect ==
    /\ online /\ Costs(1) /\ drops' = drops + 1
    /\ online' = FALSE /\ up' = <<>> /\ down' = <<>>
    /\ UNCHANGED <<engine, board, settings, stored, ghosts, peers>>

\* It is back: handleHubStatus, hubBecameReady.
Reconnect(accepted) ==
    /\ ~online /\ online' = TRUE /\ Costs(Refusal(TRUE, accepted))
    /\ Brings(TrySend(engine, board, settings.sending, accepted), due,
              IF accepted THEN owed ELSE "no")
    /\ UNCHANGED <<settings, down, stored, acts, peers, drops>>

-----------------------------------------------------------------------------
Next ==
    \/ Store \/ Disconnect \/ Repeat
    \/ \E a \in BOOLEAN :
          \/ Resend(a) \/ Reconnect(a)
          \/ \E x \in Sending : ChangeDevices(x, a)
          \/ \E b \in BOOLEAN : Poll(a, b) \/ Restart(a, b)
    \/ \E w \in Writes : Hear(w) \/ \E c \in Contents : Select(c, w)
    \/ \E c \in Contents \cup {Nothing} : Copy(c)
    \/ \E c \in Contents : PeerCopies(c) \/ PollOvertaken(c)
    \/ \E s \in [sending : Sending, receiving : {"all", "blocked", "paused"}] : ChangeSettings(s)

Spec == Init /\ [][Next]_vars

\* The poll timer runs every 0.3 s, the session reconnects and the hub answers.
Fairness ==
    /\ WF_vars(Poll(TRUE, online)) /\ WF_vars(Resend(online)) /\ WF_vars(Reconnect(TRUE))
    /\ WF_vars(Store) /\ WF_vars(Hear("done"))

FairSpec == Spec /\ Fairness

-----------------------------------------------------------------------------
(* Properties.                                                              *)

\* What the engine has written is never sent as a copy of the user, whatever the
\* order of writes, polls and copies (the loop guard, by change counts).
NoEcho == \A i \in DOMAIN up : up[i].act # 0

\* "resend with the same clientEventId; the Hub de-duplicates" (SyncEngine.swift:112): a
\* copy that is sent again, after a lost connection or a late answer, is stored once for
\* the devices it was for; twice only if the rules made it an event for others in
\* between, which took the id between.
StoredOnce ==
    \A m, n \in stored : m.act = n.act /\ m.route = n.route =>
                            m = n \/ m.id + 1 < n.id \/ n.id + 1 < m.id

\* Nothing is underway, and polls would change nothing.
Quiet ==
    /\ online /\ up = <<>> /\ down = <<>> /\ engine.seen = board.count
    /\ engine.pending = None \/ engine.pending.state # "sent"

\* When all is quiet the pasteboard shows the last event of the hub's stream, or what
\* the user has done since ("concurrent copies converge on the hub's order").
Converges == Quiet /\ due.known => board.content = ReadsAs[due.content]

\* It has reached the hub.
Arrived == \E m \in stored : m.act = board.act

\* When all is quiet, the user's copy that is still on the pasteboard has reached the hub,
\* unless it was sent to no avail MaxAttempts times: it survives lost connections, late
\* answers and a list of devices that is not known yet.  Nothing is said of a copy once an
\* event or a selection is written over it (write drops the copy that waits, SyncEngine.swift:
\* 245, so that one put off, not sent or lost never arrives), nor after a read that failed,
\* a send that was refused, a restart, a change of what is sent, a list with nobody in it, a
\* repeat, or a poll the copy has overtaken.
Delivered ==
    Quiet /\ owed = "yes" /\ settings.sending # "deferred" /\ drops < MaxAttempts => Arrived

\* "Copying identical content again is not a new event": nor does it undo the first
\* copy, which still has to reach the hub.
RepeatsHarmless ==
    Quiet /\ owed = "repeated" /\ settings.sending # "deferred" /\ drops < MaxAttempts => Arrived

\* In the end all is quiet: every copy is acknowledged, given up or put off.
Settles == <>[]Quiet
=============================================================================
