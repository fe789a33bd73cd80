# ClipboardSync: specification and proofs

ClipboardSync keeps the clipboards of several computers the same. A hub (Node.js,
`src/src/`) stores every copied text or image and passes it on over WebSockets;
clients (Electron, `src/src/client/`; a native one for macOS, `src/mac-native/`)
watch the local clipboard, send what is copied and write what arrives. These
modules state what the parts promise, check it with TLC on small instances, and
prove the safety of nearly all of them with TLAPS for every value of the constants: the
hub and its store, the policy handshake, the history lists, the loop guard, the Mac's
engine, the sharing rules on their way from a click to the hub, the Mac's relay, the
watcher of the foreground and the paste of a selection.

## The system

| Part | State it keeps | Operations | Talks to |
| --- | --- | --- | --- |
| History store, `event-store.js` | the events in memory, receipts of recent client event ids, a JSON-lines file, a chain of queued jobs, the flags of a failed write | `ready`, `append`, `clear`, `maintain`, compaction | the server that calls it; the disk |
| Hub server, `server.js`, `receive-policy.js` | connected sockets, the socket of each device, connections that must prove themselves, receiver policies, the admission counter | upgrade, messages, pong, close, heartbeat, HTTP requests | the store (promises), clients |
| Hub connection, `hub-client.js` and `HubSession.swift` | the current socket, its generation, the policy wanted, sent and acknowledged, timers | start, stop, reconnect, handle messages, refresh lists by HTTP | the hub; the application |
| History view, `async-state.js` and parts of `electron-main.js`; `AppModel.swift` | the list shown, a revision (on the Mac an epoch too), requests underway, a retry timer | refresh, clear, live event, live clear, status | the hub by HTTP and WebSocket |
| Sync service, `sync-service.js`, `loop-guard.js` | what was last seen on the clipboard, the copy being sent, writes underway and not read back yet | poll, send, acknowledge, apply a remote event, write from the history | the clipboard of the operating system; the hub connection |
| Mac sync engine, `SyncEngine.swift` | change counts of the pasteboard last seen and last written, the copy that waits to be sent | the same | the pasteboard; `AppModel.swift` |
| Sharing rules, `policy.js`, `receive-policy.js`, `Policy.swift` | none | rules to targets and receiver policies, merging, ticking | sync service, hub, settings window |
| Settings, `config-store.js`, `electron-main.js`, `ui-renderer.js`, `status-tracker.js` | the rules in memory and in the file, queues of updates, saves and clicks, the state the window was sent | merge a list of devices, click a box, save, load | the hub connection; the disk; the window |
| Helpers, `mac-local-proxy.js`, `windows-foreground-watcher.js`, `paste-target-memory.js`, `direct-paste.js` | a child process, generations, requests underway, recovery timers, the paste target | start, stop, recover; request, sample, time out; paste a selection | processes of the operating system; the sync service |

A copy travels like this: the sync service sees it in a poll, gives it an id and
sends it over the hub connection; the server admits it, the store appends it to
its file; when that has succeeded the server broadcasts it to the connections
whose device is a target and whose policy allows the source, the sender included,
and acknowledges it; the clients write it to their clipboards and show it in the
history.

What is hard here: handlers go on after an `await` while sockets come and go;
files and processes fail half way; a message may be sent twice, and an answer
may be late, or come on another connection than the message it competes with;
timers race with what they wait for. `PROJECT.json` lists these hazards one by
one with the line where each bites.

## The modules

`HistoryLog` is the abstract specification of the history: an event enters once,
at the new end, and only the oldest leave.

`EventStore` is `event-store.js`. `events`, `receipts`, `nextSequence`, `dirty`
and `maintenanceError` are the fields of the class, `queue` is the promise chain
`this.queue`, `file` is the history file with its whole lines, the rest of a
failed line at its end (`tail`, `torn`) and `broken`, which says that a line was
glued to such a rest. `BeginWrite` runs an append up to the write of the line;
`EndWrite`, `FailWrite` or `Crash` say how that ends; `Ready` reads the file at
the next start. A record is an identity (device and client event id), a signature
(its content) and a sequence number; its bytes are a function `Size`.

`Hub` is `server.js` without the store's file: `clients`, `byDevice`
(`clientsByDeviceId`), `proving` (`pendingClients`), `policy` and `remembered` are
its maps. A handler runs to its `await` in one step (`ReceiveEvent`,
`RequestClear`); what follows the `await` is another step (`Settles`, with
`Broadcast`, `AnswerDuplicate` or `RefuseEvent`; `ClearHistory`). Store calls
settle in the order they were made, as the chain of `EventStore` makes them.
`gone` holds the connections whose client has vanished without a close.

`HubClient` is `hub-client.js`; `HubSession.swift` is the same machine in another
language, and the map names lines of both. A connection is a slot with what is
underway in both directions; `link` says what the network has done to it. A slot
is used again when its close event has been handled, so that the number of
reconnects has no bound, only the number of faults. The hub on the other side is
the part of `server.js` that registers this client, takes its policy and sends it
lists and events; `revisions` is false for a hub that does not send back the
revision of a policy.

`HistoryFeed` is what a client hears of the hub's history. `HistoryView` extends it
with the Electron client's list (`HistoryRefreshController` and the handlers of
`electron-main.js`), `MacHistory` with the Mac's (`AppModel.swift`), which lets any
number of requests run, drops the answers of an earlier connection and asks again
only once for a stale one. Instead of revision and epoch numbers, which are only
ever compared with the current one, `stale`, `touched` and `old` say that they have
changed since a request was made. An event is its number; the display limit and the
receive rules, which filter the list, are left out. `HistoryClients` runs one or the
other against the same hub and states for both what a history list owes its user.

`SyncService` is `sync-service.js` with `loop-guard.js`. The record `client` holds
the fields of the class, `write` being `currentWrite`, `evidence` the
`unconfirmedWrites`, `event` the `localEvent` and `polling` a poll that waits for
its source application, `stale` if `generation` has changed since. The methods are
operators from one such record to the next (`Remember`, `NewLocal`, `Confirm`,
`Apply`, ...), and the actions are the entry points: timers, messages, calls of
the application. Around it are the clipboard (`seen`, and `coming` for writes that
are made and cannot be read back yet) and the hub's stream for this client (`up`,
`down`, `stored`). A content stands for its hash; `Look` is what the matcher of a
write compares (pixels), `ReadsAs` what a write reads back as: an image of another
device is encoded anew. A copy that looks like what the client holds at the moment
cannot be told from it and is left out (`Distinct`). `acts`, `heeded`, `due`,
`crossed` and `confused` are history variables for the properties, and so is the `act` a copy and a
message carry: the user's act that made it (`Author`), 0 for what the client has
written. Assumed of the constants is what the code has by construction: a write looks
like what was written, what looks the same reads back the same, and there are at most
two unconfirmed writes (`MAX_UNCONFIRMED_WRITES`, which is 2; with three, a write of one
content before and after another could be read back in an order the evidence does not
tell apart). Entries of the loop guard do not expire here.

`SyncEngine` is `SyncEngine.swift` with the handlers of `AppModel.swift` that drive
it, written in the same style: the record `engine` holds the fields of the class,
`board` the pasteboard with its change count and, for the properties, the user's act
that put the content there. Everything runs on one thread, but the user may copy
between two looks of one poll (`PollOvertaken`).

`SharingRules` holds the operators of `policy.js` and `receive-policy.js` (of which
`Policy.swift` is a port): which rule applies to a device (`RuleOf`), whom a copy is
for (`Targets`), what the hub is asked to withhold (`Policy`, `HubAllows`), what a
new device inherits (`Merge`), what a click changes (`Update`) and what a box shows
(`Ticked`). A rule is a record of two columns, each "on", "off" or "unset".
`SharingSettings` extends it with the path of a change: a click is computed from the
window's state, queued behind other clicks (`toggles`), then behind the merges of
the store (`updates`), saved by a write and a rename that may fail or be cut off by
a crash, and only then in force, sent to the hub and shown. `choice` and `ipChoice`
are history variables: what the user has asked for.

`LocalProxy` is `mac-local-proxy.js` with `syncHubConnectionSettings` and the
`before-quit` handler: `queue` is the chain of starts, the first of them underway at
its `phase`; `procs` are the processes, which outlive the field `child`. A start
carries the generation and revision it was asked with as `latest` and `valid`.
`ForegroundWatcher` is `windows-foreground-watcher.js`, the loop of its PowerShell
script included, with the capture and the memory of a paste target. Windows are
numbered as they come to the front, so that "older" is "less".

`HistoryPaste` follows a selection to its paste: `applyHistory` of `electron-main.js`,
the operations of `sync-service.js` it waits for, and the helper process that brings the
target to the front and sends it the key stroke (`direct-paste.js`). `service` holds the
fields of the service this is about, `current` being `currentWrite`, `observed` the
`lastObservedHash`, and its operations; `calls` says for each operation how far
`applyHistory` and its helper are. A helper whose operation is aborted is killed. A
window to paste into is found or not, the key stroke is one step, and what is on the
clipboard at that step is what is pasted. Contents are all different, since
`SyncService` is about those that are alike.

`ClientHelpers` puts the three beside each other in one specification. They share no
state, so that a behaviour is one of the relay, of the watcher or of a paste (`part`),
and the other two stay as they started.

The modules `MC...` give the constants values for TLC. `EventStoreProofs`,
`HubProofs`, `HubClientProofs`, `HistoryProofs`, `SyncServiceProofs`,
`SyncEngineProofs`, `SharingSettingsProofs` and `ClientHelpersProofs` hold the proofs.

Definitions with the comment "Mutant" are plausible bugs. Each property is
violated when its mutant takes the place of the definition it varies
(`PROJECT.json`, "mutants").

## What is checked

| Run | Properties | Bounds |
| --- | --- | --- |
| `event_store` | `TypeOK`, `Durable`, `AckedSurvives`, `NoResurrection`, `FileSound`, `RefinesLog`, `StoreGoesOn` | three jobs, two ticks of the clock, two faults of the disk, one crash; one identity, records of a third, two thirds and more than all of the byte limit; two entries |
| `hub` | `RegistryConsistent`, `DevicesFresh`, `ClearedIsGone`, `QueueExact`, `StaleNeverEvicts`, `RefusedNeverSent`, `LiveIsInHistory` | two connections of a laptop and one of a desktop, one event stored, one clear, a queue of one |
| `hub_live` | `ConnectionsEnd` | the same connections without events |
| `hub_client` | `EnforcedWhenReady`, `FilteredOnceSettled` | two policies, two changes, one late timer, one refusal, one fault, one wake-up or stop, one event; two attempts for a policy |
| `hub_client_live` | `BecomesConnected` | a fault, a refusal, a wake-up or stop, and a device that comes or goes |
| `history_view` | `ListIsCurrent`, `ClearsHold`, `AllSettle` | either client; three events, a clear by another device, a lost connection, a failed request; on the Electron client two clears or refreshes of its user, on the Mac one |
| `sync_service` | `GuardExact`, `Converges` | two acts of the user, one event of another device, and two of: a late write, a failed read or write, a lost connection or late acknowledgement, a change of the settings or devices or a restart (that the client has lost track of its writes, `confused`, counts as one more); two attempts for a write |
| `sync_service_live` | `Settles` | one act, one event, a late write, a failure, a lost connection; copies are sent to all (`LiveSpec`: `Settles` asks for nothing while sending is put off) |
| `sync_engine` | `NoEcho`, `StoredOnce`, `Converges`, `Delivered`, `Settles` | two acts, one event of another device, two mishaps (see `MaxMishaps`), two attempts; a text, a picture as PNG and as JPEG, a text that is too large |
| `sync_engine_repeat` | `RepeatsHarmless`, which is **violated** | two acts, two mishaps, six attempts |
| `sharing` | `ChoicesStand`, `SendsAsChosen`, `HubAgrees`, `ShownAsApplied` | two other devices, two addresses (one of them this device's) or none, two lists, two clicks, two failed saves, crashes or restarts |
| `client_helpers` | `OneProcess`, `FollowsSettings`, `StaysStopped`, `NeverOlder`, `PastesAsMeant`, `PastedOnce`, `HelpersRecover` | two hubs and a direct address, three changes, four accidents; two windows, two requests, two lines underway, two mishaps; two selections or events of other devices, one copy, two attempts for a write, any number of changes of the settings |

Why the bounds are enough. *Store*: a torn line needs one fault, gluing one more
append, seeing the result one crash; three jobs allow any order of an append, its
retry or another append, and a clear or a maintenance; a second fault hits the
repair of the first; two entries with three sizes make pruning by count
and by bytes happen, each alone and together. *Hub*: every hazard is about two
connections of one device and a third party that sends or listens. An event that
waits for the store while a policy, a close or a clear is handled needs one event.
*Hub client*: the hard case is an acknowledgement that arrives twice while the
next policy is pending, which takes one late timer and one change of the settings;
the second change lets the settings go back to what was acknowledged before.
*History*: three events are needed for one that was missed, one that arrives
during a request and one that arrives during its repetition. *Sync service and
engine*: three
contents, one of them an image in two encodings, and three writes: two that are
not read back yet fill the evidence, the third must wait. A copy, a peer's event
and a later copy or selection are what an echo can be late for. *Sharing*: two devices
at one address, or one that moves, are what tells rules of devices and of addresses
apart; one click computed before a list was merged and saved after it, with a save
that fails, is the longest chain of the two queues. *Helpers*: a change that
overtakes a start which overtakes a recovery needs three changes and a process that
has died; two requests and two lines underway are needed for an answer to the wrong
one. A paste is overtaken by one thing at a time, so that two writes suffice, the
selection and the selection or event that supersedes it, and one copy of the user.

### What the runs show

*The store.* Readers never see what a crash can take back; what was acknowledged
stays until age, a limit or a clear removes it, and what was removed does not
come back from an old line of the file; no line is ever glued to the rest of a
failed one. `RefinesLog` states the whole: seen by its readers, through retries,
restarts and failures, the store is a window onto a log. Every job ends, and a store
in error is repaired once the disk works again (`StoreGoesOn`).

*The hub.* `clientsByDeviceId` always names exactly the clients, whatever order
closes and replacements come in; lists sent to clients are current; a stale
handshake does not evict a live connection; an event that waited for the disk is
sent by the policies of the moment it is sent, and to nobody who could not read it
in the history; a clear leaves nothing of the history in the view of a client
that is connected. A connection that proves nothing, or whose client has vanished,
does not stay (`ConnectionsEnd`).

*The client's connection.* A client that says it is connected and waits for no
acknowledgement has exactly the policy of its settings enforced, and no event
filtered by an earlier one is still underway to it. After the last fault it
connects, whatever the fault was. With its own answers to `GET /v1/devices` in order, it also lists the devices
that are there.

*The history views.* When nothing is underway the list shown is the hub's history,
and an answer from before a clear never brings a cleared event back once the client
was told of the clear. In the end it is quiet. On the Mac this holds except after
the two cases below, which a history variable (`missed`) records.

*The sync service.* An event, two acts of the user and two things that go wrong
meet in any order. The loop guard never holds back a copy of the user, whatever happens;
and nothing the client has written is sent as a copy, as long as it has not lost track
of its own writes (`GuardExact`). In two cases described below (`confused`) it does lose
track, and sends its own write. When all is quiet the clipboard shows
the last event of the stream, or what the user has copied or selected since, so that
devices which see the same stream converge; this too is stated except after those
two cases and after a copy sent behind a selection (`crossed`). With its troubles over
it becomes quiet, in every case: no write stays unresolved and no copy unacknowledged.

*The Mac's engine.* The same, by change counts: no write goes back to the hub, a copy
that is sent again is stored once, and a copy that stays on the pasteboard reaches the
hub through lost connections, late answers and device lists unless six attempts failed.
A copy over which an event of another device or a selection is written while it waits
is dropped by the engine, and then never reaches the hub: see below.

*Sharing.* What the user has ticked for a device holds wherever the device connects
from, and what he has ticked for an address holds for newcomers there, whatever
lists, clicks, failed saves, crashes and restarts come after it. Copies go to exactly
those devices, whether they are connected or not; hub and client agree on what is
received; and when all is quiet and no error shows, the window shows what is applied.

*The helpers.* There is never more than one relay, the one in use leads to the hub of
the settings, and none is started once it is not wanted. No sample answers a request
made after it. A relay or a watcher that dies, hangs or cannot be started is replaced,
and in the end the window in front is the one that is remembered. What is pasted is
what was selected, whatever is selected, received or changed between the selection and
the key stroke (`PastesAsMeant`); it is pasted once, the answer says so (`PastedOnce`),
and every selection is answered, also one that another has superseded.

### What the checks found

`sync_engine_repeat`: `observeLocalChange` drops the copy that waits to be sent
(`SyncEngine.swift:120`) before it finds that the new copy has the same content as
the last (`140`). A copy made while the client is offline and then copied once more
never reaches the other devices, although the comment at `139` says that copying
identical content again is not a new event.

The passing properties name what they except, each with a history variable or a
condition of its own; removing it makes TLC show the case (but for `Blind`, see there):

- `BecomesConnected`, `mislisted`: on becoming ready the client asks for
  `GET /v1/devices` (`hub-client.js:320`) and shows the answer whenever it comes
  (`355-361`). If a device joins after the hub has answered and `hub.devices` is read
  first, the older answer replaces the newer list until another device comes or goes.
  The history, where the same race is possible, is guarded by a revision.
- `SyncService!Converges`, `crossed`: `sendLocalSnapshot` makes a copy the submitted
  one (`sync-service.js:508`) also while a selection made after it waits for a retry;
  the copy's echo then replaces the selection. The comment at `582` promises the
  contrary.
- `SyncService!GuardExact` and `Converges`, `confused`: the client can lose track of what
  it has written, and then sends its own write as a copy of the user. No step is
  excluded; the properties say nothing of own writes after these. That no copy of the
  user is swallowed is stated without this exception. There are two cases.
  `Confused`: a write is seen late, and meanwhile a poll finds a copy that no poll had
  found before. The copy is taken for a newer one and the evidence of the write is dropped
  (`sync-service.js:409`, `346-356`); when the write is seen it is sent as a copy. Or what
  is shown while the write is late looks the same, and confirms it too early. TLC shows the
  first in six steps, and a clipboard that goes its own way because of it in seven.
- `Blind`: a service that is started again while the clipboard cannot be read
  has no baseline, and a write it then begins has nothing to compare with. If the first
  look of that write fails too, its retry takes whatever it finds for a copy of the user
  (`!operation.hasObservation`, `sync-service.js:536`), also what the client had written
  before it was stopped, or while something it has written is still to come, and sends it
  back to the devices. `tests/client-combination-regressions.test.js:466` asserts that
  nothing is sent in the like case. This one was found by the attempt to prove
  `GuardExact`: it takes more mishaps than the run has.
- `SyncService!Converges`, `SentAnew`: a copy whose acknowledgement is late is sent once
  more, under another id, when its devices have changed (`sync-service.js:501-503`); the
  echo of the first is then not applied (`583`), although a peer's event that came before
  it was. If the second message is lost with the connection, the clipboard keeps the
  peer's event while the other devices show the copy.
- `SyncService!Unseeing`: a retry that has nothing to compare with takes also what the
  client has observed before for a new copy, and drops the selection it was for; for
  `Converges` what it found is then what is due.
- `SyncService!Latest`: the same content copied once more is no new copy for the service,
  which compares contents: the echo of the first still counts as the latest, and cancels
  what a peer has sent in between. Found by the attempt to prove `Converges`.
- `ListIsCurrent`, `missed`: on the Mac a history answer that is stale twice is dropped
  (`AppModel.swift:289`), and the answer of an own clear empties the list whatever has
  arrived since (`308`), also that of an earlier hub.
- `SyncEngine!Delivered`, `owed`: a copy that falls between the change count and the
  read of one poll is taken for the same change and is not sent ("overtaken").
- `SyncEngine!Delivered`, `owed`: `write` drops the copy that waits (`pending = nil`,
  `SyncEngine.swift:245`). A copy that was put off because the list of devices is not known,
  that could not be sent, or whose message was lost, never reaches the hub if an event or a
  selection is written meanwhile ("overwritten").
- `ChoicesStand`, `Overtaken`: rules a click has computed before a merge was saved
  replace what the merge brought (`electron-main.js:648`, `725`).
- `HubAgrees`: for a device never listed, at an address that an older version has
  blocked, hub and client look at different rules.
- `ShownAsApplied`: rows whose list could not be saved show the rule of the address.
- `PastedOnce`, `cut`: a helper that is killed after its key stroke counts as failed
  (`direct-paste.js:315`), and the attempt with the window in front then pastes again
  (`electron-main.js:776`).
- `PastesAsMeant`: what the user copies after the helper was started is pasted in place
  of the selection; nobody looks at the clipboard again.
- `HelpersRecover` (`Relays`), `stopping`: once a relay has outlived the two seconds of its stop, the
  rejected promise is what every later stop returns (`mac-local-proxy.js:163`), so
  that every later start fails until the application is started again.
- `HelpersRecover` (`FrontIsKnown`) is stated for the end: the fallback that reads the foreground window
  (`electron-main.js:337`) may for a moment replace a newer window by an older one,
  with a fresh time stamp.

## Fairness

- `EventStore`: a job that runs ends, the maintenance timer fires, and a hub that
  was killed is started again. The first two are promises and `setInterval`; the
  third is the container's restart policy, without which nothing can be said
  after a crash.
- `Hub`: the heartbeat interval fires, the proof timer of a pending connection
  fires, and the close event of a closing socket comes (`ws` closes a socket that
  does not answer within its own time limit). Nothing is assumed of clients.
- `HubClient`: timers fire, the hub answers what arrives, and what is underway on a
  connection that works arrives. Faults, refusals and wake-ups are not fair.
  After `stop()` the application calls `start()`, as `applySettingsPatch` does when
  the settings it has stored lead to an address.
- `SyncService`: the poll and the other timers fire, queries for the source
  application return (they have a time limit), what the operating system was given
  to write is seen in the end, the hub answers, a lost connection comes back
  (`BecomesConnected`) and a stopped service is started again. Reads and writes
  fail at most `MaxFaults` times; the user and the settings are not fair.
- `HistoryView`, `MacHistory`: requests are answered or fail (they have a time limit),
  timers fire, a lost connection comes back (`BecomesConnected`).
- `SyncEngine`: the poll's timer fires, the hub answers, a lost connection comes back;
  what goes wrong does so at most `MaxMishaps` times.
- `LocalProxy`: promises settle, timers fire and a killed process exits or its stop
  times out. `ForegroundWatcher`: the script's loop goes on unless it hangs, lines are
  read, a hung process is found by `checkStall`, timers fire. Windows, requests,
  changes of the settings and accidents are not fair.
- `HistoryPaste`: promises settle, the timer of a retry fires, and a helper process ends
  at its time limit at the latest. That it strikes a key or succeeds is not assumed.

## What is proved

TLAPS checks these for every value of the constants that satisfies the
assumptions next to their declaration: any number of devices, connections,
events, faults and crashes, any limits. (Bounds appear as constants too; nothing
is assumed of them but that they are numbers.)

`EventStoreProofs`: `StoreInvariant` (`TypeOK` and `IInv` always hold),
`TypeCorrect`, `StoreSafe` (`Durable`, with `AckedSurvives` and `FileSound`),
`AcknowledgedStays`, `FileStaysSound` and `FailureIsRetried`. The safety properties
are not inductive: that an acknowledged record is in the file says nothing about what a start
reads from a file whose end is damaged. `IInv` adds that the records that can be
read from the file have different numbers, that these are below `nextSequence`
when the file is trusted, that a file which is not trusted is marked, and what is
known of the record that is being written. The proof has one lemma per action;
those of an append rest on what `Recover` leaves behind and on what a whole or a
partial line adds to the file. `WindowInvariant` says on top of it, by the history
variables for what was removed, that records are in the order of their times and that
whatever removed record a start can still read from the file, a limit or its age puts
it out again at once (`FileWindow`, `WritingWindow`); from it `NothingResurrected`
(`NoResurrection`). `StoreRefinesLog` (`RefinesLog`) is that every step of the store is a
step of `HistoryLog` or none: an append enters one record at the new end, and pruning
takes away the oldest. For both one has to know that a set of records takes no fewer bytes than
a part of it, an induction over finite sets. The library's induction theorem has an operator
for a parameter, which the provers cannot instantiate; `NatInductive` states it of sets of
numbers, by a least number outside the set.

`HubProofs`: `HubInvariant`, `TypeCorrect`, `HubSafe` (`RegistryConsistent`,
`DevicesFresh`, `ClearedIsGone`, each also a theorem of its own: `ListsStayFresh`,
`ClearedStaysGone`), `QueueCounted`, and the action properties
`NewcomersAnswer` (`StaleNeverEvicts`), `RefusalHolds` (`RefusedNeverSent`) and
`LiveIsReadable` (`LiveIsInHistory`). `IInv` is the conjunction of four named
parts, each proved for every action: the registry (every client is registered and
its socket is open or closing), what clients have been shown (a connection that
is not a client has been shown nothing), policies (the policy of a client is the
one last taken from it, and there is none before it registers) and the admission
counter (as many as there are appends waiting).

`Hub!TypeOK` is proved and therefore in no run.

`HubClientProofs`: `HandshakeInvariant`, and from it `PolicyIsEnforced`
(`EnforcedWhenReady`) and `EventsAreFiltered` (`FilteredOnceSettled`), for any number
of connections, policies, changes, retries and faults. What the hub filters with once
no answer is awaited depends on what is still underway: `Sound` says that the policy
messages to the hub are in order of their revisions and the latest one carries the
latest policy (`SoundUp`), that acknowledgements number policies already sent
(`SoundAcks`), that an acknowledgement of the latest revision, still underway or
arrived, means the hub filters with that policy, has none but copies of it to come, and
sends no event filtered otherwise behind it (`SoundTaken`), and that with a hub which
sends no revisions back at most one message or acknowledgement is underway
(`SoundPlain`): that is why `Exhausted` gives up on such a hub rather than send twice.
`Connected` says that a connection not opened yet has carried no policy and no
acknowledgement. Each way `Sound` can change is a lemma about constants (`HubTakes`,
`HearsAnswer`, `SendsNext`, `SendsAgain`, ...), cited by the actions.

`HistoryProofs`: `ListsInvariant`, `ListStaysCurrent` (`ListIsCurrent`) and `ClearsStay`
(`ClearsHold`), for both clients. That the list is the history when nothing is underway
says nothing of what is underway, so `ListsInv` says where that leads: `Synced(S, f, h)`
is that the list `S` becomes the history `h` once the messages `f` are applied. This
holds of the list while no GET is underway or due, of an answer that is not stale, and,
on the Mac, of the list unless a GET of this connection is still underway. For the
clears, no event in the feed is older than a clear before it (`Ordered`), and an answer
that is not stale is younger than the last clear that was heard of. What sending and
hearing a message does to `Synced` and `Ordered` is a lemma about constants, cited by
the actions of both clients; `RemovedAt` is what the Mac's list of GETs needs.

`SyncServiceProofs`: `GuardInvariant`, and from it `LoopGuardExact` (`GuardExact`), for any
contents, acts, events, attempts, late writes, reads and writes that fail, losses and
restarts, and without assumptions on what happens. The invariant is `confused \/ GuardInv`:
`GuardInv` holds until the client loses track of its own writes. What `GuardExact` says in
every state, that no copy of the user is swallowed, follows from `Fit`, which needs only the
client's fields and is kept by every step (`FitInvariant`). That no write of its
own goes back is not inductive: what the client takes for its own is decided by its
evidence, which is kept, consumed and let go of far from where it is used. `GuardInv` is
`Sound`, of the client's fields and the clipboard, with the types of what is underway.
`Board` is the heart of it: each of the client's own writes that can be read now, or will
be, is in the evidence unless the client has observed it, and the evidence is in the
order in which they will be read (`Later`), so that consuming it up to the last entry
that looks like a snapshot never takes away what a later snapshot needs; what the user
has copied is not in it. `Proven` ties the evidence to the tokens of the writes, `InHand`
says that a copy which is not settled is the event in hand and that the guard then holds
nothing, and `Compared` what a write has found before it when it is tried again. What
appending, consuming and landing do to `Board` is stated of constants (`BoardWritten`,
`BoardLate`, `BoardConsumed`, `BoardConfirmed`, `BoardLands`); then come the methods
(`RememberSound`, `ConfirmSound`, `PerformKeeps`, `ApplyKeeps`, `SendKeeps`, ...) and the
actions.

On top of it stands `ConvergeInvariant`, and from it `CopiesConverge` (`Converges`), for
the same constants; the invariant is `confused \/ ConvergeInv`. `ConvergeInv` adds to `GuardInv`:
`Watched`, what a write in progress found before it is what the client has observed;
`Permitted`, a write of a remote event that waits is one the rules accept; `Answered`,
echoes come in the order of their events, and one still to come that is not of the last
event submitted is of an earlier act than the last the client knows of, or its copy was
sent anew, so that it cannot replace a newer copy; and `Brought`, which says how what is
due comes to be shown: the clipboard shows it, the write in progress writes it, an event
or echo still to come brings it, or the next look at the clipboard finds the user's copy.
Every method is one of few kinds of move, stated of constants (`Stays`, `Sends`, `Finds`);
a method made of several is gone through move by move (`Passes`, `Attempts`, `Leads`),
and `LeadsOn` takes such a step back to the invariant. The attempt has made the property
stronger and `due` more exact: it no longer falls silent after a retry that had nothing
to compare with, and it takes account of a copy made again with the same content.

`SyncEngineProofs` has three invariants, each on top of the one before. `EngineInv`: the
engine's change counts, the copy in hand and the numbered messages fit; from it
`NothingEchoed` (`NoEcho`) and `CopiesStoredOnce` (`StoredOnce`). `ConvergeInv`: what is due
is on the pasteboard, or a poll, an event or an echo still to come will put it there;
from it `ClipboardsConverge` (`Converges`). `DeliverInv`: a copy that is owed to the hub,
which it is only while it is on the pasteboard,
has arrived, was tried too often, or waits for an answer, a connection or the list of
devices, and each attempt it has used up was cost by a mishap; from it `CopiesDelivered`
(`Delivered`). The proof attempt has changed `StoredOnce`: its first form held in the run
only because of the run's bounds, since a copy that waits while the devices' rules go
from all to some and back to all is sent for all twice, under two ids; it now speaks of
messages for the same devices with no others between them.

`SharingSettingsProofs`: `SharingInvariant`, and from it `ChoicesHonoured`
(`ChoicesStand`), `SentAsChosen` (`SendsAsChosen`), `HubAndClientAgree` (`HubAgrees`) and
`BoxesTrue` (`ShownAsApplied`), for any sets of devices and addresses, any lists, clicks,
failing saves and crashes. `SharingInv` says that the rules in force hold every choice
(`IdsChosen`, `IpsChosen`), that a click which waits to be saved was computed from rules
that hold the choices by address, and is the only one (`Queued`), that a listed device's
rule says something of every column (`Settled`), and that memory, file, hub and window
have the same rules (`Same`). What `Merge`, `Update` and `Targets` do to a set of rules is
stated of constants.

`ClientHelpersProofs` is about `HelpersSpec`, the specification that `client_helpers`
checks. The relay: `RelayInvariant`, and from it `OneRelay` (`OneProcess`), `RelayFollows`
(`FollowsSettings`) and `RelayStaysStopped` (`StaysStopped`), for any set of hubs and
any number of changes and accidents. That there is one process is not inductive: a
start spawns without a look at the processes, and that there is none at that time
depends on the stop it has waited for. `ProxyInv` has four parts. `ProcsSound`:
`child` and `stopping` tell the fate of every process. `QueueSound`: a start that was
not superseded is for the settings in force, and the one a change of the settings
waits for is the last. `PhaseSound`: which process there can be at each phase of a
start. `HubSound`: the hub client leads to the relay whenever a recovery may start
one. There is one lemma per action; what the queue becomes and what the first
start's move does to the parts is proved once (`GoesQueue`, `EndsQueue`, `AddsQueue`;
`GoesSound`, `EndsSound`, `StopChildSound`).

The watcher: `WatcherInvariant` and `AnswersNeverOlder` (`NeverOlder`), for any windows,
requests, lines underway and mishaps. `LinesSound` says that no process, not even one that
was just started, knows of a request that was not made, and that a line underway which
has read a request shows a window at least as late as the request.

The paste: `PasteInvariant`, `PastedAsMeant`
(`PastesAsMeant`) and `PastedAtMostOnce` (`PastedOnce`), for any number of selections,
events, copies and attempts. `PasteInv` says that a call goes on only after its
operation has succeeded (`CallsReady`), that a helper which is alive belongs to the
current operation, with its content still on the clipboard unless the user has copied
(`HelperSound`), and how many keys a call has struck at each stage (`KeysSound`). Every
step of the service is shown to keep what has succeeded, to abort what it replaces
and to lose no operation (`GoesOn`); since a try writes only for an operation that
still waits, it never writes under a helper (`NoHelperWhileWaiting`).

Only model-checked: every liveness property (`Settles`, `StoreGoesOn`, `ConnectionsEnd`,
`BecomesConnected`, `AllSettle`, `HelpersRecover`), since the provers do not do liveness
under fairness. `RepeatsHarmless` is false, as its run shows. Every other property of a
run is stated by a theorem.

## What is not modelled

`PROJECT.json` has the list of components. Left out for good: validation and
configuration (pure functions read once), source filters, most of the user interface,
packaging and its scripts, the transport classes, and how a window is found and
brought to the front for a paste: on macOS the key stroke may reach a window that came
to the front at the last moment. The paste of the Mac application
(`AppModel.swift:320-343`) is not modelled either; its check at line 331 asks only
whether the pasteboard still holds the last write of the client, whichever that was,
and not again after the wait for the target. Of the modelled parts the
notes there say which operations are missing; the most important are the backups the
store makes of a damaged file, authentication, the byte half of the admission counter, `GET /v1/config`, the bootstrap files of the
settings and the Mac's settings, which are saved at once.

## Plan

In this order; the first items matter most to a user.

1. The paste of a selection by the Mac application, as an extension of `SyncEngine`.
2. The byte half of the hub's admission counter, and `GET /v1/config` in `HubClient`.
