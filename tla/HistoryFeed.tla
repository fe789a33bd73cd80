----------------------------- MODULE HistoryFeed -----------------------------
(***************************************************************************)
(* What a client hears of the hub's history, without the client: live       *)
(* events and clears come in order on its connection (server.js), while a   *)
(* GET of the history is answered with what it is at that moment, on a      *)
(* connection of its own.  Events are numbered as they are stored.          *)
(***************************************************************************)
EXTENDS Naturals, Sequences

CONSTANTS
    MaxEvents,      \* bound: events stored
    MaxClears,      \* bound: clears by other devices
    MaxDrops        \* bound: connections lost

ASSUME HistoryFeedAssumption == {MaxEvents, MaxClears, MaxDrops} \subseteq Nat

VARIABLES
    last,           \* the last event stored
    cleared,        \* the last one a clear removed
    link,           \* "down"; "registered", the hub sends; "ready", and the
                    \* client has reported that it is connected
    feed,           \* underway on the connection: an event, or the clear of all
                    \* up to one
    clears, drops   \* counters of the bounds

hub == <<last, cleared, clears>>
wire == <<link, feed, drops>>
feedVars == <<hub, wire>>

Event(n) == [type |-> "clipboard.update", event |-> n]
Clear(n) == [type |-> "hub.history-cleared", event |-> n]

History == (cleared + 1)..last

FeedInit ==
    /\ last \in 0..1 /\ cleared = 0 /\ link = "down" /\ feed = <<>>
    /\ clears = 0 /\ drops = 0

Broadcast(m) == feed' = IF link = "down" THEN feed ELSE Append(feed, m)

\* An event of any device is stored and broadcast.
HubStores ==
    /\ last < MaxEvents /\ last' = last + 1 /\ Broadcast(Event(last + 1))
    /\ UNCHANGED <<cleared, clears, link, drops>>

\* The hub clears the history and tells everyone.
Cleared == cleared' = last /\ Broadcast(Clear(last)) /\ UNCHANGED <<last, link, drops>>

\* Another device has it cleared.
HubClears == clears < MaxClears /\ clears' = clears + 1 /\ Cleared

\* A new connection is registered.
Registers ==
    /\ link = "down" /\ link' = "registered"
    /\ UNCHANGED <<hub, feed, drops>>
=============================================================================
