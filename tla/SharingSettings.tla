--------------------------- MODULE SharingSettings ---------------------------
(***************************************************************************)
(* How the sharing rules of the Electron client change: the boxes of its    *)
(* settings window (ui-renderer.js), the handlers of electron-main.js that  *)
(* take a click or the hub's list of devices, and the queues of its         *)
(* ConfigStore (config-store.js), whose saves may fail or be cut off by a   *)
(* crash.  A click is served from a queue of its own: its rules are         *)
(* computed there from the settings in force, and then wait behind the      *)
(* lists of devices that are still to be merged.                            *)
(***************************************************************************)
EXTENDS SharingRules, Sequences

CONSTANTS
    Home,           \* the address of this device
    Addresses,      \* bound: the addresses the others may have in the hub's lists
    MaxLists,       \* bound: lists of devices
    MaxClicks,      \* bound: boxes clicked
    MaxFaults       \* bound: saves that fail, and crashes or restarts

ASSUME SettingsAssumption ==
    Home \in Ips /\ Addresses \subseteq Ips \cup {Hidden} /\ {MaxLists, MaxClicks, MaxFaults} \subseteq Nat

VARIABLES
    settings,       \* the rules in force, in memory
    file, persisted,\* those in the file; those known to be there, or Nothing
    devices,        \* the hub's last list
    updates,        \* updateQueue of the store: lists to merge, and rules to set
    toggles,        \* settingsUpdateQueue: clicks
    policy,         \* the receiver policy that was sent to the hub
    shown,          \* what the window was told last: settings and devices
    clicked,        \* the boxes clicked since, as they show
    error,          \* the status shows a failed save
    choice,         \* history: the user's choices by device, and
    ipChoice,       \* by address: "on", "off", or "none" where there is none
    lists, clicks, faults   \* counters of the bounds

store == <<settings, file, persisted, updates>>
window == <<shown, clicked, error>>
choices == <<choice, ipChoice>>
bounds == <<lists, clicks, faults>>
vars == <<store, devices, toggles, policy, window, choices, bounds>>

Nothing == [id |-> "nothing"]
Empty == [k \in {} |-> Unset]
NoChoice == [c \in Columns |-> "none"]

\* Settings of an older version may block an address.
Old == {[id |-> Empty, ip |-> Empty]} \cup
       {[id |-> [k \in {ip} |-> [Unset EXCEPT !["receive"] = "off"]], ip |-> Empty] : ip \in Ips}

Init ==
    /\ settings \in Old /\ file = settings /\ persisted = Nothing
    /\ devices = [d \in {} |-> Hidden] /\ updates = <<>> /\ toggles = <<>>
    /\ policy = Policy(settings)
    /\ shown = [settings |-> settings, devices |-> devices] /\ clicked = {} /\ error = FALSE
    /\ choice = [d \in Peers |-> NoChoice] /\ ipChoice = [ip \in Ips |-> NoChoice]
    /\ lists = 0 /\ clicks = 0 /\ faults = 0

-----------------------------------------------------------------------------
\* broadcastState
Broadcasts(s) == shown' = [settings |-> s, devices |-> devices'] /\ clicked' = {}

\* The handler of "devices", up to the update of the store.
DevicesHeard(list) ==
    /\ lists < MaxLists /\ lists' = lists + 1 /\ list # devices
    /\ devices' = list /\ updates' = Append(updates, [kind |-> "merge", list |-> list])
    /\ UNCHANGED <<settings, file, persisted, toggles, policy, window, choices, clicks, faults>>

\* The box as it shows: as it was last clicked, or as the window was told.
Box(key, c) ==
    LET own == {b \in clicked : b.key = key /\ b.column = c}
    IN  IF own = {} THEN Ticked(shown.settings, shown.devices, key, c)
        ELSE \E b \in own : b.value = "on"

\* A box of the window is clicked, and changes: updateRule, updateSettings.
Click(key, c) ==
    /\ clicks < MaxClicks /\ clicks' = clicks + 1 /\ key \in Rows(shown.devices)
    /\ LET box == [key |-> key, column |-> c, value |-> Switch(~Box(key, c))]
       IN  /\ toggles' = Append(toggles, box)
           /\ clicked' = {b \in clicked : b.key # key \/ b.column # c} \cup {box}
    /\ UNCHANGED <<store, devices, policy, shown, error, choices, lists, faults>>

Setting(u) == u.kind = "rule"

\* settingsUpdateQueue serves the next click: updateDeviceRule, applySettingsPatch up to
\* the update of the store.
ServeToggle ==
    /\ toggles # <<>> /\ toggles' = Tail(toggles)
    /\ \A i \in DOMAIN updates : ~Setting(updates[i])
    /\ LET t == Head(toggles)
       IN  updates' = Append(updates,
             [kind |-> "rule", rules |-> Update(settings, devices, t.key, t.column, t.value),
              toggle |-> t, list |-> devices, before |-> settings])
    /\ UNCHANGED <<settings, file, persisted, devices, policy, window, choices, bounds>>

\* updateNow: a list is merged into the settings of now, rules replace them.
Outcome(u) == IF Setting(u) THEN u.rules ELSE Merge(settings, u.list)

\* A list merged after the rules were computed, which are about to replace it, has
\* changed the rule.
Overtaken(u, d, c) == Entry(settings.id, d, c) # Entry(u.before.id, d, c)

\* The user's choice of a row is one for each of its devices, and for those yet to come;
\* what a device has inherited may be lost.
Chosen(u) ==
    LET t == u.toggle
        row == IF t.key \in Ips THEN At(u.list, t.key) ELSE {t.key}
        moved == IF t.key \in DOMAIN u.list THEN {u.list[t.key]} ELSE {}
    IN  /\ choice' = [d \in Peers |-> [c \in Columns |->
              CASE d \in row /\ c = t.column -> t.value
                [] (d \notin row \/ c # t.column) /\ Overtaken(u, d, c) -> "none"
                [] OTHER -> choice[d][c]]]
        /\ ipChoice' = [ip \in Ips |->
              CASE ip = t.key -> [ipChoice[ip] EXCEPT ![t.column] = t.value]
                [] ip \in moved -> [NoChoice EXCEPT ![t.column] = t.value]
                [] OTHER -> ipChoice[ip]]

\* A device that is listed for the first time takes the choice of its address.
Inherits(u) ==
    /\ choice' = [d \in Peers |->
          IF d \in DOMAIN u.list \ DOMAIN settings.id /\ u.list[d] \in Ips
          THEN ipChoice[u.list[d]] ELSE choice[d]]
    /\ UNCHANGED ipChoice

\* The choices once the head of the queue is saved.
Chooses(u) == IF Setting(u) THEN Chosen(u) ELSE Inherits(u)

\* save: a file that is known to hold the same is left alone, else it is replaced.
Saves(new) == file' = (IF new = persisted THEN file ELSE new) /\ persisted' = new

\* The next update of the store is saved; then the handler of "devices", or
\* applySettingsPatch, sends the receiver policy and broadcasts.
Save ==
    /\ updates # <<>> /\ updates' = Tail(updates)
    /\ LET u == Head(updates)
       IN  /\ settings' = Outcome(u) /\ Saves(Outcome(u)) /\ Chooses(u)
           /\ policy' = Policy(Outcome(u))
           /\ UNCHANGED devices /\ Broadcasts(Outcome(u))
    /\ UNCHANGED <<toggles, error, bounds>>

\* A step of the save fails: nothing changes but the status, and the window is told
\* unless it shows the same error already.
SaveFails ==
    /\ updates # <<>> /\ Outcome(Head(updates)) # persisted
    /\ faults < MaxFaults /\ faults' = faults + 1
    /\ updates' = Tail(updates) /\ error' = TRUE /\ UNCHANGED devices
    /\ IF error THEN UNCHANGED <<shown, clicked>> ELSE Broadcasts(settings)
    /\ UNCHANGED <<settings, file, persisted, toggles, policy, choices, lists, clicks>>

\* Mutant: the window is not told when the error expires.
ErrorExpiresUntold ==
    /\ error /\ error' = FALSE
    /\ UNCHANGED <<store, devices, toggles, policy, shown, clicked, choices, bounds>>

\* StatusTracker: ten seconds after the last failure, or with the next status.
ErrorExpires ==
    /\ error /\ error' = FALSE /\ UNCHANGED devices /\ Broadcasts(settings)
    /\ UNCHANGED <<store, toggles, policy, choices, bounds>>

\* The client ends, possibly between the rename of a save and the rest, and is
\* launched again: load, and an empty list of devices.
Restart(renamed) ==
    /\ faults < MaxFaults /\ faults' = faults + 1
    /\ IF renamed
       THEN updates # <<>> /\ file' = Outcome(Head(updates)) /\ Chooses(Head(updates))
       ELSE UNCHANGED <<file, choices>>
    /\ settings' = file' /\ persisted' = Nothing /\ updates' = <<>> /\ toggles' = <<>>
    /\ devices' = [d \in {} |-> Hidden] /\ policy' = Policy(settings')
    /\ Broadcasts(settings') /\ error' = FALSE
    /\ UNCHANGED <<lists, clicks>>

-----------------------------------------------------------------------------
\* The hub's lists name this device, and any of the others.
HubLists ==
    UNION {{[d \in D \cup {Self} |-> IF d = Self THEN Home ELSE place[d]] :
              place \in [D -> Addresses]} : D \in SUBSET Peers}

Next ==
    \/ \E list \in HubLists : DevicesHeard(list)
    \/ \E key \in Ips \cup Peers, c \in Columns : Click(key, c)
    \/ ServeToggle \/ Save \/ SaveFails \/ ErrorExpires
    \/ \E renamed \in BOOLEAN : Restart(renamed)

Spec == Init /\ [][Next]_vars

-----------------------------------------------------------------------------
(* Properties.                                                              *)

\* What the user has chosen for a device stands wherever it connects from, whatever
\* lists, other choices, failing saves and crashes come after it; and a device that
\* is new at an address is treated as was chosen for the address.  (But for what a
\* list brought while a click made earlier was waiting to be saved, see Overtaken.)
ChoicesStand ==
    \A c \in Columns :
      /\ \A d \in Peers, ip \in Ips \cup {Hidden} :
           choice[d][c] # "none" => Allows(settings, d, ip, c) = (choice[d][c] = "on")
      /\ \A d \in Peers \ DOMAIN settings.id, ip \in Ips :
           ipChoice[ip][c] # "none" => Allows(settings, d, ip, c) = (ipChoice[ip][c] = "on")

\* A copy reaches no device the user has turned off, connected or not, and every
\* device he has turned on, the ones included that are not connected: it is dropped
\* only if there is none.
SendsAsChosen ==
    \A d \in Peers :
      /\ choice[d]["send"] = "off" => ~Reaches(settings, devices, d)
      /\ choice[d]["send"] = "on" => Reaches(settings, devices, d) /\ ~Defers(settings, devices)

\* The hub and the client, which filter by different forms of the rules, agree on
\* every event of another device: nothing is withheld that the client would show,
\* and nothing is sent that it hides.  (But for devices never listed, at an address
\* that an older version has blocked.)
HubAgrees ==
    \A d \in Peers, ip \in Ips \cup {Hidden} :
      d \in DOMAIN settings.id \/ ip \notin DOMAIN settings.id =>
        HubAllows(policy, d, ip) = Allows(settings, d, ip, "receive")

\* With nothing underway the boxes show what is applied to each device of their rows,
\* also after clicks that failed.  (But for rows whose list could not be saved.)
ShownAsApplied ==
    updates = <<>> /\ toggles = <<>> /\ ~error =>
      /\ clicked = {}
      /\ \A key \in Rows(devices), c \in Columns :
           /\ key \in Rows(shown.devices)
           /\ Row(devices, key) \subseteq DOMAIN settings.id =>
                (Ticked(shown.settings, shown.devices, key, c) <=>
                   \A d \in Row(devices, key) : Allows(settings, d, devices[d], c))
=============================================================================
