----------------------------- MODULE SharingRules -----------------------------
(***************************************************************************)
(* The rules that say which devices a client sends to and receives from     *)
(* (policy.js, receive-policy.js; Policy.swift is a port of both).  A rule  *)
(* belongs to a device or to an address, and a column of it may be unset:   *)
(* the rule of the device comes first, then the one of the address it has,  *)
(* then one that an older version has kept for the address among those of   *)
(* the devices.  This module is about one value of the settings.            *)
(***************************************************************************)
EXTENDS Naturals, FiniteSets

CONSTANTS
    Self,           \* this device
    Peers,          \* the others
    Ips,            \* addresses
    Hidden          \* the address of a device whose address is not known

ASSUME RulesAssumption ==
    /\ Self \notin Peers /\ Hidden \notin Ips
    /\ Ips \cap (Peers \cup {Self}) = {}

Devices == Peers \cup {Self}
Columns == {"send", "receive"}
Unset == [c \in Columns |-> "unset"]
Rules == [Columns -> {"on", "off", "unset"}]

\* A set of rules: deviceRules as id, deviceRulesByIp as ip.  A list of devices
\* is a function from those it names to their addresses.
Other(c) == IF c = "send" THEN "receive" ELSE "send"

\* deviceRule and eventRule
RuleOf(s, d, ip) ==
    CASE d \in DOMAIN s.id -> s.id[d]
      [] d \notin DOMAIN s.id /\ ip \in DOMAIN s.ip -> s.ip[ip]
      [] d \notin DOMAIN s.id /\ ip \notin DOMAIN s.ip /\ ip \in DOMAIN s.id -> s.id[ip]
      [] OTHER -> Unset

Allows(s, d, ip, c) == RuleOf(s, d, ip)[c] # "off"

Switch(b) == IF b THEN "on" ELSE "off"

\* uniformColumnRule
Uniform(s, list, D, c) ==
    LET values == {Allows(s, d, list[d], c) : d \in D}
    IN  CASE values = {} -> "on"
          [] Cardinality(values) = 1 -> Switch(TRUE \in values)
          [] OTHER -> "unset"

At(list, ip) == {d \in DOMAIN list : list[d] = ip}

-----------------------------------------------------------------------------
(* Sending.                                                                 *)

\* hasSendRestriction
Restricted(s) ==
    \/ \E k \in DOMAIN s.id \ {Self} : s.id[k]["send"] = "off"
    \/ \E k \in DOMAIN s.ip : s.ip[k]["send"] = "off"

Visible(list) == DOMAIN list \ {Self}

\* Mutant: only the devices that are connected are sent to.
RememberedNone(s, list) == {}

\* rememberedAllowedTargetIds
Remembered(s, list) ==
    {d \in (DOMAIN s.id \cap Peers) \ Visible(list) : s.id[d]["send"] = "on"}

\* shouldDeferRestrictedSend
Defers(s, list) == Visible(list) = {} /\ Restricted(s) /\ Remembered(s, list) = {}

\* buildTargetDeviceIds; "everyone" is the copy without targets.
Targets(s, list) ==
    LET blocked == \E d \in Visible(list) : ~Allows(s, d, list[d], "send")
    IN  IF ~blocked /\ ~Restricted(s) THEN [everyone |-> TRUE, ids |-> {}]
        ELSE [everyone |-> FALSE,
              ids |-> {d \in Visible(list) : Allows(s, d, list[d], "send")}
                        \cup Remembered(s, list)]

\* The hub delivers a copy to the device.
Reaches(s, list, d) == LET t == Targets(s, list) IN t.everyone \/ d \in t.ids

-----------------------------------------------------------------------------
(* Receiving.                                                               *)

\* Mutant: a device that is allowed is not told apart from its address.
PolicyWithoutAllowed(s) ==
    [allowed |-> {},
     blocked |-> {d \in DOMAIN s.id \cap Devices : s.id[d]["receive"] = "off"},
     ips |-> {k \in DOMAIN s.id \cap Ips : s.id[k]["receive"] = "off"}
               \cup {k \in DOMAIN s.ip : s.ip[k]["receive"] = "off"}]

\* receiverPolicyFromSettings
Policy(s) ==
    [allowed |-> {d \in DOMAIN s.id \cap Devices : s.id[d]["receive"] = "on"},
     blocked |-> {d \in DOMAIN s.id \cap Devices : s.id[d]["receive"] = "off"},
     ips |-> {k \in DOMAIN s.id \cap Ips : s.id[k]["receive"] = "off"}
               \cup {k \in DOMAIN s.ip : s.ip[k]["receive"] = "off"}]

\* receiverAllowsEvent
HubAllows(p, d, ip) ==
    \/ d = Self
    \/ d \in p.allowed
    \/ d \notin p.blocked /\ ip \notin p.ips

-----------------------------------------------------------------------------
(* Changes.                                                                 *)

\* The column of the rule of k, if there is one.
Entry(rules, k, c) == IF k \in DOMAIN rules THEN rules[k][c] ELSE "unset"

\* Mutant: the address comes first.
InheritedByIp(s, d, ip, c) ==
    LET chain == <<Entry(s.ip, ip, c), Entry(s.id, d, c), Entry(s.id, ip, c), "on">>
    IN  chain[CHOOSE i \in 1..4 : chain[i] # "unset" /\ \A j \in 1..(i - 1) : chain[j] = "unset"]

\* What a device's rule says once it is listed.
Inherited(s, d, ip, c) ==
    LET chain == <<Entry(s.id, d, c), Entry(s.ip, ip, c), Entry(s.id, ip, c), "on">>
    IN  chain[CHOOSE i \in 1..4 : chain[i] # "unset" /\ \A j \in 1..(i - 1) : chain[j] = "unset"]

\* mergeDeviceRules
MergeIds(s, list) ==
    [k \in DOMAIN s.id \cup DOMAIN list |->
        IF k \in DOMAIN list THEN [c \in Columns |-> Inherited(s, k, list[k], c)]
        ELSE s.id[k]]

\* mergeDeviceRulesByIp
MergeIps(s, list) ==
    LET heard == {ip \in Ips : At(list, ip) # {}}
    IN  [ip \in DOMAIN s.ip \cup heard |->
            IF ip \in heard
            THEN [c \in Columns |-> IF Entry(s.ip, ip, c) # "unset" THEN s.ip[ip][c]
                                    ELSE Uniform(s, list, At(list, ip), c)]
            ELSE s.ip[ip]]

\* The list of devices has come.
Merge(s, list) == [id |-> MergeIds(s, list), ip |-> MergeIps(s, list)]

\* f with its values at the points of D replaced by those of g.
With(f, D, g(_)) == [k \in DOMAIN f \cup D |-> IF k \in D THEN g(k) ELSE f[k]]

\* A rule of a device, with the column c set to v; what was unset is on.
Complete(r, c, v) ==
    [x \in Columns |-> IF x = c THEN v ELSE IF r[x] = "unset" THEN "on" ELSE r[x]]

\* updateDeviceRule, for a row of an address.
UpdateIp(s, list, ip, c, v) ==
    LET o == Other(c)
        r == IF ip \in DOMAIN s.ip THEN s.ip[ip]
             ELSE IF ip \in DOMAIN s.id THEN s.id[ip] ELSE Unset
        other == IF r[o] # "unset" THEN r[o] ELSE Uniform(s, list, At(list, ip), o)
        row(k) == [x \in Columns |-> IF x = c THEN v ELSE other]
        device(d) == Complete(RuleOf(s, d, ip), c, v)
    IN  [id |-> With(s.id, At(list, ip), device), ip |-> With(s.ip, {ip}, row)]

\* The same for a row of a device whose address was not known; it may be by now.
UpdateId(s, list, d, c, v) ==
    LET r == IF d \in DOMAIN list THEN RuleOf(s, d, list[d])
             ELSE IF d \in DOMAIN s.id THEN s.id[d] ELSE Unset
        next(k) == Complete(r, c, v)
    IN  [id |-> With(s.id, {d}, next),
         ip |-> With(s.ip, IF d \in DOMAIN list THEN {list[d]} \cap Ips ELSE {}, next)]

Update(s, list, key, c, v) ==
    IF key \in Ips THEN UpdateIp(s, list, key, c, v) ELSE UpdateId(s, list, key, c, v)

-----------------------------------------------------------------------------
(* What the settings window shows.                                          *)

\* peerGroups: the rows, by address or else by device.
KeyOf(list, d) == IF list[d] \in Ips THEN list[d] ELSE d
Rows(list) == {KeyOf(list, d) : d \in Visible(list)}
Row(list, key) == {d \in Visible(list) : KeyOf(list, d) = key}

\* ruleFor; unlike RuleOf it does not know the rules of an older version.
ShownRule(s, d, ip) ==
    CASE d \in DOMAIN s.id -> s.id[d]
      [] d \notin DOMAIN s.id /\ ip \in DOMAIN s.ip -> s.ip[ip]
      [] OTHER -> Unset

\* ruleForGroup: the box is ticked if all the devices of its row are allowed.
Ticked(s, list, key, c) == \A d \in Row(list, key) : ShownRule(s, d, list[d])[c] # "off"
=============================================================================
