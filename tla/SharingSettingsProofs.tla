------------------------ MODULE SharingSettingsProofs ------------------------
(***************************************************************************)
(* Proofs about SharingSettings, for any devices, addresses and lists, and  *)
(* any numbers of lists, clicks, failing saves and crashes: the user's      *)
(* choices stand, copies are sent as he chose, the hub and the client       *)
(* agree, and the window shows what is applied.                             *)
(*                                                                         *)
(* All four follow from SharingInv: the rules in force hold every choice,   *)
(* a click that waits to be saved was computed from rules that hold the     *)
(* choices by address and is the only one that waits, and memory, file, hub *)
(* and window have the same rules.  What the operators of SharingRules do   *)
(* to a set of rules comes first, then one lemma for every action.          *)
(***************************************************************************)
EXTENDS SharingSettings, TLAPS

(***************************************************************************)
(* The invariant.                                                           *)
(***************************************************************************)

\* What a column says once it is set.
Said == {"on", "off"}

\* The types: rules by device and by address, lists of devices, clicks and updates.
RuleSets ==
    [id : UNION {[D -> Rules] : D \in SUBSET (Devices \cup Ips)},
     ip : UNION {[D -> Rules] : D \in SUBSET Ips}]
DeviceLists == UNION {[D -> Ips \cup {Hidden}] : D \in SUBSET Devices}
Toggles == [key : Ips \cup Peers, column : Columns, value : {"on", "off"}]
Merges == [kind : {"merge"}, list : DeviceLists]
Patches ==
    [kind : {"rule"}, rules : RuleSets, toggle : Toggles, list : DeviceLists, before : RuleSets]
Choices == [Columns -> {"on", "off", "none"}]

TypeOK ==
    /\ settings \in RuleSets /\ file \in RuleSets
    /\ devices \in DeviceLists /\ updates \in Seq(Merges \cup Patches)
    /\ toggles \in Seq(Toggles)
    /\ choice \in [Peers -> Choices] /\ ipChoice \in [Ips -> Choices]

\* The rule of a device that was ever listed says something of every column.
Settled(s) == \A d \in DOMAIN s.id \cap Devices, c \in Columns : s.id[d][c] # "unset"

\* The rules hold what the user has chosen for devices, and for addresses.
IdsChosen(s, ch) ==
    \A d \in Peers, c \in Columns :
        ch[d][c] # "none" => d \in DOMAIN s.id /\ s.id[d][c] = ch[d][c]
IpsChosen(s, ch) ==
    \A k \in Ips, c \in Columns :
        ch[k][c] # "none" => k \in DOMAIN s.ip /\ s.ip[k][c] = ch[k][c]

\* A click waits with the rules it was computed from, which hold the choices by address.
Computed(u, ch) ==
    /\ u.rules = Update(u.before, u.list, u.toggle.key, u.toggle.column, u.toggle.value)
    /\ Settled(u.before) /\ IpsChosen(u.before, ch)

Queued ==
    /\ \A m \in DOMAIN updates : Setting(updates[m]) => Computed(updates[m], ipChoice)
    /\ \A m, n \in DOMAIN updates : Setting(updates[m]) /\ Setting(updates[n]) => m = n

\* What memory, file, hub and window have of the settings.
Same ==
    /\ file = settings /\ persisted \in {Nothing, file} /\ policy = Policy(settings)
    /\ shown.settings = settings
    /\ updates = <<>> /\ ~error => shown.devices = devices
    /\ updates = <<>> /\ toggles = <<>> /\ ~error => clicked = {}

SharingInv ==
    /\ TypeOK /\ Settled(settings) /\ IdsChosen(settings, choice)
    /\ IpsChosen(settings, ipChoice) /\ Queued /\ Same

(***************************************************************************)
(* What the operators of SharingRules do to a set of rules.                 *)
(***************************************************************************)

\* The devices of a row of the window, and the address a device of its own row is at.
RowOf(list, key) == IF key \in Ips THEN At(list, key) ELSE {key}
MovedTo(list, key) == IF key \in DOMAIN list THEN {list[key]} ELSE {}

\* The domains and the values of a set of rules.
LEMMA RuleSetMeans ==
    ASSUME NEW s \in RuleSets
    PROVE  /\ DOMAIN s.id \subseteq Devices \cup Ips /\ DOMAIN s.ip \subseteq Ips
           /\ \A k \in DOMAIN s.id : s.id[k] \in Rules
           /\ \A k \in DOMAIN s.ip : s.ip[k] \in Rules
  BY DEF RuleSets

\* A list of devices names devices and their addresses.
LEMMA ListMeans ==
    ASSUME NEW list \in DeviceLists
    PROVE  DOMAIN list \subseteq Devices /\ \A d \in DOMAIN list : list[d] \in Ips \cup {Hidden}
  BY DEF DeviceLists

\* A column of a rule that is set is on or off.
LEMMA RuleMeans ==
    ASSUME NEW r \in Rules, NEW c \in Columns
    PROVE  r[c] \in {"on", "off", "unset"} /\ (r[c] # "unset" => r[c] \in Said)
  BY DEF Rules, Said

\* The rule that says nothing.
LEMMA UnsetTyped == Unset \in Rules /\ \A c \in Columns : Unset[c] = "unset"
  BY DEF Unset, Rules

\* An entry that is set is one of a rule that is there.
LEMMA EntryTyped ==
    ASSUME NEW s \in RuleSets, NEW k, NEW c \in Columns
    PROVE  /\ Entry(s.id, k, c) \in {"on", "off", "unset"}
           /\ Entry(s.ip, k, c) \in {"on", "off", "unset"}
           /\ Entry(s.id, k, c) # "unset" => k \in DOMAIN s.id /\ s.id[k][c] = Entry(s.id, k, c)
           /\ Entry(s.ip, k, c) # "unset" => k \in DOMAIN s.ip /\ s.ip[k][c] = Entry(s.ip, k, c)
  BY RuleSetMeans, RuleMeans DEF Entry

\* deviceRule is a rule.
LEMMA RuleOfTyped ==
    ASSUME NEW s \in RuleSets, NEW d, NEW ip
    PROVE  RuleOf(s, d, ip) \in Rules
  BY RuleSetMeans, UnsetTyped DEF RuleOf

\* Whatever a listed device inherits is on or off; its own rule comes first, then the one of
\* its address.
LEMMA InheritedMeans ==
    ASSUME NEW s \in RuleSets, NEW d, NEW ip, NEW c \in Columns
    PROVE  /\ Inherited(s, d, ip, c) \in Said
           /\ Entry(s.id, d, c) # "unset" => Inherited(s, d, ip, c) = Entry(s.id, d, c)
           /\ (Entry(s.id, d, c) = "unset" /\ Entry(s.ip, ip, c) # "unset")
                => Inherited(s, d, ip, c) = Entry(s.ip, ip, c)
  <1> DEFINE chain == <<Entry(s.id, d, c), Entry(s.ip, ip, c), Entry(s.id, ip, c), "on">>
             First(n) == chain[n] # "unset" /\ \A m \in 1 .. (n - 1) : chain[m] = "unset"
             f == CHOOSE n \in 1 .. 4 : First(n)
  <1>1. Inherited(s, d, ip, c) = chain[f]
    BY DEF Inherited
  <1>2. /\ chain[1] = Entry(s.id, d, c) /\ chain[2] = Entry(s.ip, ip, c)
        /\ chain[3] = Entry(s.id, ip, c) /\ chain[4] = "on"
    OBVIOUS
  <1>3. \A n \in 1 .. 4 : chain[n] # "unset" => chain[n] \in Said
    BY <1>2, EntryTyped DEF Said
  <1> HIDE DEF chain
  <1>4. \E n \in 1 .. 4 : First(n)
    <2>1. CASE chain[1] # "unset"
      <3>1. First(1)
        BY <2>1
      <3> QED BY <3>1
    <2>2. CASE chain[1] = "unset" /\ chain[2] # "unset"
      <3>1. First(2)
        BY <2>2
      <3> QED BY <3>1
    <2>3. CASE chain[1] = "unset" /\ chain[2] = "unset" /\ chain[3] # "unset"
      <3>1. \A m \in 1 .. (3 - 1) : m = 1 \/ m = 2
        OBVIOUS
      <3>2. First(3)
        BY <2>3, <3>1
      <3> QED BY <3>2
    <2>4. CASE chain[1] = "unset" /\ chain[2] = "unset" /\ chain[3] = "unset"
      <3>1. \A m \in 1 .. (4 - 1) : m = 1 \/ m = 2 \/ m = 3
        OBVIOUS
      <3>2. First(4)
        BY <1>2, <2>4, <3>1
      <3> QED BY <3>2
    <2> QED BY <2>1, <2>2, <2>3, <2>4
  <1>5. f \in 1 .. 4 /\ First(f)
    BY <1>4
  <1>6. chain[1] # "unset" => f = 1
    BY <1>5
  <1>7. (chain[1] = "unset" /\ chain[2] # "unset") => f = 2
    <2> SUFFICES ASSUME chain[1] = "unset", chain[2] # "unset" PROVE f = 2
      OBVIOUS
    <2>1. f # 1 /\ ~(2 \in 1 .. (f - 1))
      BY <1>5
    <2> QED BY <1>5, <2>1
  <1> HIDE DEF f
  <1> QED BY <1>1, <1>2, <1>3, <1>5, <1>6, <1>7

\* uniformColumnRule says on, off, or nothing.
LEMMA UniformTyped ==
    ASSUME NEW s, NEW list, NEW D, NEW c
    PROVE  Uniform(s, list, D, c) \in {"on", "off", "unset"}
  BY DEF Uniform, Switch

\* mergeDeviceRules: no rule of a device changes, every device listed has a whole rule, and
\* a new one has the rule of its address.
LEMMA MergeIdsMeans ==
    ASSUME NEW s \in RuleSets, NEW list \in DeviceLists, Settled(s)
    PROVE  LET n == MergeIds(s, list) IN
           /\ n \in UNION {[D -> Rules] : D \in SUBSET (Devices \cup Ips)}
           /\ DOMAIN n = DOMAIN s.id \cup DOMAIN list
           /\ \A k \in DOMAIN n \cap Devices, c \in Columns : n[k][c] # "unset"
           /\ \A k \in DOMAIN s.id \cap Devices, c \in Columns : n[k][c] = s.id[k][c]
           /\ \A k \in DOMAIN list \ DOMAIN s.id, c \in Columns :
                 Entry(s.ip, list[k], c) # "unset" => n[k][c] = Entry(s.ip, list[k], c)
  <1> DEFINE n == MergeIds(s, list)
             New(k) == [c \in Columns |-> Inherited(s, k, list[k], c)]
             E == DOMAIN s.id \cup DOMAIN list
  <1>1. n = [k \in E |-> IF k \in DOMAIN list THEN New(k) ELSE s.id[k]]
    BY DEF MergeIds
  <1>2. \A k : New(k) \in Rules /\ \A c \in Columns : New(k)[c] = Inherited(s, k, list[k], c)
    BY InheritedMeans DEF Rules, Said
  <1>3. E \in SUBSET (Devices \cup Ips) /\ DOMAIN list \subseteq Devices
    BY RuleSetMeans, ListMeans
  <1> HIDE DEF New, E
  <1>4. n \in [E -> Rules]
    BY <1>1, <1>2, RuleSetMeans DEF E
  <1>5. \A k \in DOMAIN s.id \cap Devices, c \in Columns : n[k][c] = s.id[k][c]
    <2> SUFFICES ASSUME NEW k \in DOMAIN s.id \cap Devices, NEW c \in Columns
                 PROVE  n[k][c] = s.id[k][c]
      OBVIOUS
    <2>1. CASE k \in DOMAIN list
      <3>1. Entry(s.id, k, c) = s.id[k][c] /\ s.id[k][c] # "unset"
        BY DEF Entry, Settled
      <3>2. n[k] = New(k)
        BY <1>1, <2>1 DEF E
      <3> QED BY <1>2, <3>1, <3>2, InheritedMeans
    <2>2. CASE k \notin DOMAIN list
      BY <1>1, <2>2 DEF E
    <2> QED BY <2>1, <2>2
  <1>6. \A k \in DOMAIN list, c \in Columns : n[k][c] = Inherited(s, k, list[k], c)
    BY <1>1, <1>2 DEF E
  <1>7. \A k \in E \cap Devices, c \in Columns : n[k][c] # "unset"
    <2> SUFFICES ASSUME NEW k \in E \cap Devices, NEW c \in Columns PROVE n[k][c] # "unset"
      OBVIOUS
    <2>1. CASE k \in DOMAIN list
      <3>1. Inherited(s, k, list[k], c) \in Said
        BY InheritedMeans
      <3> QED BY <1>6, <2>1, <3>1 DEF Said
    <2>2. CASE k \in DOMAIN s.id
      BY <1>5, <2>2 DEF Settled
    <2> QED BY <2>1, <2>2 DEF E
  <1>8. \A k \in DOMAIN list \ DOMAIN s.id, c \in Columns :
           Entry(s.ip, list[k], c) # "unset" => n[k][c] = Entry(s.ip, list[k], c)
    <2> SUFFICES ASSUME NEW k \in DOMAIN list \ DOMAIN s.id, NEW c \in Columns,
                        Entry(s.ip, list[k], c) # "unset"
                 PROVE  n[k][c] = Entry(s.ip, list[k], c)
      OBVIOUS
    <2>1. Entry(s.id, k, c) = "unset"
      BY DEF Entry
    <2> QED BY <1>6, <2>1, InheritedMeans
  <1>9. DOMAIN n = E
    BY <1>4
  <1> HIDE DEF n
  <1> QED BY <1>3, <1>4, <1>5, <1>7, <1>8, <1>9 DEF n, E

\* mergeDeviceRulesByIp: no column that is set for an address changes.
LEMMA MergeIpsMeans ==
    ASSUME NEW s \in RuleSets, NEW list
    PROVE  LET n == MergeIps(s, list) IN
           /\ n \in UNION {[D -> Rules] : D \in SUBSET Ips}
           /\ \A k \in DOMAIN s.ip, c \in Columns :
                 s.ip[k][c] # "unset" => k \in DOMAIN n /\ n[k][c] = s.ip[k][c]
  <1> DEFINE n == MergeIps(s, list)
             heard == {ip \in Ips : At(list, ip) # {}}
             E == DOMAIN s.ip \cup heard
             New(k) == [c \in Columns |-> IF Entry(s.ip, k, c) # "unset" THEN s.ip[k][c]
                                          ELSE Uniform(s, list, At(list, k), c)]
  <1>1. n = [k \in E |-> IF k \in heard THEN New(k) ELSE s.ip[k]]
    BY DEF MergeIps
  <1>2. \A k : New(k) \in Rules
    <2> SUFFICES ASSUME NEW k, NEW c \in Columns
                 PROVE  (IF Entry(s.ip, k, c) # "unset" THEN s.ip[k][c]
                         ELSE Uniform(s, list, At(list, k), c)) \in {"on", "off", "unset"}
      BY DEF Rules
    <2> QED BY EntryTyped, UniformTyped
  <1>3. \A k, c : c \in Columns /\ Entry(s.ip, k, c) # "unset" => New(k)[c] = s.ip[k][c]
    OBVIOUS
  <1> HIDE DEF New, heard
  <1>4. E \in SUBSET Ips
    BY RuleSetMeans DEF heard
  <1>5. n \in [E -> Rules]
    BY <1>1, <1>2, RuleSetMeans
  <1>6. \A k \in DOMAIN s.ip, c \in Columns :
           s.ip[k][c] # "unset" => k \in DOMAIN n /\ n[k][c] = s.ip[k][c]
    BY <1>1, <1>3 DEF Entry
  <1> HIDE DEF n
  <1> QED BY <1>4, <1>5, <1>6 DEF n

\* A completed rule has no column unset, and keeps those that were set.
LEMMA CompleteMeans ==
    ASSUME NEW r \in Rules, NEW c \in Columns, NEW v \in Said
    PROVE  /\ Complete(r, c, v) \in Rules
           /\ \A x \in Columns : Complete(r, c, v)[x] # "unset"
           /\ Complete(r, c, v)[c] = v
           /\ \A x \in Columns : (x # c /\ r[x] # "unset") => Complete(r, c, v)[x] = r[x]
  <1>1. \A x \in Columns : r[x] \in {"on", "off", "unset"}
    BY RuleMeans
  <1> QED BY <1>1 DEF Complete, Rules, Said

\* updateDeviceRule for the row of an address: the devices listed at it and the address
\* get the new value in the column; nothing else that is set changes.
LEMMA UpdateIpMeans ==
    ASSUME NEW s \in RuleSets, Settled(s), NEW list \in DeviceLists, NEW ip \in Ips,
           NEW c \in Columns, NEW v \in Said
    PROVE  LET n == UpdateIp(s, list, ip, c, v) IN
           /\ n \in RuleSets /\ Settled(n)
           /\ \A d \in At(list, ip) : d \in DOMAIN n.id /\ n.id[d][c] = v
           /\ \A d \in DOMAIN s.id \cap Devices, x \in Columns :
                 (d \notin At(list, ip) \/ x # c) => d \in DOMAIN n.id /\ n.id[d][x] = s.id[d][x]
           /\ ip \in DOMAIN n.ip /\ n.ip[ip][c] = v
           /\ \A k \in DOMAIN s.ip, x \in Columns :
                 ((k # ip \/ x # c) /\ s.ip[k][x] # "unset")
                   => k \in DOMAIN n.ip /\ n.ip[k][x] = s.ip[k][x]
  <1> DEFINE n == UpdateIp(s, list, ip, c, v)
             o == Other(c)
             r == IF ip \in DOMAIN s.ip THEN s.ip[ip]
                  ELSE IF ip \in DOMAIN s.id THEN s.id[ip] ELSE Unset
             other == IF r[o] # "unset" THEN r[o] ELSE Uniform(s, list, At(list, ip), o)
             row == [x \in Columns |-> IF x = c THEN v ELSE other]
             A == At(list, ip)
             device(d) == Complete(RuleOf(s, d, ip), c, v)
             ids == [k \in DOMAIN s.id \cup A |-> IF k \in A THEN device(k) ELSE s.id[k]]
             ips == [k \in DOMAIN s.ip \cup {ip} |-> IF k \in {ip} THEN row ELSE s.ip[k]]
  <1>1. n = [id |-> ids, ip |-> ips]
    BY DEF UpdateIp, With
  <1>2. r \in Rules /\ o \in Columns /\ o # c /\ \A x \in Columns : x = c \/ x = o
    BY RuleSetMeans, UnsetTyped DEF Other, Columns
  <1>3. other \in {"on", "off", "unset"} /\ (r[o] # "unset" => other = r[o])
    <2> HIDE DEF r
    <2> QED BY <1>2, RuleMeans, UniformTyped
  <1>4. row \in Rules /\ row[c] = v /\ row[o] = other
    <2> HIDE DEF other, o
    <2> QED BY <1>2, <1>3 DEF Rules, Said
  <1>5. A \subseteq Devices
    BY ListMeans DEF At
  <1>6. \A d : /\ device(d) \in Rules /\ device(d)[c] = v
               /\ \A x \in Columns : /\ device(d)[x] # "unset"
                                     /\ (x # c /\ RuleOf(s, d, ip)[x] # "unset")
                                          => device(d)[x] = RuleOf(s, d, ip)[x]
    BY RuleOfTyped, CompleteMeans
  <1>7. \A d \in DOMAIN s.id : RuleOf(s, d, ip) = s.id[d]
    BY DEF RuleOf
  <1> HIDE DEF device, A
  <1>8. /\ ids \in [DOMAIN s.id \cup A -> Rules] /\ DOMAIN s.id \cup A \in SUBSET (Devices \cup Ips)
    BY <1>5, <1>6, RuleSetMeans
  <1>9. /\ \A d \in A : d \in DOMAIN ids /\ ids[d][c] = v
        /\ \A d \in DOMAIN ids \cap Devices, x \in Columns : ids[d][x] # "unset"
        /\ \A d \in DOMAIN s.id \cap Devices, x \in Columns :
              (d \notin A \/ x # c) => d \in DOMAIN ids /\ ids[d][x] = s.id[d][x]
    BY <1>6, <1>7 DEF Settled
  <1> HIDE DEF ids, row, other
  <1>10. /\ ips \in [DOMAIN s.ip \cup {ip} -> Rules] /\ DOMAIN s.ip \cup {ip} \in SUBSET Ips
    BY <1>4, RuleSetMeans
  <1>11. ip \in DOMAIN ips /\ ips[ip][c] = v
    BY <1>4
  <1>12. \A k \in DOMAIN s.ip, x \in Columns :
            ((k # ip \/ x # c) /\ s.ip[k][x] # "unset")
              => k \in DOMAIN ips /\ ips[k][x] = s.ip[k][x]
    <2> SUFFICES ASSUME NEW k \in DOMAIN s.ip, NEW x \in Columns, k # ip \/ x # c,
                        s.ip[k][x] # "unset"
                 PROVE  k \in DOMAIN ips /\ ips[k][x] = s.ip[k][x]
      OBVIOUS
    <2>1. CASE k # ip
      BY <2>1
    <2>2. CASE k = ip /\ x # c
      <3>1. r = s.ip[ip] /\ x = o
        BY <1>2, <2>2
      <3> HIDE DEF r
      <3> QED BY <1>3, <1>4, <2>2, <3>1
    <2> QED BY <2>1, <2>2
  <1> HIDE DEF ips
  <1>13. n.id = ids /\ n.ip = ips
    BY <1>1
  <1>14. n \in RuleSets
    BY <1>1, <1>8, <1>10 DEF RuleSets
  <1> HIDE DEF n
  <1>15. Settled(n)
    BY <1>9, <1>13 DEF Settled
  <1> QED BY <1>9, <1>11, <1>12, <1>13, <1>14, <1>15 DEF n, A

\* updateDeviceRule for the row of a device: the device and the address it is at get the
\* new value; nothing else that is set changes.
LEMMA UpdateIdMeans ==
    ASSUME NEW s \in RuleSets, Settled(s), NEW list \in DeviceLists, NEW d \in Peers,
           NEW c \in Columns, NEW v \in Said
    PROVE  LET n == UpdateId(s, list, d, c, v)
               moved == IF d \in DOMAIN list THEN {list[d]} ELSE {}
           IN
           /\ n \in RuleSets /\ Settled(n)
           /\ d \in DOMAIN n.id /\ n.id[d][c] = v
           /\ \A k \in DOMAIN s.id \cap Devices, x \in Columns :
                 (k # d \/ x # c) => k \in DOMAIN n.id /\ n.id[k][x] = s.id[k][x]
           /\ \A k \in moved \cap Ips : k \in DOMAIN n.ip /\ n.ip[k][c] = v
           /\ \A k \in DOMAIN s.ip \ moved : k \in DOMAIN n.ip /\ n.ip[k] = s.ip[k]
  <1> DEFINE n == UpdateId(s, list, d, c, v)
             r == IF d \in DOMAIN list THEN RuleOf(s, d, list[d])
                  ELSE IF d \in DOMAIN s.id THEN s.id[d] ELSE Unset
             next == Complete(r, c, v)
             moved == IF d \in DOMAIN list THEN {list[d]} ELSE {}
             A == IF d \in DOMAIN list THEN {list[d]} \cap Ips ELSE {}
             ids == [k \in DOMAIN s.id \cup {d} |-> IF k \in {d} THEN next ELSE s.id[k]]
             ips == [k \in DOMAIN s.ip \cup A |-> IF k \in A THEN next ELSE s.ip[k]]
  <1>1. n = [id |-> ids, ip |-> ips]
    BY DEF UpdateId, With
  <1>2. r \in Rules /\ (d \in DOMAIN s.id => r = s.id[d])
    BY RuleSetMeans, UnsetTyped, RuleOfTyped DEF RuleOf
  <1>3. A = moved \cap Ips /\ d \in Devices
    BY DEF Devices
  <1> HIDE DEF r
  <1>4. /\ next \in Rules /\ next[c] = v
        /\ \A x \in Columns : /\ next[x] # "unset"
                              /\ (x # c /\ r[x] # "unset") => next[x] = r[x]
    BY <1>2, CompleteMeans
  <1> HIDE DEF next, A, moved
  <1>5. /\ ids \in [DOMAIN s.id \cup {d} -> Rules]
        /\ DOMAIN s.id \cup {d} \in SUBSET (Devices \cup Ips)
        /\ ips \in [DOMAIN s.ip \cup A -> Rules] /\ DOMAIN s.ip \cup A \in SUBSET Ips
    BY <1>3, <1>4, RuleSetMeans
  <1>6. /\ d \in DOMAIN ids /\ ids[d][c] = v
        /\ \A k \in DOMAIN ids \cap Devices, x \in Columns : ids[k][x] # "unset"
        /\ \A k \in DOMAIN s.id \cap Devices, x \in Columns :
              (k # d \/ x # c) => k \in DOMAIN ids /\ ids[k][x] = s.id[k][x]
    BY <1>2, <1>3, <1>4 DEF Settled
  <1>7. /\ \A k \in moved \cap Ips : k \in DOMAIN ips /\ ips[k][c] = v
        /\ \A k \in DOMAIN s.ip \ moved : k \in DOMAIN ips /\ ips[k] = s.ip[k]
    BY <1>3, <1>4
  <1> HIDE DEF ids, ips
  <1>8. n.id = ids /\ n.ip = ips
    BY <1>1
  <1>9. n \in RuleSets
    BY <1>1, <1>5 DEF RuleSets
  <1> HIDE DEF n
  <1>10. Settled(n)
    BY <1>6, <1>8 DEF Settled
  <1> QED BY <1>6, <1>7, <1>8, <1>9, <1>10 DEF n, moved

\* Both at once: what a click changes, and all it changes.
LEMMA UpdateMeans ==
    ASSUME NEW s \in RuleSets, Settled(s), NEW list \in DeviceLists, NEW key \in Ips \cup Peers,
           NEW c \in Columns, NEW v \in Said
    PROVE  LET n == Update(s, list, key, c, v) IN
           /\ n \in RuleSets /\ Settled(n)
           /\ \A d \in RowOf(list, key) : d \in DOMAIN n.id /\ n.id[d][c] = v
           /\ \A d \in DOMAIN s.id \cap Devices, x \in Columns :
                 (d \notin RowOf(list, key) \/ x # c)
                   => d \in DOMAIN n.id /\ n.id[d][x] = s.id[d][x]
           /\ \A k \in Ips : (k = key \/ k \in MovedTo(list, key))
                               => k \in DOMAIN n.ip /\ n.ip[k][c] = v
           /\ \A k \in DOMAIN s.ip, x \in Columns :
                 (k \notin MovedTo(list, key) /\ (k # key \/ x # c) /\ s.ip[k][x] # "unset")
                   => k \in DOMAIN n.ip /\ n.ip[k][x] = s.ip[k][x]
  <1> DEFINE n == Update(s, list, key, c, v)
  <1>1. CASE key \in Ips
    <2>1. MovedTo(list, key) = {} /\ RowOf(list, key) = At(list, key)
      BY <1>1, ListMeans, RulesAssumption DEF MovedTo, RowOf, Devices
    <2>2. n = UpdateIp(s, list, key, c, v)
      BY <1>1 DEF Update
    <2> QED BY <1>1, <2>1, <2>2, UpdateIpMeans
  <1>2. CASE key \in Peers /\ key \notin Ips
    <2>1. MovedTo(list, key) = IF key \in DOMAIN list THEN {list[key]} ELSE {}
      BY DEF MovedTo
    <2>2. RowOf(list, key) = {key}
      BY <1>2 DEF RowOf
    <2>3. n = UpdateId(s, list, key, c, v)
      BY <1>2 DEF Update
    <2> QED BY <1>2, <2>1, <2>2, <2>3, UpdateIdMeans
  <1> QED BY <1>1, <1>2

\* A list of devices that is merged changes nothing that is set; a device that is new
\* takes what is set for its address.
LEMMA MergeMeans ==
    ASSUME NEW s \in RuleSets, NEW list \in DeviceLists, Settled(s)
    PROVE  LET n == Merge(s, list) IN
           /\ n \in RuleSets /\ Settled(n)
           /\ \A k \in DOMAIN s.id \cap Devices, c \in Columns :
                 k \in DOMAIN n.id /\ n.id[k][c] = s.id[k][c]
           /\ \A k \in DOMAIN list \ DOMAIN s.id, c \in Columns :
                 Entry(s.ip, list[k], c) # "unset"
                   => k \in DOMAIN n.id /\ n.id[k][c] = Entry(s.ip, list[k], c)
           /\ \A k \in DOMAIN s.ip, c \in Columns :
                 s.ip[k][c] # "unset" => k \in DOMAIN n.ip /\ n.ip[k][c] = s.ip[k][c]
  <1> DEFINE ids == MergeIds(s, list)
             ips == MergeIps(s, list)
             n == Merge(s, list)
  <1>1. /\ ids \in UNION {[D -> Rules] : D \in SUBSET (Devices \cup Ips)}
        /\ DOMAIN ids = DOMAIN s.id \cup DOMAIN list
        /\ \A k \in DOMAIN ids \cap Devices, c \in Columns : ids[k][c] # "unset"
        /\ \A k \in DOMAIN s.id \cap Devices, c \in Columns : ids[k][c] = s.id[k][c]
        /\ \A k \in DOMAIN list \ DOMAIN s.id, c \in Columns :
              Entry(s.ip, list[k], c) # "unset" => ids[k][c] = Entry(s.ip, list[k], c)
    BY MergeIdsMeans
  <1>2. /\ ips \in UNION {[D -> Rules] : D \in SUBSET Ips}
        /\ \A k \in DOMAIN s.ip, c \in Columns :
              s.ip[k][c] # "unset" => k \in DOMAIN ips /\ ips[k][c] = s.ip[k][c]
    BY MergeIpsMeans
  <1> HIDE DEF ids, ips
  <1>3. n = [id |-> ids, ip |-> ips]
    BY DEF Merge, ids, ips
  <1>4. n.id = ids /\ n.ip = ips /\ n \in RuleSets
    BY <1>1, <1>2, <1>3 DEF RuleSets
  <1> HIDE DEF n
  <1>5. Settled(n)
    BY <1>1, <1>4 DEF Settled
  <1> QED BY <1>1, <1>2, <1>4, <1>5 DEF n

(***************************************************************************)
(* What the next update does to the rules and the choices.                  *)
(***************************************************************************)

\* An update in the queue is a list to merge, or rules with the click they come from.
LEMMA UpdateTyped ==
    ASSUME NEW u \in Merges \cup Patches
    PROVE  /\ u.list \in DeviceLists
           /\ Setting(u) => u \in Patches /\ u.rules \in RuleSets /\ u.before \in RuleSets
                            /\ u.toggle \in Toggles
           /\ ~Setting(u) => u \in Merges
  BY DEF Merges, Patches, Setting

\* The next update keeps the rules well formed.
LEMMA OutcomeMeans ==
    ASSUME settings \in RuleSets, Settled(settings), NEW u \in Merges \cup Patches, NEW ch,
           Setting(u) => Computed(u, ch)
    PROVE  Outcome(u) \in RuleSets /\ Settled(Outcome(u))
  <1>1. CASE Setting(u)
    <2>1. /\ u.before \in RuleSets /\ Settled(u.before) /\ u.list \in DeviceLists
          /\ u.toggle.key \in Ips \cup Peers /\ u.toggle.column \in Columns
          /\ u.toggle.value \in Said
          /\ u.rules = Update(u.before, u.list, u.toggle.key, u.toggle.column, u.toggle.value)
      BY <1>1, UpdateTyped DEF Computed, Toggles, Said
    <2>2. Settled(u.rules)
      BY <2>1, UpdateMeans
    <2> QED BY <1>1, <2>2, UpdateTyped DEF Outcome
  <1>2. CASE ~Setting(u)
    BY <1>2, UpdateTyped, MergeMeans DEF Outcome
  <1> QED BY <1>1, <1>2

\* The rules computed for a click hold the choices that stand after it: of devices whose
\* rule has not changed since the click was served, and of addresses.
LEMMA ChosenMeans ==
    ASSUME settings \in RuleSets, choice \in [Peers -> Choices], ipChoice \in [Ips -> Choices],
           IdsChosen(settings, choice),
           NEW u \in Patches, Computed(u, ipChoice), Chosen(u)
    PROVE  /\ choice' \in [Peers -> Choices] /\ ipChoice' \in [Ips -> Choices]
           /\ IdsChosen(u.rules, choice') /\ IpsChosen(u.rules, ipChoice')
  <1> DEFINE t == u.toggle
             row == RowOf(u.list, t.key)
             moved == MovedTo(u.list, t.key)
             n == u.rules
             b == u.before
  <1>1. /\ t.key \in Ips \cup Peers /\ t.column \in Columns /\ t.value \in Said
        /\ b \in RuleSets /\ Settled(b) /\ u.list \in DeviceLists /\ IpsChosen(b, ipChoice)
        /\ n = Update(b, u.list, t.key, t.column, t.value)
    BY DEF Patches, Toggles, Said, Computed
  <1>2. /\ \A d \in row : d \in DOMAIN n.id /\ n.id[d][t.column] = t.value
        /\ \A d \in DOMAIN b.id \cap Devices, x \in Columns :
              (d \notin row \/ x # t.column) => d \in DOMAIN n.id /\ n.id[d][x] = b.id[d][x]
        /\ \A k \in Ips : (k = t.key \/ k \in moved)
                            => k \in DOMAIN n.ip /\ n.ip[k][t.column] = t.value
        /\ \A k \in DOMAIN b.ip, x \in Columns :
              (k \notin moved /\ (k # t.key \/ x # t.column) /\ b.ip[k][x] # "unset")
                => k \in DOMAIN n.ip /\ n.ip[k][x] = b.ip[k][x]
    BY <1>1, UpdateMeans
  <1>3. /\ choice' = [d \in Peers |-> [c \in Columns |->
              CASE d \in row /\ c = t.column -> t.value
                [] (d \notin row \/ c # t.column) /\ Overtaken(u, d, c) -> "none"
                [] OTHER -> choice[d][c]]]
        /\ ipChoice' = [ip \in Ips |->
              CASE ip = t.key -> [ipChoice[ip] EXCEPT ![t.column] = t.value]
                [] ip \in moved -> [NoChoice EXCEPT ![t.column] = t.value]
                [] OTHER -> ipChoice[ip]]
    BY DEF Chosen, RowOf, MovedTo
  <1>4. /\ \A d \in Peers, c \in Columns : choice[d][c] \in {"on", "off", "none"}
        /\ \A k \in Ips : ipChoice[k] \in Choices
        /\ NoChoice \in Choices /\ \A c \in Columns : NoChoice[c] = "none"
    BY DEF Choices, NoChoice
  <1> HIDE DEF t, row, moved, n, b
  <1>5. choice' \in [Peers -> Choices]
    <2>1. \A d \in Peers, c \in Columns :
            (CASE d \in row /\ c = t.column -> t.value
               [] (d \notin row \/ c # t.column) /\ Overtaken(u, d, c) -> "none"
               [] OTHER -> choice[d][c]) \in {"on", "off", "none"}
      BY <1>1, <1>4 DEF Said
    <2> QED BY <1>3, <2>1 DEF Choices
  <1>6. ipChoice' \in [Ips -> Choices]
    <2>1. \A q \in Choices : [q EXCEPT ![t.column] = t.value] \in Choices
      BY <1>1 DEF Choices, Said
    <2> QED BY <1>3, <1>4, <2>1
  <1>7. IdsChosen(n, choice')
    <2> SUFFICES ASSUME NEW d \in Peers, NEW c \in Columns, choice'[d][c] # "none"
                 PROVE  d \in DOMAIN n.id /\ n.id[d][c] = choice'[d][c]
      BY DEF IdsChosen
    <2>1. CASE d \in row /\ c = t.column
      BY <1>2, <1>3, <2>1
    <2>2. CASE d \notin row \/ c # t.column
      <3>1. choice'[d][c] = choice[d][c] /\ ~Overtaken(u, d, c)
        BY <1>3, <2>2
      <3>2. /\ Entry(settings.id, d, c) = choice[d][c] /\ choice[d][c] # "unset"
        BY <1>4, <3>1 DEF IdsChosen, Entry
      <3>3. Entry(b.id, d, c) = choice[d][c]
        BY <3>1, <3>2 DEF Overtaken, b
      <3>4. d \in DOMAIN b.id /\ b.id[d][c] = choice[d][c] /\ d \in Devices
        BY <3>2, <3>3 DEF Entry, Devices
      <3> QED BY <1>2, <2>2, <3>1, <3>4
    <2> QED BY <2>1, <2>2
  <1>8. IpsChosen(n, ipChoice')
    <2> SUFFICES ASSUME NEW k \in Ips, NEW c \in Columns, ipChoice'[k][c] # "none"
                 PROVE  k \in DOMAIN n.ip /\ n.ip[k][c] = ipChoice'[k][c]
      BY DEF IpsChosen
    <2>1. CASE (k = t.key \/ k \in moved) /\ c = t.column
      <3>1. ipChoice'[k][c] = t.value
        BY <1>1, <1>3, <1>4, <2>1 DEF Choices
      <3> QED BY <1>2, <2>1, <3>1
    <2>2. CASE k = t.key /\ c # t.column
      <3>1. ipChoice'[k][c] = ipChoice[k][c]
        BY <1>3, <1>4, <2>2 DEF Choices
      <3>2. k \in DOMAIN b.ip /\ b.ip[k][c] = ipChoice[k][c] /\ ipChoice[k][c] # "unset"
        BY <1>1, <1>4, <3>1 DEF IpsChosen, Choices
      <3>3. k \notin moved
        BY <1>1, <2>2, ListMeans, RulesAssumption DEF moved, MovedTo, Devices
      <3> QED BY <1>2, <2>2, <3>1, <3>2, <3>3
    <2>3. CASE k # t.key /\ k \in moved /\ c # t.column
      BY <1>3, <1>4, <2>3 DEF Choices
    <2>4. CASE k # t.key /\ k \notin moved
      <3>1. ipChoice'[k][c] = ipChoice[k][c]
        BY <1>3, <2>4
      <3>2. k \in DOMAIN b.ip /\ b.ip[k][c] = ipChoice[k][c] /\ ipChoice[k][c] # "unset"
        BY <1>1, <1>4, <3>1 DEF IpsChosen, Choices
      <3> QED BY <1>2, <2>4, <3>1, <3>2
    <2> QED BY <2>1, <2>2, <2>3, <2>4
  <1> QED BY <1>5, <1>6, <1>7, <1>8 DEF n

\* The rules a list was merged into hold the choices that stand after it.
LEMMA InheritsMeans ==
    ASSUME settings \in RuleSets, Settled(settings), choice \in [Peers -> Choices],
           ipChoice \in [Ips -> Choices], IdsChosen(settings, choice),
           IpsChosen(settings, ipChoice), NEW u \in Merges, Inherits(u)
    PROVE  LET n == Merge(settings, u.list) IN
           /\ choice' \in [Peers -> Choices] /\ ipChoice' = ipChoice
           /\ IdsChosen(n, choice') /\ IpsChosen(n, ipChoice')
  <1> DEFINE n == Merge(settings, u.list)
             l == u.list
             s == settings
             New(d) == d \in DOMAIN l \ DOMAIN s.id /\ l[d] \in Ips
  <1>1. l \in DeviceLists
    BY DEF Merges
  <1>2. /\ \A k \in DOMAIN s.id \cap Devices, c \in Columns :
              k \in DOMAIN n.id /\ n.id[k][c] = s.id[k][c]
        /\ \A k \in DOMAIN l \ DOMAIN s.id, c \in Columns :
              Entry(s.ip, l[k], c) # "unset"
                => k \in DOMAIN n.id /\ n.id[k][c] = Entry(s.ip, l[k], c)
        /\ \A k \in DOMAIN s.ip, c \in Columns :
              s.ip[k][c] # "unset" => k \in DOMAIN n.ip /\ n.ip[k][c] = s.ip[k][c]
    BY <1>1, MergeMeans
  <1>3. /\ choice' = [d \in Peers |-> IF New(d) THEN ipChoice[l[d]] ELSE choice[d]]
        /\ ipChoice' = ipChoice
    BY DEF Inherits
  <1>4. /\ \A d \in Peers, c \in Columns : choice[d][c] \in {"on", "off", "none"}
        /\ \A k \in Ips : ipChoice[k] \in Choices
        /\ \A k \in Ips, c \in Columns : ipChoice[k][c] \in {"on", "off", "none"}
    BY DEF Choices
  <1> HIDE DEF n, l, s
  <1>5. choice' \in [Peers -> Choices]
    BY <1>3, <1>4
  <1>6. IdsChosen(n, choice')
    <2> SUFFICES ASSUME NEW d \in Peers, NEW c \in Columns, choice'[d][c] # "none"
                 PROVE  d \in DOMAIN n.id /\ n.id[d][c] = choice'[d][c]
      BY DEF IdsChosen
    <2>1. CASE New(d)
      <3>1. choice'[d][c] = ipChoice[l[d]][c] /\ l[d] \in Ips
        BY <1>3, <2>1
      <3>2. Entry(s.ip, l[d], c) = ipChoice[l[d]][c] /\ ipChoice[l[d]][c] # "unset"
        BY <1>4, <3>1 DEF IpsChosen, Entry, s
      <3> QED BY <1>2, <2>1, <3>1, <3>2
    <2>2. CASE ~New(d)
      <3>1. choice'[d][c] = choice[d][c]
        BY <1>3, <2>2
      <3>2. d \in DOMAIN s.id \cap Devices /\ s.id[d][c] = choice[d][c]
        BY <3>1 DEF IdsChosen, s, Devices
      <3> QED BY <1>2, <3>1, <3>2
    <2> QED BY <2>1, <2>2
  <1>7. IpsChosen(n, ipChoice')
    <2> SUFFICES ASSUME NEW k \in Ips, NEW c \in Columns, ipChoice[k][c] # "none"
                 PROVE  k \in DOMAIN n.ip /\ n.ip[k][c] = ipChoice[k][c]
      BY <1>3 DEF IpsChosen
    <2>1. k \in DOMAIN s.ip /\ s.ip[k][c] = ipChoice[k][c] /\ s.ip[k][c] # "unset"
      BY <1>4 DEF IpsChosen, s
    <2> QED BY <1>2, <2>1
  <1> QED BY <1>3, <1>5, <1>6, <1>7 DEF n, l, s

\* Either way the next update keeps the choices.
LEMMA ChoosesMeans ==
    ASSUME SharingInv, NEW u \in Merges \cup Patches, Setting(u) => Computed(u, ipChoice),
           Chooses(u)
    PROVE  /\ Outcome(u) \in RuleSets /\ Settled(Outcome(u))
           /\ choice' \in [Peers -> Choices] /\ ipChoice' \in [Ips -> Choices]
           /\ IdsChosen(Outcome(u), choice') /\ IpsChosen(Outcome(u), ipChoice')
           /\ ~Setting(u) => ipChoice' = ipChoice
  <1>1. /\ settings \in RuleSets /\ Settled(settings) /\ choice \in [Peers -> Choices]
        /\ ipChoice \in [Ips -> Choices] /\ IdsChosen(settings, choice)
        /\ IpsChosen(settings, ipChoice)
    BY DEF SharingInv, TypeOK
  <1>2. Outcome(u) \in RuleSets /\ Settled(Outcome(u))
    BY <1>1, OutcomeMeans
  <1>3. CASE Setting(u)
    <2>1. u \in Patches /\ Chosen(u) /\ Outcome(u) = u.rules
      BY <1>3, UpdateTyped DEF Chooses, Outcome
    <2> QED BY <1>1, <1>2, <1>3, <2>1, ChosenMeans
  <1>4. CASE ~Setting(u)
    <2>1. u \in Merges /\ Inherits(u) /\ Outcome(u) = Merge(settings, u.list)
      BY <1>4, UpdateTyped DEF Chooses, Outcome
    <2> QED BY <1>1, <1>2, <2>1, InheritsMeans
  <1> QED BY <1>3, <1>4

(***************************************************************************)
(* Every step keeps the invariant.                                          *)
(***************************************************************************)

\* A file that is not known to hold anything is no set of rules.
LEMMA NoRuleMeans == Nothing \notin RuleSets
  <1>1. \A s \in RuleSets : DOMAIN s = {"id", "ip"}
    BY DEF RuleSets
  <1>2. DOMAIN Nothing = {"id"}
    BY DEF Nothing
  <1> QED BY <1>1, <1>2

\* The end and the head of a queue.
LEMMA QueueMeans ==
    ASSUME NEW S, NEW q \in Seq(S)
    PROVE  /\ \A x \in S : /\ Append(q, x) \in Seq(S) /\ Append(q, x) # <<>>
                           /\ DOMAIN Append(q, x) = DOMAIN q \cup {Len(q) + 1}
                           /\ Append(q, x)[Len(q) + 1] = x
                           /\ \A m \in DOMAIN q : Append(q, x)[m] = q[m]
           /\ q # <<>> => /\ Head(q) \in S /\ Head(q) = q[1] /\ 1 \in DOMAIN q
                          /\ Tail(q) \in Seq(S)
                          /\ \A m \in DOMAIN Tail(q) :
                                /\ m + 1 \in DOMAIN q /\ m + 1 # 1
                                /\ Tail(q)[m] = q[m + 1]
                          /\ \A m, n \in DOMAIN Tail(q) : m + 1 = n + 1 => m = n
  <1>1. q \in [1 .. Len(q) -> S] /\ Len(q) \in Nat /\ DOMAIN q = 1 .. Len(q)
    OBVIOUS
  <1>2. ASSUME NEW x \in S
        PROVE  /\ Append(q, x) \in Seq(S) /\ Append(q, x) # <<>>
               /\ DOMAIN Append(q, x) = DOMAIN q \cup {Len(q) + 1}
               /\ Append(q, x)[Len(q) + 1] = x
               /\ \A m \in DOMAIN q : Append(q, x)[m] = q[m]
    <2>1. /\ Append(q, x) \in Seq(S) /\ Len(Append(q, x)) = Len(q) + 1
          /\ DOMAIN Append(q, x) = 1 .. Len(Append(q, x)) /\ Len(<<>>) = 0
      OBVIOUS
    <2>2. /\ Append(q, x)[Len(q) + 1] = x
          /\ \A m \in DOMAIN q : Append(q, x)[m] = q[m]
      OBVIOUS
    <2>3. 1 .. Len(q) + 1 = (1 .. Len(q)) \cup {Len(q) + 1}
      BY <1>1
    <2> QED BY <1>1, <2>1, <2>2, <2>3
  <1>3. ASSUME q # <<>>
        PROVE  /\ Head(q) \in S /\ Head(q) = q[1] /\ 1 \in DOMAIN q
               /\ Tail(q) \in Seq(S)
               /\ \A m \in DOMAIN Tail(q) :
                     /\ m + 1 \in DOMAIN q /\ m + 1 # 1
                     /\ Tail(q)[m] = q[m + 1]
               /\ \A m, n \in DOMAIN Tail(q) : m + 1 = n + 1 => m = n
    <2>1. 1 \in DOMAIN q /\ Head(q) = q[1]
      BY <1>3
    <2>2. Tail(q) \in Seq(S) /\ DOMAIN Tail(q) = 1 .. (Len(q) - 1)
      BY <1>3
    <2>3. \A m \in 1 .. (Len(q) - 1) : Tail(q)[m] = q[m + 1]
      BY <1>3
    <2> QED BY <1>1, <2>1, <2>2, <2>3
  <1> QED BY <1>2, <1>3

\* The empty queue.
LEMMA NoneMeans == <<>> \in Seq(Merges \cup Patches) /\ <<>> \in Seq(Toggles) /\ DOMAIN <<>> = {}
  OBVIOUS

\* The empty list of devices.
LEMMA EmptyListed == [d \in {} |-> Hidden] \in DeviceLists
  <1>1. [d \in {} |-> Hidden] \in [{} -> Ips \cup {Hidden}]
    OBVIOUS
  <1> QED BY <1>1 DEF DeviceLists

\* The hub's lists are lists of devices.
LEMMA HubListTyped == HubLists \subseteq DeviceLists
  <1> SUFFICES ASSUME NEW list \in HubLists PROVE list \in DeviceLists
    OBVIOUS
  <1>1. PICK D \in SUBSET Peers : \E place \in [D -> Addresses] :
            list = [d \in D \cup {Self} |-> IF d = Self THEN Home ELSE place[d]]
    BY DEF HubLists
  <1>2. PICK place \in [D -> Addresses] :
            list = [d \in D \cup {Self} |-> IF d = Self THEN Home ELSE place[d]]
    BY <1>1
  <1>3. \A d \in D \cup {Self} :
            (IF d = Self THEN Home ELSE place[d]) \in Ips \cup {Hidden}
    BY SettingsAssumption
  <1>4. list \in [D \cup {Self} -> Ips \cup {Hidden}]
    BY <1>2, <1>3
  <1>5. D \cup {Self} \in SUBSET Devices
    BY DEF Devices
  <1> QED BY <1>4, <1>5 DEF DeviceLists

\* Settings of an older version hold no rule of a device.
LEMMA OldMeans ==
    ASSUME NEW s \in Old
    PROVE  s \in RuleSets /\ Settled(s)
  <1>1. Empty \in [{} -> Rules] /\ {} \in SUBSET Ips /\ {} \in SUBSET (Devices \cup Ips)
    BY DEF Empty
  <1>2. CASE s = [id |-> Empty, ip |-> Empty]
    BY <1>1, <1>2 DEF RuleSets, Settled
  <1>3. ASSUME NEW ip \in Ips,
               s = [id |-> [k \in {ip} |-> [Unset EXCEPT !["receive"] = "off"]], ip |-> Empty]
        PROVE  s \in RuleSets /\ Settled(s)
    <2>1. [Unset EXCEPT !["receive"] = "off"] \in Rules
      BY DEF Unset, Rules
    <2>2. s.id \in [{ip} -> Rules] /\ {ip} \in SUBSET (Devices \cup Ips)
      BY <1>3, <2>1
    <2>3. s \in RuleSets
      BY <1>1, <1>3, <2>2 DEF RuleSets
    <2>4. DOMAIN s.id \cap Devices = {}
      BY <2>2, RulesAssumption DEF Devices
    <2> QED BY <2>3, <2>4 DEF Settled
  <1> QED BY <1>2, <1>3 DEF Old

\* At the start.
LEMMA SharingInit == Init => SharingInv
  <1> SUFFICES ASSUME Init PROVE SharingInv
    OBVIOUS
  <1>1. settings \in RuleSets /\ Settled(settings)
    BY OldMeans DEF Init
  <1>2. NoChoice \in Choices /\ \A c \in Columns : NoChoice[c] = "none"
    BY DEF Choices, NoChoice
  <1>3. TypeOK
    BY <1>1, <1>2, EmptyListed, NoneMeans DEF Init, TypeOK
  <1>4. IdsChosen(settings, choice) /\ IpsChosen(settings, ipChoice)
    BY <1>2 DEF Init, IdsChosen, IpsChosen
  <1>5. Queued
    BY NoneMeans DEF Init, Queued
  <1>6. Same
    BY DEF Init, Same
  <1> QED BY <1>1, <1>3, <1>4, <1>5, <1>6 DEF SharingInv

\* The handler of "devices"
LEMMA DevicesHeardKeeps ==
    ASSUME SharingInv, NEW list \in HubLists, DevicesHeard(list)
    PROVE  SharingInv'
  <1> DEFINE u == [kind |-> "merge", list |-> list]
  <1>1. u \in Merges \cup Patches /\ ~Setting(u) /\ list \in DeviceLists
    BY HubListTyped DEF Merges, Setting
  <1>2. /\ UNCHANGED <<settings, file, persisted, toggles, policy, shown, clicked, error, choice,
                       ipChoice>>
        /\ devices' = list /\ updates' = Append(updates, u)
    BY DEF DevicesHeard, window, choices
  <1>3. /\ TypeOK /\ Settled(settings) /\ IdsChosen(settings, choice)
        /\ IpsChosen(settings, ipChoice) /\ Queued /\ Same
    BY DEF SharingInv
  <1> HIDE DEF u
  <1>4. /\ updates' \in Seq(Merges \cup Patches) /\ updates' # <<>>
        /\ DOMAIN updates' = DOMAIN updates \cup {Len(updates) + 1}
        /\ updates'[Len(updates) + 1] = u /\ \A m \in DOMAIN updates : updates'[m] = updates[m]
    BY <1>1, <1>2, <1>3, QueueMeans DEF TypeOK
  <1>5. TypeOK'
    BY <1>1, <1>2, <1>3, <1>4 DEF TypeOK
  <1>6. Settled(settings)' /\ IdsChosen(settings, choice)' /\ IpsChosen(settings, ipChoice)'
    BY <1>2, <1>3
  <1>7. Queued'
    BY <1>1, <1>2, <1>3, <1>4 DEF Queued
  <1>8. Same'
    BY <1>2, <1>3, <1>4 DEF Same
  <1> QED BY <1>5, <1>6, <1>7, <1>8 DEF SharingInv

\* A box of the window
LEMMA ClickKeeps ==
    ASSUME SharingInv, NEW key \in Ips \cup Peers, NEW c \in Columns, Click(key, c)
    PROVE  SharingInv'
  <1> DEFINE box == [key |-> key, column |-> c, value |-> Switch(~Box(key, c))]
  <1>1. box \in Toggles
    BY DEF Toggles, Switch
  <1>2. /\ UNCHANGED <<settings, file, persisted, updates, devices, policy, shown, error, choice,
                       ipChoice>>
        /\ toggles' = Append(toggles, box)
    BY DEF Click, store, choices
  <1>3. /\ TypeOK /\ Settled(settings) /\ IdsChosen(settings, choice)
        /\ IpsChosen(settings, ipChoice) /\ Queued /\ Same
    BY DEF SharingInv
  <1> HIDE DEF box
  <1>4. toggles' \in Seq(Toggles) /\ toggles' # <<>>
    BY <1>1, <1>2, <1>3, QueueMeans DEF TypeOK
  <1>5. TypeOK'
    BY <1>2, <1>3, <1>4 DEF TypeOK
  <1>6. Settled(settings)' /\ IdsChosen(settings, choice)' /\ IpsChosen(settings, ipChoice)'
    BY <1>2, <1>3
  <1>7. Queued'
    BY <1>2, <1>3 DEF Queued
  <1>8. Same'
    BY <1>2, <1>3, <1>4 DEF Same
  <1> QED BY <1>5, <1>6, <1>7, <1>8 DEF SharingInv

\* settingsUpdateQueue: no other rules wait, and these are computed from those in force.
LEMMA ServeToggleKeeps ==
    ASSUME SharingInv, ServeToggle
    PROVE  SharingInv'
  <1> DEFINE t == Head(toggles)
             rules == Update(settings, devices, t.key, t.column, t.value)
             u == [kind |-> "rule", rules |-> rules, toggle |-> t, list |-> devices,
                   before |-> settings]
  <1>1. /\ UNCHANGED <<settings, file, persisted, devices, policy, shown, clicked, error, choice,
                       ipChoice>>
        /\ toggles # <<>> /\ toggles' = Tail(toggles) /\ updates' = Append(updates, u)
        /\ \A m \in DOMAIN updates : ~Setting(updates[m])
    BY DEF ServeToggle, window, choices
  <1>2. /\ TypeOK /\ Settled(settings) /\ IdsChosen(settings, choice)
        /\ IpsChosen(settings, ipChoice) /\ Queued /\ Same
    BY DEF SharingInv
  <1>3. t \in Toggles /\ toggles' \in Seq(Toggles)
    BY <1>1, <1>2, QueueMeans DEF TypeOK
  <1>4. t.key \in Ips \cup Peers /\ t.column \in Columns /\ t.value \in Said
    BY <1>3 DEF Toggles, Said
  <1>5. settings \in RuleSets /\ devices \in DeviceLists
    BY <1>2 DEF TypeOK
  <1> HIDE DEF t
  <1>6. rules \in RuleSets
    BY <1>2, <1>4, <1>5, UpdateMeans
  <1>7. u.rules = rules /\ u.before = settings /\ u.list = devices /\ u.toggle = t
    OBVIOUS
  <1>8. u \in Patches /\ Setting(u)
    <2> HIDE DEF rules
    <2> QED BY <1>3, <1>5, <1>6 DEF Patches, Setting
  <1>9. Computed(u, ipChoice)
    <2> HIDE DEF u
    <2> QED BY <1>2, <1>7 DEF Computed
  <1> HIDE DEF u, rules
  <1>10. /\ updates' \in Seq(Merges \cup Patches) /\ updates' # <<>>
         /\ DOMAIN updates' = DOMAIN updates \cup {Len(updates) + 1}
         /\ updates'[Len(updates) + 1] = u /\ \A m \in DOMAIN updates : updates'[m] = updates[m]
    BY <1>1, <1>2, <1>8, QueueMeans DEF TypeOK
  <1>11. TypeOK'
    BY <1>1, <1>2, <1>3, <1>10 DEF TypeOK
  <1>12. Settled(settings)' /\ IdsChosen(settings, choice)' /\ IpsChosen(settings, ipChoice)'
    BY <1>1, <1>2
  <1>13. Queued'
    <2>1. \A m \in DOMAIN updates' : Setting(updates'[m]) => m = Len(updates) + 1
      BY <1>1, <1>10
    <2> QED BY <1>1, <1>9, <1>10, <2>1 DEF Queued
  <1>14. Same'
    BY <1>1, <1>2, <1>10 DEF Same
  <1> QED BY <1>11, <1>12, <1>13, <1>14 DEF SharingInv

\* The head of the queue, and what is left behind it.
LEMMA HeadMeans ==
    ASSUME SharingInv, updates # <<>>
    PROVE  /\ Head(updates) \in Merges \cup Patches
           /\ Setting(Head(updates)) => Computed(Head(updates), ipChoice)
           /\ Tail(updates) \in Seq(Merges \cup Patches)
           /\ \A m \in DOMAIN Tail(updates) :
                 Setting(Tail(updates)[m]) =>
                   Computed(Tail(updates)[m], ipChoice) /\ ~Setting(Head(updates))
           /\ \A m, n \in DOMAIN Tail(updates) :
                 Setting(Tail(updates)[m]) /\ Setting(Tail(updates)[n]) => m = n
  <1>1. updates \in Seq(Merges \cup Patches) /\ Queued
    BY DEF SharingInv, TypeOK
  <1> DEFINE S == Merges \cup Patches
  <1> HIDE DEF S
  <1>2. updates \in Seq(S)
    BY <1>1 DEF S
  <1>3. /\ Head(updates) \in S /\ Head(updates) = updates[1] /\ 1 \in DOMAIN updates
        /\ Tail(updates) \in Seq(S)
        /\ \A m \in DOMAIN Tail(updates) :
              /\ m + 1 \in DOMAIN updates /\ m + 1 # 1
              /\ Tail(updates)[m] = updates[m + 1]
        /\ \A m, n \in DOMAIN Tail(updates) : m + 1 = n + 1 => m = n
    BY <1>2, QueueMeans
  <1> QED BY <1>1, <1>3 DEF Queued, S

\* updateNow and save: a file left alone holds the same rules already.
LEMMA SaveKeeps ==
    ASSUME SharingInv, Save
    PROVE  SharingInv'
  <1> DEFINE u == Head(updates)
  <1>1. /\ updates # <<>> /\ updates' = Tail(updates) /\ Chooses(u)
        /\ settings' = Outcome(u) /\ Saves(Outcome(u)) /\ policy' = Policy(Outcome(u))
        /\ devices' = devices /\ toggles' = toggles /\ error' = error
        /\ shown' = [settings |-> Outcome(u), devices |-> devices] /\ clicked' = {}
    BY DEF Save, Broadcasts
  <1>2. TypeOK /\ Same
    BY DEF SharingInv
  <1>3. /\ u \in Merges \cup Patches
        /\ Setting(u) => Computed(u, ipChoice)
        /\ updates' \in Seq(Merges \cup Patches)
        /\ \A m \in DOMAIN updates' :
              Setting(updates'[m]) => Computed(updates'[m], ipChoice) /\ ~Setting(u)
        /\ \A m, n \in DOMAIN updates' : Setting(updates'[m]) /\ Setting(updates'[n]) => m = n
    BY <1>1, HeadMeans
  <1> HIDE DEF u
  <1>4. /\ Outcome(u) \in RuleSets /\ Settled(Outcome(u))
        /\ choice' \in [Peers -> Choices] /\ ipChoice' \in [Ips -> Choices]
        /\ IdsChosen(Outcome(u), choice') /\ IpsChosen(Outcome(u), ipChoice')
        /\ ~Setting(u) => ipChoice' = ipChoice
    BY <1>1, <1>3, ChoosesMeans
  <1>5. file' = Outcome(u) /\ persisted' = Outcome(u)
    BY <1>1, <1>2, <1>4, NoRuleMeans DEF Saves, Same
  <1>6. TypeOK'
    BY <1>1, <1>2, <1>3, <1>4, <1>5 DEF TypeOK
  <1>7. Settled(settings)' /\ IdsChosen(settings, choice)' /\ IpsChosen(settings, ipChoice)'
    BY <1>1, <1>4
  <1>8. Queued'
    BY <1>3, <1>4 DEF Queued
  <1>9. Same'
    BY <1>1, <1>5 DEF Same
  <1> QED BY <1>6, <1>7, <1>8, <1>9 DEF SharingInv

\* A failing save
LEMMA SaveFailsKeeps ==
    ASSUME SharingInv, SaveFails
    PROVE  SharingInv'
  <1>1. /\ UNCHANGED <<settings, file, persisted, devices, toggles, policy, choice, ipChoice>>
        /\ updates # <<>> /\ updates' = Tail(updates) /\ error'
        /\ shown' = shown \/ shown' = [settings |-> settings, devices |-> devices]
    BY DEF SaveFails, Broadcasts, choices
  <1>2. /\ TypeOK /\ Settled(settings) /\ IdsChosen(settings, choice)
        /\ IpsChosen(settings, ipChoice) /\ Queued /\ Same
    BY DEF SharingInv
  <1>3. /\ updates' \in Seq(Merges \cup Patches)
        /\ \A m \in DOMAIN updates' : Setting(updates'[m]) => Computed(updates'[m], ipChoice)
        /\ \A m, n \in DOMAIN updates' : Setting(updates'[m]) /\ Setting(updates'[n]) => m = n
    BY <1>1, HeadMeans
  <1>4. TypeOK'
    BY <1>1, <1>2, <1>3 DEF TypeOK
  <1>5. Settled(settings)' /\ IdsChosen(settings, choice)' /\ IpsChosen(settings, ipChoice)'
    BY <1>1, <1>2
  <1>6. Queued'
    BY <1>1, <1>3 DEF Queued
  <1>7. Same'
    BY <1>1, <1>2 DEF Same
  <1> QED BY <1>4, <1>5, <1>6, <1>7 DEF SharingInv

\* The status without its error
LEMMA ErrorExpiresKeeps ==
    ASSUME SharingInv, ErrorExpires
    PROVE  SharingInv'
  <1>1. /\ UNCHANGED <<settings, file, persisted, updates, devices, toggles, policy, choice,
                       ipChoice>>
        /\ shown' = [settings |-> settings, devices |-> devices] /\ clicked' = {}
    BY DEF ErrorExpires, Broadcasts, store, choices
  <1>2. /\ TypeOK /\ Settled(settings) /\ IdsChosen(settings, choice)
        /\ IpsChosen(settings, ipChoice) /\ Queued /\ Same
    BY DEF SharingInv
  <1>3. TypeOK' /\ Queued'
    BY <1>1, <1>2 DEF TypeOK, Queued
  <1>4. Settled(settings)' /\ IdsChosen(settings, choice)' /\ IpsChosen(settings, ipChoice)'
    BY <1>1, <1>2
  <1>5. Same'
    BY <1>1, <1>2 DEF Same
  <1> QED BY <1>3, <1>4, <1>5 DEF SharingInv

\* The client launched again, after a save's rename or not.
LEMMA RestartKeeps ==
    ASSUME SharingInv, NEW renamed \in BOOLEAN, Restart(renamed)
    PROVE  SharingInv'
  <1>1. /\ settings' = file' /\ persisted' = Nothing /\ updates' = <<>> /\ toggles' = <<>>
        /\ devices' = [d \in {} |-> Hidden] /\ policy' = Policy(settings')
        /\ shown' = [settings |-> settings', devices |-> devices'] /\ clicked' = {}
    BY DEF Restart, Broadcasts
  <1>2. /\ file' \in RuleSets /\ Settled(file')
        /\ choice' \in [Peers -> Choices] /\ ipChoice' \in [Ips -> Choices]
        /\ IdsChosen(file', choice') /\ IpsChosen(file', ipChoice')
    <2>1. CASE renamed
      <3>1. updates # <<>> /\ file' = Outcome(Head(updates)) /\ Chooses(Head(updates))
        BY <2>1 DEF Restart
      <3>2. /\ Head(updates) \in Merges \cup Patches
            /\ Setting(Head(updates)) => Computed(Head(updates), ipChoice)
        BY <3>1, HeadMeans
      <3> DEFINE u == Head(updates)
      <3> HIDE DEF u
      <3>3. /\ Outcome(u) \in RuleSets /\ Settled(Outcome(u))
            /\ choice' \in [Peers -> Choices] /\ ipChoice' \in [Ips -> Choices]
            /\ IdsChosen(Outcome(u), choice') /\ IpsChosen(Outcome(u), ipChoice')
        BY <3>1, <3>2, ChoosesMeans DEF u
      <3> QED BY <3>1, <3>3 DEF u
    <2>2. CASE ~renamed
      <3>1. file' = file /\ choice' = choice /\ ipChoice' = ipChoice /\ file = settings
        BY <2>2 DEF Restart, choices, SharingInv, Same
      <3> QED BY <3>1 DEF SharingInv, TypeOK
    <2> QED BY <2>1, <2>2
  <1>3. TypeOK'
    BY <1>1, <1>2, EmptyListed, NoneMeans DEF TypeOK
  <1>4. Settled(settings)' /\ IdsChosen(settings, choice)' /\ IpsChosen(settings, ipChoice)'
    BY <1>1, <1>2
  <1>5. Queued'
    BY <1>1, NoneMeans DEF Queued
  <1>6. Same'
    BY <1>1 DEF Same
  <1> QED BY <1>3, <1>4, <1>5, <1>6 DEF SharingInv

\* Every step keeps the invariant.
LEMMA SharingStep == SharingInv /\ [Next]_vars => SharingInv'
  <1> SUFFICES ASSUME SharingInv, [Next]_vars PROVE SharingInv'
    OBVIOUS
  <1>1. ASSUME NEW list \in HubLists, DevicesHeard(list) PROVE SharingInv'
    BY <1>1, DevicesHeardKeeps
  <1>2. ASSUME NEW key \in Ips \cup Peers, NEW c \in Columns, Click(key, c) PROVE SharingInv'
    BY <1>2, ClickKeeps
  <1>3. CASE ServeToggle
    BY <1>3, ServeToggleKeeps
  <1>4. CASE Save
    BY <1>4, SaveKeeps
  <1>5. CASE SaveFails
    BY <1>5, SaveFailsKeeps
  <1>6. CASE ErrorExpires
    BY <1>6, ErrorExpiresKeeps
  <1>7. ASSUME NEW renamed \in BOOLEAN, Restart(renamed) PROVE SharingInv'
    BY <1>7, RestartKeeps
  <1>8. CASE UNCHANGED vars
    BY <1>8 DEF vars, store, window, choices, SharingInv, TypeOK, Settled, IdsChosen, IpsChosen,
                Queued, Computed, Same
  <1> QED BY <1>1, <1>2, <1>3, <1>4, <1>5, <1>6, <1>7, <1>8 DEF Next

(***************************************************************************)
(* What follows from it.                                                    *)
(***************************************************************************)

\* A choice is on or off.
LEMMA ChoiceSaid ==
    ASSUME NEW q \in Choices, NEW c \in Columns, q[c] # "none"
    PROVE  q[c] \in Said
  BY DEF Choices, Said

\* The rule of a device that was ever listed is the one applied, wherever it is; to the
\* others the one of the address is.
LEMMA ChoicesStandStep == SharingInv => ChoicesStand
  <1> SUFFICES ASSUME SharingInv PROVE ChoicesStand
    OBVIOUS
  <1>1. /\ choice \in [Peers -> Choices] /\ ipChoice \in [Ips -> Choices]
        /\ IdsChosen(settings, choice) /\ IpsChosen(settings, ipChoice)
    BY DEF SharingInv, TypeOK
  <1>2. ASSUME NEW c \in Columns, NEW d \in Peers, NEW ip \in Ips \cup {Hidden},
               choice[d][c] # "none"
        PROVE  Allows(settings, d, ip, c) = (choice[d][c] = "on")
    <2>1. choice[d][c] \in Said
      BY <1>1, <1>2, ChoiceSaid
    <2>2. RuleOf(settings, d, ip) = settings.id[d] /\ settings.id[d][c] = choice[d][c]
      BY <1>1, <1>2 DEF IdsChosen, RuleOf
    <2> QED BY <2>1, <2>2 DEF Allows, Said
  <1>3. ASSUME NEW c \in Columns, NEW d \in Peers \ DOMAIN settings.id, NEW ip \in Ips,
               ipChoice[ip][c] # "none"
        PROVE  Allows(settings, d, ip, c) = (ipChoice[ip][c] = "on")
    <2>1. ipChoice[ip][c] \in Said
      BY <1>1, <1>3, ChoiceSaid
    <2>2. RuleOf(settings, d, ip) = settings.ip[ip] /\ settings.ip[ip][c] = ipChoice[ip][c]
      BY <1>1, <1>3 DEF IpsChosen, RuleOf
    <2> QED BY <2>1, <2>2 DEF Allows, Said
  <1> QED BY <1>2, <1>3 DEF ChoicesStand

\* A device that is off is a restriction, so the copy has targets, and it is none of them;
\* one that is on is a target, connected or remembered.
LEMMA SendsStep == SharingInv => SendsAsChosen
  <1> SUFFICES ASSUME SharingInv, NEW d \in Peers
               PROVE  /\ choice[d]["send"] = "off" => ~Reaches(settings, devices, d)
                      /\ choice[d]["send"] = "on" =>
                            Reaches(settings, devices, d) /\ ~Defers(settings, devices)
    BY DEF SendsAsChosen
  <1>1. "send" \in Columns /\ d # Self
    BY RulesAssumption DEF Columns
  <1>2. choice[d]["send"] \in Said =>
            /\ d \in DOMAIN settings.id /\ settings.id[d]["send"] = choice[d]["send"]
            /\ Allows(settings, d, devices[d], "send") = (choice[d]["send"] # "off")
    BY <1>1 DEF SharingInv, IdsChosen, Allows, RuleOf, Said
  <1>3. /\ Reaches(settings, devices, d) =>
             \/ ~Restricted(settings)
             \/ d \in Visible(devices) /\ Allows(settings, d, devices[d], "send")
             \/ d \in Remembered(settings, devices)
        /\ d \in Visible(devices) /\ Allows(settings, d, devices[d], "send")
             => Reaches(settings, devices, d)
        /\ d \in Remembered(settings, devices) => Reaches(settings, devices, d)
    BY DEF Reaches, Targets
  <1>4. ASSUME choice[d]["send"] = "off" PROVE ~Reaches(settings, devices, d)
    <2>1. /\ d \in DOMAIN settings.id /\ settings.id[d]["send"] = "off"
          /\ ~Allows(settings, d, devices[d], "send")
      BY <1>2, <1>4 DEF Said
    <2>2. Restricted(settings)
      BY <1>1, <2>1 DEF Restricted
    <2>3. d \notin Remembered(settings, devices)
      BY <2>1 DEF Remembered
    <2> QED BY <1>3, <2>1, <2>2, <2>3
  <1>5. ASSUME choice[d]["send"] = "on"
        PROVE  Reaches(settings, devices, d) /\ ~Defers(settings, devices)
    <2>1. /\ d \in DOMAIN settings.id /\ settings.id[d]["send"] = "on"
          /\ Allows(settings, d, devices[d], "send")
      BY <1>2, <1>5 DEF Said
    <2>2. d \in Visible(devices) \/ d \in Remembered(settings, devices)
      BY <2>1 DEF Remembered
    <2> QED BY <1>3, <2>1, <2>2 DEF Defers
  <1> QED BY <1>4, <1>5

\* A settled rule of a device is in one of the policy's two sets, which the hub asks first.
LEMMA HubAgreesStep == SharingInv => HubAgrees
  <1> SUFFICES ASSUME SharingInv, NEW d \in Peers, NEW ip \in Ips \cup {Hidden},
                      d \in DOMAIN settings.id \/ ip \notin DOMAIN settings.id
               PROVE  HubAllows(policy, d, ip) = Allows(settings, d, ip, "receive")
    BY DEF HubAgrees
  <1> DEFINE s == settings
  <1>1. /\ policy = Policy(s) /\ s \in RuleSets /\ Settled(s)
        /\ "receive" \in Columns /\ d \in Devices /\ d # Self
    BY RulesAssumption DEF SharingInv, TypeOK, Same, Columns, Devices
  <1> HIDE DEF s
  <1>2. /\ policy.allowed = {k \in DOMAIN s.id \cap Devices : s.id[k]["receive"] = "on"}
        /\ policy.blocked = {k \in DOMAIN s.id \cap Devices : s.id[k]["receive"] = "off"}
        /\ policy.ips = {k \in DOMAIN s.id \cap Ips : s.id[k]["receive"] = "off"}
                          \cup {k \in DOMAIN s.ip : s.ip[k]["receive"] = "off"}
    BY <1>1 DEF Policy
  <1>3. HubAllows(policy, d, ip) <=>
            d \in policy.allowed \/ (d \notin policy.blocked /\ ip \notin policy.ips)
    BY <1>1 DEF HubAllows
  <1>4. Allows(s, d, ip, "receive") <=> RuleOf(s, d, ip)["receive"] # "off"
    BY DEF Allows
  <1>5. HubAllows(policy, d, ip) <=> Allows(s, d, ip, "receive")
    <2>1. CASE d \in DOMAIN s.id
      <3>1. RuleOf(s, d, ip) = s.id[d] /\ s.id[d]["receive"] \in Said
        BY <1>1, <2>1, RuleSetMeans, RuleMeans DEF RuleOf, Settled
      <3> QED BY <1>1, <1>2, <1>3, <1>4, <2>1, <3>1 DEF Said
    <2>2. CASE d \notin DOMAIN s.id /\ ip \notin DOMAIN s.id
      <3>1. d \notin policy.allowed /\ d \notin policy.blocked
        BY <1>2, <2>2
      <3>2. ip \in policy.ips <=> ip \in DOMAIN s.ip /\ s.ip[ip]["receive"] = "off"
        BY <1>2, <2>2
      <3>3. /\ ip \in DOMAIN s.ip => RuleOf(s, d, ip) = s.ip[ip]
            /\ ip \notin DOMAIN s.ip => RuleOf(s, d, ip)["receive"] = "unset"
        BY <1>1, <2>2, UnsetTyped DEF RuleOf
      <3> QED BY <1>3, <1>4, <3>1, <3>2, <3>3
    <2> QED BY <2>1, <2>2 DEF s
  <1>6. /\ HubAllows(policy, d, ip) \in BOOLEAN
        /\ Allows(s, d, ip, "receive") \in BOOLEAN
    BY DEF HubAllows, Allows
  <1> QED BY <1>5, <1>6 DEF s

\* With nothing underway the window has the settings and the list.
LEMMA ShownStep == SharingInv => ShownAsApplied
  <1> SUFFICES ASSUME SharingInv, updates = <<>>, toggles = <<>>, ~error
               PROVE  /\ clicked = {}
                      /\ \A key \in Rows(devices), c \in Columns :
                           /\ key \in Rows(shown.devices)
                           /\ Row(devices, key) \subseteq DOMAIN settings.id =>
                                (Ticked(shown.settings, shown.devices, key, c) <=>
                                   \A d \in Row(devices, key) :
                                      Allows(settings, d, devices[d], c))
    BY DEF ShownAsApplied
  <1>1. shown.settings = settings /\ shown.devices = devices /\ clicked = {}
    BY DEF SharingInv, Same
  <1>2. ASSUME NEW key \in Rows(devices), NEW c \in Columns,
               Row(devices, key) \subseteq DOMAIN settings.id
        PROVE  Ticked(settings, devices, key, c) <=>
                  \A d \in Row(devices, key) : Allows(settings, d, devices[d], c)
    <2>1. \A d \in Row(devices, key) :
              /\ ShownRule(settings, d, devices[d]) = settings.id[d]
              /\ RuleOf(settings, d, devices[d]) = settings.id[d]
      BY <1>2 DEF ShownRule, RuleOf
    <2> QED BY <2>1 DEF Ticked, Allows
  <1> QED BY <1>1, <1>2

(***************************************************************************)
(* The theorems.                                                            *)
(***************************************************************************)

\* The rules in force hold every choice, those that wait to be saved too, and memory, file,
\* hub and window have the same ones (ConfigStore, updateDeviceRule, the handler of "devices").
THEOREM SharingInvariant == Spec => []SharingInv
  BY SharingInit, SharingStep, PTL DEF Spec

\* What the user has chosen for a device or an address stands, whatever lists, other choices,
\* failing saves and crashes come after it (updateDeviceRule, mergeDeviceRules, ConfigStore).
THEOREM ChoicesHonoured == Spec => []ChoicesStand
  BY SharingInvariant, ChoicesStandStep, PTL

\* A copy reaches no device that is turned off and every one that is turned on
\* (buildTargetDeviceIds, shouldDeferRestrictedSend).
THEOREM SentAsChosen == Spec => []SendsAsChosen
  BY SharingInvariant, SendsStep, PTL

\* receiverAllowsEvent of the hub and the client's own filter agree on every event.
THEOREM HubAndClientAgree == Spec => []HubAgrees
  BY SharingInvariant, HubAgreesStep, PTL

\* With nothing underway the boxes show what is applied (ruleForGroup, broadcastState).
THEOREM BoxesTrue == Spec => []ShownAsApplied
  BY SharingInvariant, ShownStep, PTL
=============================================================================
