------------------------- MODULE NetworkConfig_proofs -------------------------
(***************************************************************************)
(* Proofs about NetworkConfig, for any site, cabling and port settings and *)
(* any number of edits: links lead to what they were made for, a cable is  *)
(* seen from both ends, and the VLAN filter of the port list is exact.     *)
(***************************************************************************)
EXTENDS NetworkConfig, WellFoundedInduction, TLAPS

-----------------------------------------------------------------------------
(* The order of the controller's answers: what is first and what is last.  *)

LEMMA Least ==
  ASSUME NEW T \in SUBSET Nat, T # {}
  PROVE  \E m \in T : \A k \in T : m <= k
<1> DEFINE R == OpToRel(<, Nat)
<1>1. IsWellFoundedOn(R, Nat)
  BY NatLessThanWellFounded
<1>2. \A x, y \in Nat : x < y => <<x, y>> \in R
  BY DEF OpToRel
<1> HIDE DEF R
<1>3. \E m \in T : \A k \in T : ~(<<k, m>> \in R)
  BY <1>1, WFMin
<1>4. PICK m \in T : \A k \in T : ~(<<k, m>> \in R)
  BY <1>3
<1>5. \A k \in T : m <= k
  <2> SUFFICES ASSUME NEW k \in T PROVE m <= k
    OBVIOUS
  <2>1. ~(k < m)
    BY <1>2, <1>4
  <2>. QED
    BY <2>1
<1>. QED
  BY <1>5

LEMMA FirstIs ==
  ASSUME NEW S \in SUBSET Items, S # {}
  PROVE  First(S) \in S
<1> DEFINE T == {Rank[x] : x \in S}
<1>1. \A x \in S : Rank[x] \in Nat
  BY Consistent DEF ConfigAssumption
<1>2. T \in SUBSET Nat /\ T # {}
  BY <1>1
<1>3. PICK m \in T : \A k \in T : m <= k
  BY <1>2, Least
<1>4. \E x \in S : \A y \in S : Rank[x] <= Rank[y]
  BY <1>3
<1>. QED
  BY <1>4 DEF First

LEMMA LastIs ==
  ASSUME NEW S \in SUBSET Items, S # {}
  PROVE  Last(S) \in S
<1>1. PICK z \in Items : \A y \in Items : Rank[y] <= Rank[z]
  BY Consistent DEF ConfigAssumption
<1>2. \A x \in Items : Rank[x] \in Nat
  BY Consistent DEF ConfigAssumption
<1> DEFINE T == {Rank[z] - Rank[x] : x \in S}
<1>3. T \in SUBSET Nat /\ T # {}
  BY <1>1, <1>2
<1>4. PICK m \in T : \A k \in T : m <= k
  BY <1>3, Least
<1>5. PICK x \in S : m = Rank[z] - Rank[x]
  BY <1>4
<1>6. \A y \in S : Rank[y] <= Rank[x]
  <2> SUFFICES ASSUME NEW y \in S PROVE Rank[y] <= Rank[x]
    OBVIOUS
  <2>1. m <= Rank[z] - Rank[y]
    BY <1>4
  <2>2. Rank[x] \in Nat /\ Rank[y] \in Nat /\ Rank[z] \in Nat
    BY <1>1, <1>2
  <2>. QED
    BY <1>5, <2>1, <2>2
<1>. QED
  BY <1>6 DEF Last

-----------------------------------------------------------------------------
(* What is read, and in which order. *)

LEMMA KindsAre ==
  /\ DOMAIN Lists = {"ports", "vlans", "wans", "ssids"}
  /\ DOMAIN Details = {"device", "vlan", "wan", "ssid", "client"}
  /\ DOMAIN Reads = {"ports", "vlans", "wans", "ssids", "device", "vlan", "wan", "ssid", "client"}
  BY DEF Lists, Details, Reads

LEMMA ReadsAre ==
  /\ Reads["ports"] = <<"devices", "clients", "confs">>
  /\ Reads["vlans"] = <<"confs">>
  /\ Reads["wans"] = <<"confs", "devices">>
  /\ Reads["ssids"] = <<"wlans", "confs", "clients">>
  /\ Reads["device"] = <<"devices", "clients", "confs">>
  /\ Reads["vlan"] = <<"confs">>
  /\ Reads["wan"] = <<"confs", "devices">>
  /\ Reads["ssid"] = <<"wlans", "confs", "clients", "devices">>
  /\ Reads["client"] = <<"devices", "clients", "history">>
<1>1. ASSUME NEW k \in DOMAIN Lists PROVE Reads[k] = Lists[k]
  BY <1>1, KindsAre DEF Reads
<1>2. ASSUME NEW k \in DOMAIN Details PROVE Reads[k] = Details[k]
  BY <1>2, KindsAre DEF Reads
<1>3. /\ Lists["ports"] = <<"devices", "clients", "confs">>
      /\ Lists["vlans"] = <<"confs">>
      /\ Lists["wans"] = <<"confs", "devices">>
      /\ Lists["ssids"] = <<"wlans", "confs", "clients">>
  BY DEF Lists
<1>4. /\ Details["device"] = <<"devices", "clients", "confs">>
      /\ Details["vlan"] = <<"confs">>
      /\ Details["wan"] = <<"confs", "devices">>
      /\ Details["ssid"] = <<"wlans", "confs", "clients", "devices">>
      /\ Details["client"] = <<"devices", "clients", "history">>
  BY DEF Details
<1>. QED
  BY <1>1, <1>2, <1>3, <1>4, KindsAre

What == {"devices", "clients", "history", "confs", "wlans"}

LEMMA LenOfReads ==
  ASSUME NEW k \in DOMAIN Reads
  PROVE  /\ Len(Reads[k]) \in 1..4
         /\ \A i \in 1..Len(Reads[k]) : Reads[k][i] \in What
         /\ \A i \in 1..Len(Reads[k]) : Reads[k][i] = "history" => k = "client" /\ i = 3
<1> DEFINE Fine(q) == /\ Len(q) \in 1..4 /\ \A i \in 1..Len(q) : q[i] \in What
                     /\ \A i \in 1..Len(q) : q[i] = "history" => k = "client" /\ i = 3
<1>1. Fine(<<"confs">>) /\ Fine(<<"confs", "devices">>)
  BY DEF What
<1>2. Fine(<<"devices", "clients", "confs">>) /\ Fine(<<"wlans", "confs", "clients">>)
  BY DEF What
<1>3. k = "client" => Fine(<<"devices", "clients", "history">>)
  BY DEF What
<1>4. Fine(<<"wlans", "confs", "clients", "devices">>)
  BY DEF What
<1>5. Fine(Reads[k])
  <2> HIDE DEF Fine
  <2>. QED
    BY <1>1, <1>2, <1>3, <1>4, ReadsAre, KindsAre
<1>. QED
  BY <1>5

-----------------------------------------------------------------------------
(* The VLANs of a port, its peer, and the links of an answer. *)

Lan == {n \in Networks : isLanNetwork(n)}
\* The VLANs of a port that is not disabled.
Config ==
    [native : Lan, mode : {"access", "trunk"}, scope : {"none", "all", "custom"}, tagged : SUBSET Lan]
GoodLinks == {l \in Links : l[2] \in Collection(l[1])}

LEMMA PurposeIs ==
  /\ Purpose \in [Networks -> {"corporate", "guest", "wan"}]
  /\ \A n \in Networks : isLanNetwork(n) <=> Purpose[n] # "wan"
  BY Consistent DEF ConfigAssumption, isLanNetwork

LEMMA DefaultIs ==
  ASSUME NEW S \in SUBSET Networks
  PROVE  /\ findDefaultNetID(S) \in {None} \cup (S \cap Lan)
         /\ (\E n \in S : Purpose[n] = "corporate" /\ n \in Untagged) =>
                findDefaultNetID(S) # None /\ Purpose[findDefaultNetID(S)] = "corporate"
<1> DEFINE U == {n \in S : Purpose[n] = "corporate" /\ n \in Untagged}
<1>1. U \in SUBSET Items /\ U \in SUBSET Networks
  BY DEF Items
<1>2. U # {} => First(U) \in U
  BY <1>1, FirstIs
<1>3. findDefaultNetID(S) = IF U = {} THEN None ELSE First(U)
  BY DEF findDefaultNetID
<1>4. \A n \in U : n \in S \cap Lan /\ n # None
  BY <1>1, Consistent DEF ConfigAssumption, Items, Lan, isLanNetwork
<1>. QED
  BY <1>2, <1>3, <1>4

LEMMA NativeIs ==
  ASSUME NEW S \in SUBSET Networks, NEW s \in Settings, s.native # None => Purpose[s.native] # "wan"
  PROVE  resolveNativeConf(s.native, S) \in {None} \cup (S \cap Lan)
<1>1. s.native # None => s.native \in Lan
  BY PurposeIs DEF Settings, Lan
<1>. QED
  BY <1>1, DefaultIs DEF resolveNativeConf

LEMMA ConfigIs ==
  ASSUME NEW S \in SUBSET Networks, NEW s \in Settings, s.native # None => Purpose[s.native] # "wan"
  PROVE  buildVlanConfig(s, S) \in {None} \cup Config
<1> DEFINE native == resolveNativeConf(s.native, S)
           corporate == {n \in S : Purpose[n] = "corporate"}
           config(mode, scope, tagged) ==
               [native |-> native, mode |-> mode, scope |-> scope, tagged |-> tagged]
<1>1. native \in {None} \cup Lan
  BY NativeIs
<1>2. corporate \subseteq Lan
  BY DEF Lan, isLanNetwork
<1>3. native # None => /\ config("access", "none", {}) \in Config
                      /\ config("trunk", "all", {}) \in Config
                      /\ config("trunk", "custom", corporate \ (s.excluded \cup {native})) \in Config
  BY <1>1, <1>2 DEF Config
<1>4. buildVlanConfig(s, S) \in
        {None} \cup (IF native = None THEN {}
                     ELSE {config("access", "none", {}), config("trunk", "all", {}),
                           config("trunk", "custom", corporate \ (s.excluded \cup {native}))})
  BY DEF buildVlanConfig
<1>. QED
  BY <1>3, <1>4

LEMMA ItemsAre == None \notin Items /\ Devices \subseteq Items /\ Networks \subseteq Items
                  /\ Clients \subseteq Items /\ Wlans \subseteq Items
  BY Consistent DEF ConfigAssumption, Items

LEMMA PeerIs ==
  ASSUME TypeOK, NEW x
  PROVE  resolvePortConnectedTo(x) \in Devices \cup Clients \cup {None}
<1>1. uplink \in [Devices -> [to : Devices \cup {None}, remote : Nat, port : Nat]]
  BY Consistent DEF ConfigAssumption, TypeOK
<1>2. buildSwPortToDevice(x) \in Devices \cup {None}
  <2> DEFINE W == {d \in seen.devices :
                      uplink[d].to # None /\ x[2] # 0 /\ (IsLower(d, x) \/ IsUpper(d, x))}
  <2>1. W \in SUBSET Devices /\ W \in SUBSET Items
    BY ItemsAre DEF TypeOK
  <2>2. W # {} => Last(W) \in Devices
    BY <2>1, LastIs
  <2>3. buildSwPortToDevice(x) = IF W = {} THEN None
                                ELSE IF IsLower(Last(W), x) THEN Last(W) ELSE uplink[Last(W)].to
    BY DEF buildSwPortToDevice
  <2> HIDE DEF W
  <2>. QED
    BY <1>1, <2>2, <2>3
<1>3. buildSwPortToClient(x) \in Clients \cup {None}
  <2> DEFINE C == {c \in seen.clients :
                      Place[c].wired /\ x[2] # 0 /\ <<Place[c].at, Place[c].port>> = x}
  <2>1. C \in SUBSET Clients /\ C \in SUBSET Items
    BY ItemsAre DEF TypeOK
  <2>2. C # {} => Last(C) \in Clients
    BY <2>1, LastIs
  <2>3. buildSwPortToClient(x) = IF C = {} THEN None ELSE Last(C)
    BY DEF buildSwPortToClient
  <2> HIDE DEF C
  <2>. QED
    BY <2>2, <2>3
<1>. QED
  BY <1>2, <1>3 DEF resolvePortConnectedTo

\* A port as it is answered.
GoodPorts == [at : AllPorts, vlan : {None} \cup Config, peer : Devices \cup Clients \cup {None}]

LEMMA PortsAre ==
  ASSUME TypeOK, NEW d \in Devices
  PROVE  /\ LanPorts(d) \subseteq AllPorts
         /\ buildDevicePorts(d) \in SUBSET GoodPorts
         /\ \A p \in buildDevicePorts(d) : p.at[1] = d
<1>1. LanPorts(d) \subseteq {d} \X Ports[d]
  BY DEF LanPorts
<1>2. {d} \X Ports[d] \subseteq AllPorts
  BY DEF AllPorts
<1>3. ASSUME NEW x \in LanPorts(d)
      PROVE  buildVlanConfig(setting[x], seen.confs) \in {None} \cup Config
  <2>1. x \in AllPorts /\ setting \in Layouts
    BY <1>1, <1>2 DEF TypeOK
  <2>2. setting[x] \in Settings /\ (setting[x].native # None => Purpose[setting[x].native] # "wan")
    BY <2>1, Consistent DEF ConfigAssumption
  <2>. QED
    BY <2>2, ConfigIs DEF TypeOK
<1>4. ASSUME NEW p \in buildDevicePorts(d) PROVE p \in GoodPorts /\ p.at[1] = d
  <2>1. PICK x \in LanPorts(d) :
            p = [at |-> x, vlan |-> buildVlanConfig(setting[x], seen.confs),
                 peer |-> resolvePortConnectedTo(x)]
    BY DEF buildDevicePorts
  <2>2. x \in AllPorts /\ x[1] = d
    BY <1>1, <1>2
  <2>3. /\ buildVlanConfig(setting[x], seen.confs) \in {None} \cup Config
        /\ resolvePortConnectedTo(x) \in Devices \cup Clients \cup {None}
    BY <1>3, PeerIs
  <2> DEFINE v == buildVlanConfig(setting[x], seen.confs)
             y == resolvePortConnectedTo(x)
  <2>4. p = [at |-> x, vlan |-> v, peer |-> y]
    BY <2>1
  <2> HIDE DEF v, y
  <2>. QED
    BY <2>2, <2>3, <2>4 DEF GoodPorts, v, y
<1>. QED
  BY <1>1, <1>2, <1>4

\* Links of a collection are good if the items are in it.
LEMMA ToIsGood ==
  ASSUME NEW k \in DOMAIN Details, NEW S \in SUBSET Collection(k)
  PROVE  To(k, S) \in SUBSET GoodLinks
<1>1. Collection(k) \subseteq Items
  BY KindsAre, ItemsAre DEF Collection
<1>. QED
  BY <1>1 DEF To, GoodLinks, Links

LEMMA CollectionsAre ==
  /\ Collection("device") = Devices /\ Collection("client") = Clients
  /\ Collection("ssid") = Wlans /\ Collection("vlan") = Lan
  /\ Collection("wan") = {n \in Networks : Purpose[n] = "wan"}
  BY DEF Collection, Lan

LEMMA PortLinksAre ==
  ASSUME NEW P \in SUBSET GoodPorts
  PROVE  PortLinks(P) \in SUBSET GoodLinks
<1> DEFINE shown == {p \in P : p.vlan # None}
           peers == {p.peer : p \in P}
           V == UNION {{p.vlan.native} \cup p.vlan.tagged : p \in shown}
<1>1. V \subseteq Lan
  <2> SUFFICES ASSUME NEW p \in shown PROVE {p.vlan.native} \cup p.vlan.tagged \subseteq Lan
    OBVIOUS
  <2>1. p.vlan \in Config
    BY DEF GoodPorts
  <2>. QED
    BY <2>1 DEF Config
<1>2. To("vlan", V) \in SUBSET GoodLinks
  BY <1>1, ToIsGood, KindsAre, CollectionsAre
<1>3. To("device", peers \cap Devices) \in SUBSET GoodLinks
  BY ToIsGood, KindsAre, CollectionsAre
<1>4. To("client", peers \cap Clients) \in SUBSET GoodLinks
  BY ToIsGood, KindsAre, CollectionsAre
<1>5. PortLinks(P) = To("vlan", V) \cup To("device", peers \cap Devices) \cup To("client", peers \cap Clients)
  BY DEF PortLinks
<1> HIDE DEF V, peers, shown
<1>. QED
  BY <1>2, <1>3, <1>4, <1>5

LEMMA DeviceLinksAre ==
  ASSUME TypeOK, NEW d \in Devices
  PROVE  DeviceLinks(d) \in SUBSET GoodLinks
<1> DEFINE wireless == {c \in seen.clients : ~Place[c].wired /\ Place[c].at = d}
           wans == {n \in seen.confs : Purpose[n] = "wan"}
           up == {uplink[d].to} \cap seen.devices
<1>1. /\ wireless \subseteq Clients /\ up \subseteq Devices
      /\ wans \subseteq {n \in Networks : Purpose[n] = "wan"}
  BY DEF TypeOK
<1>2. /\ To("client", wireless) \in SUBSET GoodLinks
      /\ To("device", up) \in SUBSET GoodLinks
      /\ To("wan", wans) \in SUBSET GoodLinks
  BY <1>1, ToIsGood, KindsAre, CollectionsAre
<1>3. PortLinks(buildDevicePorts(d)) \in SUBSET GoodLinks
  BY PortsAre, PortLinksAre
<1>4. /\ buildGatewayDetail(d) \in SUBSET GoodLinks /\ buildSwitchDetail(d) \in SUBSET GoodLinks
      /\ buildAPDetail(d) \in SUBSET GoodLinks /\ deviceUplink(d) \in SUBSET GoodLinks
  BY <1>2, <1>3 DEF buildGatewayDetail, buildSwitchDetail, buildAPDetail, deviceUplink
<1>5. Type[d] \in {"gateway", "switch", "ap", "other"}
  BY Consistent DEF ConfigAssumption
<1>. QED
  BY <1>4, <1>5 DEF DeviceLinks

LEMMA DetailLinksAre ==
  ASSUME TypeOK, NEW x \in Items
  PROVE  DetailLinks(x) \in SUBSET GoodLinks
<1>1. /\ Networks \cap Devices = {} /\ Wlans \cap Clients = {}
      /\ (Networks \cup Devices) \cap (Wlans \cup Clients) = {}
  BY Consistent DEF ConfigAssumption
<1>2. ASSUME x \in Wlans PROVE SsidLinks(x) \in SUBSET GoodLinks
  <2> DEFINE C == {c \in seen.clients : ~Place[c].wired /\ Place[c].essid = Essid[x]}
             D == {d \in seen.devices : Type[d] = "ap" /\ x \in Broadcasts[d]}
  <2>1. C \subseteq Clients /\ D \subseteq Devices
    BY DEF TypeOK
  <2>2. To("client", C) \in SUBSET GoodLinks /\ To("device", D) \in SUBSET GoodLinks
    BY <2>1, ToIsGood, KindsAre, CollectionsAre
  <2>. QED
    BY <2>2 DEF SsidLinks
<1>3. ASSUME x \in Clients PROVE ClientLinks(x) \in SUBSET GoodLinks
  <2>1. {Place[x].at} \cap seen.devices \subseteq Devices
    BY DEF TypeOK
  <2>. QED
    BY <2>1, ToIsGood, KindsAre, CollectionsAre DEF ClientLinks
<1>4. CASE x \in Devices
  <2>1. DetailLinks(x) = DeviceLinks(x)
    BY <1>1, <1>4 DEF DetailLinks
  <2>. QED
    BY <1>4, <2>1, DeviceLinksAre
<1>5. CASE x \in Wlans
  <2>1. DetailLinks(x) = SsidLinks(x)
    BY <1>1, <1>5 DEF DetailLinks
  <2>. QED
    BY <1>2, <1>5, <2>1
<1>6. CASE x \in Clients
  <2>1. DetailLinks(x) = ClientLinks(x)
    BY <1>1, <1>6 DEF DetailLinks
  <2>. QED
    BY <1>3, <1>6, <2>1
<1>7. CASE x \in Networks
  BY <1>1, <1>7 DEF DetailLinks
<1>. QED
  BY <1>4, <1>5, <1>6, <1>7 DEF Items

-----------------------------------------------------------------------------
(* The inductive invariant. *)

\* The ports that a list of ports answers with.
PortList ==
    {p \in UNION {buildDevicePorts(d) : d \in {e \in seen.devices : Type[e] \in {"switch", "gateway"}}} :
        want = 0 \/ matchesVlanID(p.vlan, want)}

\* How far a request has got, and whom it may be about.
OrderInv ==
    /\ step <= Len(Reads[kind])
    /\ pc # "done" => answer = "none" /\ ports = {}
    /\ pc = "done" /\ kind = "ports" /\ step = 3 => ports = PortList
    /\ links \subseteq GoodLinks
    /\ IsDetail => target \in Collection(kind)

\* What has been there all the time is there.
KeptInv ==
    /\ kept \cap Networks \subseteq confs
    /\ kept \cap Devices \subseteq managed
    /\ \A w \in kept \cap Wlans : wlan[w] # "gone"

Took(r) == \E i \in 1..step : Reads[kind][i] = r

\* What has been there all the time has been read; a client that has stayed away
\* from the connected ones is in the history.
ReadInv ==
    /\ Took("confs") => kept \cap Networks \subseteq seen.confs
    /\ Took("devices") => kept \cap Devices \subseteq seen.devices
    /\ Took("wlans") => kept \cap Wlans \subseteq seen.wlans
    /\ Took("clients") => \A c \in kept \cap Clients : c \in seen.clients \/ c \notin online
    /\ Took("history") => kept \cap Clients \subseteq seen.clients \cup seen.history

IInv == TypeOK /\ OrderInv /\ KeptInv /\ ReadInv /\ LinksLead

LEMMA InitIInv == Init => IInv
<1> SUFFICES ASSUME Init PROVE IInv
  OBVIOUS
<1>1. TypeOK
  BY Consistent, KindsAre DEF Init, TypeOK, ConfigAssumption, Nothing
<1>2. OrderInv
  BY KindsAre, LenOfReads DEF Init, OrderInv, IsDetail
<1>3. KeptInv /\ ReadInv /\ LinksLead
  BY DEF Init, KeptInv, ReadInv, LinksLead
<1>. QED
  BY <1>1, <1>2, <1>3 DEF IInv

\* A new request, for a list or for what a link names.
LEMMA StartPreserves ==
  ASSUME IInv, NEW k \in DOMAIN Reads, NEW t \in Items \cup {None}, NEW v \in Nat,
         k \in DOMAIN Details => t \in Collection(k),
         /\ pc' = "read" /\ kind' = k /\ target' = t /\ want' = v
         /\ step' = 0 /\ seen' = Nothing
         /\ ports' = {} /\ found' = None /\ links' = {} /\ answer' = "none"
         /\ kept' = Present
         /\ UNCHANGED envVars
  PROVE  IInv'
<1> USE DEF IInv, envVars
<1>1. Present \in SUBSET Items
  BY ItemsAre DEF Present, TypeOK
<1>2. TypeOK'
  BY <1>1 DEF TypeOK, Nothing
<1>3. OrderInv'
  BY LenOfReads DEF OrderInv, IsDetail
<1>4. KeptInv'
  BY Consistent DEF ConfigAssumption, KeptInv, Present, TypeOK
<1>5. ReadInv'
  BY DEF ReadInv, Took
<1>6. LinksLead'
  BY DEF LinksLead
<1>. QED
  BY <1>2, <1>3, <1>4, <1>5, <1>6

LEMMA BeginPreserves ==
  ASSUME IInv, NEW k \in DOMAIN Lists, NEW v \in Nat, Begin(k, v)
  PROVE  IInv'
<1>1. k \in DOMAIN Reads /\ k \notin DOMAIN Details
  BY KindsAre
<1>. QED
  BY <1>1, StartPreserves DEF Begin

LEMMA FollowPreserves ==
  ASSUME IInv, NEW l \in links, Follow(l)
  PROVE  IInv'
<1>1. l \in GoodLinks
  BY DEF IInv, OrderInv
<1>2. l[1] \in DOMAIN Reads /\ l[2] \in Items /\ l[2] \in Collection(l[1])
  BY <1>1, KindsAre DEF GoodLinks, Links
<1>3. 0 \in Nat
  OBVIOUS
<1>. QED
  BY <1>2, <1>3, StartPreserves DEF Follow

\* What one read adds to what has been taken.
LEMMA ReadPreserves == ASSUME IInv, Read PROVE IInv'
<1> DEFINE r == Reads[kind][step + 1]
<1>0. /\ pc = "read" /\ step' = step + 1
      /\ UNCHANGED <<envVars, pc, kind, target, want, resultVars, kept>>
  BY DEF Read
<1>1. /\ kind \in DOMAIN Reads /\ step \in 0..4 /\ step # Len(Reads[kind]) /\ step <= Len(Reads[kind])
      /\ Len(Reads[kind]) \in 1..4
  BY LenOfReads DEF IInv, TypeOK, OrderInv, Read, Ready
<1>2. step + 1 \in 1..Len(Reads[kind]) /\ step' \in 0..4 /\ step' <= Len(Reads[kind])
  <2> DEFINE n == Len(Reads[kind])
  <2>1. step \in 0..4 /\ step # n /\ step <= n /\ n \in 1..4 /\ step' = step + 1
    BY <1>0, <1>1
  <2> HIDE DEF n
  <2>2. step + 1 \in 1..n /\ step' \in 0..4 /\ step' <= n
    BY <2>1
  <2>. QED
    BY <2>2 DEF n
<1>3. r \in What /\ (r = "history" => kind = "client" /\ step = 2)
  BY <1>1, <1>2, LenOfReads
<1>4. seen' = CASE r = "devices" -> [seen EXCEPT !.devices = managed]
                [] r = "clients" -> [seen EXCEPT !.clients = online]
                [] r = "history" -> [seen EXCEPT !.history = Clients \ online]
                [] r = "confs" -> [seen EXCEPT !.confs = confs]
                [] r = "wlans" -> [seen EXCEPT
                       !.wlans = {w \in Wlans : wlan[w] # "gone"},
                       !.enabled = {w \in Wlans : wlan[w] = "enabled"}]
  BY DEF Read
<1>5. \A q : Took(q)' => Took(q) \/ q = r
  BY <1>0, <1>1 DEF Took
<1> HIDE DEF r
<1>6. TypeOK'
  BY <1>0, <1>2, <1>3, <1>4 DEF IInv, TypeOK, What, envVars, resultVars
<1>7. OrderInv'
  BY <1>0, <1>2 DEF IInv, OrderInv, IsDetail, resultVars
<1>8. KeptInv' /\ LinksLead'
  BY <1>0 DEF IInv, KeptInv, LinksLead, envVars
<1>9. ReadInv'
  <2>1. r = "history" => Took("clients")
    <3>1. Reads["client"][2] = "clients"
      BY ReadsAre
    <3>. QED
      BY <1>3, <3>1 DEF Took
  <2>2. kept' = kept /\ UNCHANGED <<confs, managed, wlan, online>>
    BY <1>0 DEF envVars
  <2>3. seen \in [devices : SUBSET Devices, clients : SUBSET Clients, history : SUBSET Clients,
                  confs : SUBSET Networks, wlans : SUBSET Wlans, enabled : SUBSET Wlans]
    BY DEF IInv, TypeOK
  <2>4. /\ seen'.confs = IF r = "confs" THEN confs ELSE seen.confs
        /\ seen'.devices = IF r = "devices" THEN managed ELSE seen.devices
        /\ seen'.wlans = IF r = "wlans" THEN {w \in Wlans : wlan[w] # "gone"} ELSE seen.wlans
        /\ seen'.clients = IF r = "clients" THEN online ELSE seen.clients
        /\ seen'.history = IF r = "history" THEN Clients \ online ELSE seen.history
    BY <1>3, <1>4, <2>3 DEF What
  <2>5. /\ Took("confs")' => (kept \cap Networks \subseteq seen.confs)'
        /\ Took("devices")' => (kept \cap Devices \subseteq seen.devices)'
        /\ Took("wlans")' => (kept \cap Wlans \subseteq seen.wlans)'
    BY <1>5, <2>2, <2>4 DEF IInv, ReadInv, KeptInv
  <2>6. Took("clients")' => (\A c \in kept \cap Clients : c \in seen.clients \/ c \notin online)'
    BY <1>5, <2>2, <2>4 DEF IInv, ReadInv
  <2>7. Took("history") => r # "clients"
    <3>1. \A i \in 1..step : Reads[kind][i] # "history"
      <4> SUFFICES ASSUME NEW i \in 1..step, Reads[kind][i] = "history" PROVE FALSE
        OBVIOUS
      <4>1. i \in 1..Len(Reads[kind]) /\ kind = "client" /\ i = 3
        BY <1>1, LenOfReads
      <4>2. Len(Reads[kind]) = 3
        BY <4>1, ReadsAre
      <4>. QED
        BY <1>1, <4>1, <4>2
    <3>. QED
      BY <3>1 DEF Took
  <2>8. Took("history")' => (kept \cap Clients \subseteq seen.clients \cup seen.history)'
    <3>1. CASE r = "history"
      BY <2>1, <2>2, <2>4, <3>1 DEF IInv, ReadInv
    <3>2. CASE r # "history"
      BY <1>5, <2>2, <2>4, <2>7, <3>2 DEF IInv, ReadInv
    <3>. QED
      BY <3>1, <3>2
  <2>. QED
    BY <2>5, <2>6, <2>8 DEF ReadInv
<1>. QED
  BY <1>6, <1>7, <1>8, <1>9 DEF IInv

LEMMA ReadFailsPreserves == ASSUME IInv, ReadFails PROVE IInv'
<1>0. /\ pc = "read" /\ ~Ready /\ pc' = "done" /\ answer' = IF IsDetail THEN "error" ELSE "ok"
      /\ UNCHANGED <<envVars, kind, target, want, step, seen, ports, found, links, kept>>
  BY DEF ReadFails
<1>1. TypeOK'
  BY <1>0 DEF IInv, TypeOK, envVars
<1>2. OrderInv'
  <2>0. Len(<<"devices", "clients", "confs">>) = 3
    OBVIOUS
  <2>1. kind = "ports" => step # 3
    BY <1>0, <2>0, ReadsAre DEF Ready
  <2>. QED
    BY <1>0, <2>1 DEF IInv, OrderInv, IsDetail
<1>3. KeptInv' /\ ReadInv' /\ LinksLead'
  BY <1>0 DEF IInv, KeptInv, ReadInv, Took, LinksLead, IsDetail, envVars
<1>. QED
  BY <1>1, <1>2, <1>3 DEF IInv

-----------------------------------------------------------------------------
(* The answers. *)

LEMMA PortListIs ==
  ASSUME TypeOK
  PROVE  PortList \in SUBSET GoodPorts /\ \A p \in PortList : p.at[1] \in Devices
<1>1. ASSUME NEW d \in seen.devices, NEW p \in buildDevicePorts(d)
      PROVE  p \in GoodPorts /\ p.at[1] \in Devices
  <2>1. d \in Devices
    BY DEF TypeOK
  <2>. QED
    BY <2>1, PortsAre
<1>. QED
  BY <1>1 DEF PortList

\* A list of ports depends on nothing but the cabling, the settings and what was read.
LEMMA SamePorts ==
  ASSUME UNCHANGED <<uplink, setting, want, seen>>
  PROVE  PortList' = PortList
<1>1. ASSUME NEW x
      PROVE  resolvePortConnectedTo(x)' = resolvePortConnectedTo(x)
  <2>1. buildSwPortToDevice(x)' = buildSwPortToDevice(x)
    BY DEF buildSwPortToDevice, IsLower, IsUpper
  <2>2. buildSwPortToClient(x)' = buildSwPortToClient(x)
    BY DEF buildSwPortToClient
  <2>. QED
    BY <2>1, <2>2 DEF resolvePortConnectedTo
<1>2. ASSUME NEW d
      PROVE  buildDevicePorts(d)' = buildDevicePorts(d)
  BY <1>1 DEF buildDevicePorts
<1>. QED
  BY <1>2 DEF PortList

\* A list is answered with good links and, if it is one of ports, with PortList.
LEMMA ListPreserves ==
  ASSUME IInv, NEW P \in SUBSET GoodPorts, NEW L \in SUBSET GoodLinks, ~IsDetail,
         kind = "ports" => P = PortList, Reply(P, L)
  PROVE  IInv'
<1>0. /\ pc = "read" /\ pc' = "done" /\ ports' = P /\ links' = L /\ answer' = "ok"
      /\ UNCHANGED <<envVars, kind, target, want, step, seen, found, kept>>
  BY DEF Reply
<1>1. TypeOK'
  <2>1. links' \in SUBSET Links
    BY <1>0 DEF GoodLinks
  <2>2. Config \subseteq Vlans /\ {None} \subseteq Vlans
    BY DEF Config, Vlans, VlanConfigs, Lan
  <2>3. \A p \in ports' : /\ p.at \in AllPorts /\ p.vlan \in Vlans
                         /\ p.peer \in Devices \cup Clients \cup {None}
    BY <1>0, <2>2 DEF GoodPorts
  <2>. QED
    BY <1>0, <2>1, <2>3 DEF IInv, TypeOK, envVars
<1>2. PortList' = PortList
  BY <1>0, SamePorts DEF envVars
<1>3. OrderInv'
  BY <1>0, <1>2 DEF IInv, OrderInv, IsDetail
<1>4. KeptInv' /\ ReadInv' /\ LinksLead'
  BY <1>0 DEF IInv, KeptInv, ReadInv, Took, LinksLead, IsDetail, envVars
<1>. QED
  BY <1>1, <1>3, <1>4 DEF IInv

LEMMA ListsPreserve ==
  ASSUME IInv, ListPorts \/ ListVLANs \/ ListWANs \/ ListSSIDs
  PROVE  IInv'
<1>0. TypeOK
  BY DEF IInv
<1>1. CASE ListPorts
  <2> DEFINE L == PortLinks(PortList) \cup To("device", {p.at[1] : p \in PortList})
  <2>1. Reply(PortList, L) /\ kind = "ports"
    BY <1>1 DEF ListPorts, PortList
  <2>2. {p.at[1] : p \in PortList} \subseteq Devices
    BY <1>0, PortListIs
  <2>3. To("device", {p.at[1] : p \in PortList}) \in SUBSET GoodLinks
    BY <2>2, ToIsGood, KindsAre, CollectionsAre
  <2>4. PortLinks(PortList) \in SUBSET GoodLinks
    BY <1>0, PortListIs, PortLinksAre
  <2>5. L \in SUBSET GoodLinks /\ PortList \in SUBSET GoodPorts /\ ~IsDetail
    BY <1>0, <2>1, <2>3, <2>4, PortListIs, KindsAre DEF IsDetail
  <2> HIDE DEF L
  <2>. QED
    BY <2>1, <2>5, ListPreserves
<1>2. CASE ListVLANs
  <2> DEFINE L == To("vlan", {n \in seen.confs : isLanNetwork(n)})
  <2>1. {n \in seen.confs : isLanNetwork(n)} \subseteq Lan
    BY <1>0 DEF TypeOK, Lan
  <2>2. L \in SUBSET GoodLinks
    BY <2>1, ToIsGood, KindsAre, CollectionsAre
  <2>3. Reply({}, L) /\ kind = "vlans" /\ ~IsDetail
    BY <1>2, KindsAre DEF ListVLANs, IsDetail
  <2> HIDE DEF L
  <2>. QED
    BY <2>2, <2>3, ListPreserves
<1>3. CASE ListWANs
  <2> DEFINE L == To("wan", {n \in seen.confs : Purpose[n] = "wan"})
  <2>1. {n \in seen.confs : Purpose[n] = "wan"} \subseteq {n \in Networks : Purpose[n] = "wan"}
    BY <1>0 DEF TypeOK
  <2>2. L \in SUBSET GoodLinks
    BY <2>1, ToIsGood, KindsAre, CollectionsAre
  <2>3. Reply({}, L) /\ kind = "wans" /\ ~IsDetail
    BY <1>3, KindsAre DEF ListWANs, IsDetail
  <2> HIDE DEF L
  <2>. QED
    BY <2>2, <2>3, ListPreserves
<1>4. CASE ListSSIDs
  <2> DEFINE L == To("ssid", seen.enabled)
  <2>1. seen.enabled \subseteq Wlans
    BY <1>0 DEF TypeOK
  <2>2. L \in SUBSET GoodLinks
    BY <2>1, ToIsGood, KindsAre, CollectionsAre
  <2>3. Reply({}, L) /\ kind = "ssids" /\ ~IsDetail
    BY <1>4, KindsAre DEF ListSSIDs, IsDetail
  <2> HIDE DEF L
  <2>. QED
    BY <2>2, <2>3, ListPreserves
<1>. QED
  BY <1>1, <1>2, <1>3, <1>4

\* A detail is looked up in items of its collection.
LEMMA DetailPreserves ==
  ASSUME IInv, IsDetail, NEW S \in SUBSET Collection(kind),
         target \in kept => Same(S) # {}, ReplyFrom(S)
  PROVE  IInv'
<1> DEFINE x == First(Same(S))
<1>0. /\ pc = "read" /\ pc' = "done"
      /\ UNCHANGED <<envVars, kind, target, want, step, seen, ports, kept>>
  BY DEF ReplyFrom
<1>1. Collection(kind) \subseteq Items
  BY CollectionsAre, ItemsAre, KindsAre DEF IsDetail, Lan
<1>2. Same(S) # {} => x \in Collection(kind) /\ x \in Items /\ Id[x] = Id[target]
  <2>1. Same(S) \in SUBSET Items
    BY <1>1 DEF Same
  <2>2. Same(S) # {} => x \in Same(S)
    BY <2>1, FirstIs
  <2>. QED
    BY <1>1, <2>2 DEF Same
<1>3. \/ Same(S) = {} /\ answer' = "notFound" /\ found' = found /\ links' = links
      \/ Same(S) # {} /\ answer' = "ok" /\ found' = x /\ links' = DetailLinks(x)
  BY DEF ReplyFrom
<1> HIDE DEF x
<1>4. links' \in SUBSET GoodLinks
  BY <1>2, <1>3, DetailLinksAre DEF IInv, OrderInv
<1>5. TypeOK'
  BY <1>0, <1>2, <1>3, <1>4 DEF IInv, TypeOK, GoodLinks, envVars
<1>6. OrderInv'
  <2>1. kind # "ports"
    BY KindsAre DEF IsDetail
  <2>. QED
    BY <1>0, <1>4, <2>1 DEF IInv, OrderInv, IsDetail
<1>7. KeptInv' /\ ReadInv'
  BY <1>0 DEF IInv, KeptInv, ReadInv, Took, envVars
<1>8. LinksLead'
  BY <1>0, <1>2, <1>3 DEF LinksLead, IsDetail
<1>. QED
  BY <1>5, <1>6, <1>7, <1>8 DEF IInv

LEMMA DetailsPreserve ==
  ASSUME IInv, GetDevice \/ GetVLAN \/ GetWAN \/ GetSSID \/ GetClient
  PROVE  IInv'
<1>0. Ready /\ IsDetail /\ target \in Collection(kind)
  BY KindsAre DEF IInv, OrderInv, IsDetail, GetDevice, GetVLAN, GetWAN, GetSSID, GetClient, ReplyFrom
<1>a. target \in Items
  BY <1>0, CollectionsAre, ItemsAre, KindsAre DEF IsDetail, Lan
<1>b. \A S : target \in S => Same(S) # {}
  BY DEF Same
<1>1. CASE GetDevice
  <2>1. kind = "device" /\ ReplyFrom(seen.devices)
    BY <1>1 DEF GetDevice
  <2>2. step = 3 /\ Reads[kind][1] = "devices"
    BY <1>0, <2>1, ReadsAre DEF Ready
  <2>3. target \in kept => target \in seen.devices
    BY <1>0, <2>1, <2>2, CollectionsAre DEF IInv, ReadInv, Took
  <2>4. seen.devices \in SUBSET Collection(kind)
    BY <2>1, CollectionsAre DEF IInv, TypeOK
  <2>. QED
    BY <1>0, <1>b, <2>1, <2>3, <2>4, DetailPreserves
<1>2. CASE GetVLAN
  <2> DEFINE S == {n \in seen.confs : isLanNetwork(n)}
  <2>1. kind = "vlan" /\ ReplyFrom(S)
    BY <1>2 DEF GetVLAN
  <2>2. step = 1 /\ Reads[kind][1] = "confs"
    BY <1>0, <2>1, ReadsAre DEF Ready
  <2>3. target \in kept => target \in S
    BY <1>0, <2>1, <2>2, CollectionsAre DEF IInv, ReadInv, Took, Lan
  <2>4. S \in SUBSET Collection(kind)
    BY <2>1, CollectionsAre DEF IInv, TypeOK, Lan
  <2> HIDE DEF S
  <2>. QED
    BY <1>0, <1>b, <2>1, <2>3, <2>4, DetailPreserves
<1>3. CASE GetWAN
  <2> DEFINE S == {n \in seen.confs : Purpose[n] = "wan"}
  <2>1. kind = "wan" /\ ReplyFrom(S)
    BY <1>3 DEF GetWAN
  <2>2. step = 2 /\ Reads[kind][1] = "confs"
    BY <1>0, <2>1, ReadsAre DEF Ready
  <2>3. target \in kept => target \in S
    BY <1>0, <2>1, <2>2, CollectionsAre DEF IInv, ReadInv, Took
  <2>4. S \in SUBSET Collection(kind)
    BY <2>1, CollectionsAre DEF IInv, TypeOK
  <2> HIDE DEF S
  <2>. QED
    BY <1>0, <1>b, <2>1, <2>3, <2>4, DetailPreserves
<1>4. CASE GetSSID
  <2>1. kind = "ssid" /\ ReplyFrom(seen.wlans)
    BY <1>4 DEF GetSSID
  <2>2. step = 4 /\ Reads[kind][1] = "wlans"
    BY <1>0, <2>1, ReadsAre DEF Ready
  <2>3. target \in kept => target \in seen.wlans
    BY <1>0, <2>1, <2>2, CollectionsAre DEF IInv, ReadInv, Took
  <2>4. seen.wlans \in SUBSET Collection(kind)
    BY <2>1, CollectionsAre DEF IInv, TypeOK
  <2>. QED
    BY <1>0, <1>b, <2>1, <2>3, <2>4, DetailPreserves
<1>5. CASE GetClient
  <2>0. kind = "client" /\ Collection(kind) = Clients
    BY <1>5, CollectionsAre DEF GetClient
  <2>1. seen.clients \in SUBSET Collection(kind) /\ seen.history \in SUBSET Collection(kind)
    BY <2>0 DEF IInv, TypeOK
  <2>2. CASE Same(seen.clients) # {}
    <3>1. ReplyFrom(seen.clients)
      BY <1>5, <2>2 DEF GetClient
    <3>. QED
      BY <1>0, <2>1, <2>2, <3>1, DetailPreserves
  <2>3. CASE Same(seen.clients) = {}
    <3>1. ReplyFrom(seen.history)
      BY <1>5, <2>3 DEF GetClient
    <3>2. step = 3 /\ Reads[kind][3] = "history"
      BY <1>0, <2>0, <2>3, ReadsAre DEF Ready
    <3>3. Took("history")
      BY <3>2 DEF Took
    <3>4. target \in kept => target \in seen.history
      BY <1>0, <1>b, <2>0, <2>3, <3>3 DEF IInv, ReadInv
    <3>. QED
      BY <1>0, <1>b, <2>1, <3>1, <3>4, DetailPreserves
  <2>. QED
    BY <2>2, <2>3
<1>. QED
  BY <1>1, <1>2, <1>3, <1>4, <1>5

-----------------------------------------------------------------------------
(* The edits. *)

\* Whoever is edited is not kept; nothing else of the request changes.
LEMMA EditPreserves ==
  ASSUME IInv, Change, Elsewhere,
         confs' \in SUBSET Networks, managed' \in SUBSET Devices,
         wlan' \in [Wlans -> {"enabled", "disabled", "gone"}], online' \in SUBSET Clients,
         kept' \in SUBSET kept, KeptInv',
         \A c \in kept' \cap Clients : c \notin online => c \notin online'
  PROVE  IInv'
<1>1. UNCHANGED <<uplink, setting, pc, kind, target, want, step, seen, resultVars>>
  BY DEF Elsewhere
<1>2. changes' \in 0..MaxChanges
  BY Consistent DEF IInv, TypeOK, Change, ConfigAssumption
<1>3. TypeOK'
  BY <1>1, <1>2 DEF IInv, TypeOK, resultVars
<1>4. PortList' = PortList
  BY <1>1, SamePorts
<1>5. OrderInv'
  BY <1>1, <1>4 DEF IInv, OrderInv, IsDetail, resultVars
<1>6. ReadInv'
  BY <1>1 DEF IInv, ReadInv, Took
<1>7. LinksLead'
  BY <1>1 DEF IInv, LinksLead, IsDetail, resultVars
<1>. QED
  BY <1>3, <1>5, <1>6, <1>7 DEF IInv

LEMMA EditsPreserve ==
  ASSUME IInv,
         \/ \E n \in Networks : EditNetwork(n)
         \/ \E d \in Devices : EditDevice(d)
         \/ \E w \in Wlans, s \in {"enabled", "disabled", "gone"} : EditWlan(w, s)
         \/ \E c \in Clients : Disconnect(c) \/ Connect(c)
  PROVE  IInv'
<1> USE DEF KeptInv
<1>0. TypeOK /\ KeptInv
  BY DEF IInv
<1>1. ASSUME NEW n \in Networks, EditNetwork(n) PROVE IInv'
  BY <1>0, <1>1, EditPreserves DEF EditNetwork, TypeOK
<1>2. ASSUME NEW d \in Devices, EditDevice(d) PROVE IInv'
  BY <1>0, <1>2, EditPreserves DEF EditDevice, TypeOK
<1>3. ASSUME NEW w \in Wlans, NEW s \in {"enabled", "disabled", "gone"}, EditWlan(w, s) PROVE IInv'
  BY <1>0, <1>3, EditPreserves DEF EditWlan, TypeOK
<1>4. ASSUME NEW c \in Clients, Disconnect(c) PROVE IInv'
  BY <1>0, <1>4, EditPreserves DEF Disconnect, TypeOK
<1>5. ASSUME NEW c \in Clients, Connect(c) PROVE IInv'
  BY <1>0, <1>5, EditPreserves DEF Connect, TypeOK
<1>. QED
  BY <1>1, <1>2, <1>3, <1>4, <1>5

LEMMA StepIInv == IInv /\ [Next]_vars => IInv'
<1> SUFFICES ASSUME IInv, [Next]_vars PROVE IInv'
  OBVIOUS
<1>1. \A n \in Networks : Tag[n] \in Nat
  BY Consistent DEF ConfigAssumption
<1>2. CASE \E k \in DOMAIN Lists,
              v \in {0} \cup {Tag[n] : n \in {m \in Networks : isLanNetwork(m)}} : Begin(k, v)
  <2>1. {0} \cup {Tag[n] : n \in {m \in Networks : isLanNetwork(m)}} \subseteq Nat
    BY <1>1
  <2>2. PICK k \in DOMAIN Lists, v \in Nat : Begin(k, v)
    BY <1>2, <2>1
  <2>. QED
    BY <2>2, BeginPreserves
<1>3. CASE \E l \in links : Follow(l)
  BY <1>3, FollowPreserves
<1>4. CASE Read \/ ReadFails
  BY <1>4, ReadPreserves, ReadFailsPreserves
<1>5. CASE ListPorts \/ ListVLANs \/ ListWANs \/ ListSSIDs
  BY <1>5, ListsPreserve
<1>6. CASE GetDevice \/ GetVLAN \/ GetWAN \/ GetSSID \/ GetClient
  BY <1>6, DetailsPreserve
<1>7. CASE \/ \E n \in Networks : EditNetwork(n)
           \/ \E d \in Devices : EditDevice(d)
           \/ \E w \in Wlans, s \in {"enabled", "disabled", "gone"} : EditWlan(w, s)
           \/ \E c \in Clients : Disconnect(c) \/ Connect(c)
  BY <1>7, EditsPreserve
<1>8. CASE UNCHANGED vars
  <2>1. PortList' = PortList
    BY <1>8, SamePorts DEF vars, envVars
  <2>2. TypeOK' /\ OrderInv' /\ KeptInv' /\ ReadInv' /\ LinksLead'
    BY <1>8, <2>1 DEF IInv, TypeOK, OrderInv, KeptInv, ReadInv, Took, LinksLead, IsDetail,
                      vars, envVars, resultVars
  <2>. QED
    BY <2>2 DEF IInv
<1>. QED
  BY <1>2, <1>3, <1>4, <1>5, <1>6, <1>7, <1>8 DEF Next

-----------------------------------------------------------------------------
(* The theorems. *)

\* What has been read, kept and answered, for any site and any edits.
THEOREM Inductive == Spec => []IInv
  BY InitIInv, StepIInv, PTL DEF Spec

\* Every variable keeps its type: links name items, ports carry networks.
THEOREM TypeCorrect == Spec => []TypeOK
<1>1. IInv => TypeOK
  BY DEF IInv
<1>. QED
  BY <1>1, Inductive, PTL

\* A link that GetDevice, GetClient, GetSSID, GetVLAN or GetWAN is asked to follow leads
\* to an item of its collection with its ID, while what it was made for is there.
THEOREM LinksGood == Spec => []LinksLead
<1>1. IInv => LinksLead
  BY DEF IInv
<1>. QED
  BY <1>1, Inductive, PTL

\* A port of the answer, as buildDevicePorts makes it.
LEMMA PortListMembers ==
  ASSUME TypeOK
  PROVE  /\ \A p \in PortList :
                /\ p.at \in LanPorts(p.at[1]) /\ p.at[1] \in seen.devices
                /\ Type[p.at[1]] \in {"switch", "gateway"}
                /\ p.vlan = buildVlanConfig(setting[p.at], seen.confs)
                /\ p.peer = resolvePortConnectedTo(p.at)
                /\ want = 0 \/ matchesVlanID(p.vlan, want)
         /\ \A d \in seen.devices : Type[d] \in {"switch", "gateway"} =>
                \A x \in LanPorts(d) :
                    want = 0 \/ matchesVlanID(buildVlanConfig(setting[x], seen.confs), want) =>
                        \E p \in PortList : p.at = x
<1> DEFINE port(x) == [at |-> x, vlan |-> buildVlanConfig(setting[x], seen.confs),
                       peer |-> resolvePortConnectedTo(x)]
<1>1. \A d \in seen.devices : buildDevicePorts(d) = {port(x) : x \in LanPorts(d)}
  BY DEF buildDevicePorts
<1>2. \A x : /\ port(x).at = x /\ port(x).vlan = buildVlanConfig(setting[x], seen.confs)
             /\ port(x).peer = resolvePortConnectedTo(x)
  OBVIOUS
<1> HIDE DEF port
<1>3. ASSUME NEW p \in PortList
      PROVE  /\ p.at \in LanPorts(p.at[1]) /\ p.at[1] \in seen.devices
             /\ Type[p.at[1]] \in {"switch", "gateway"}
             /\ p.vlan = buildVlanConfig(setting[p.at], seen.confs)
             /\ p.peer = resolvePortConnectedTo(p.at)
             /\ want = 0 \/ matchesVlanID(p.vlan, want)
  <2>1. PICK d \in seen.devices : Type[d] \in {"switch", "gateway"} /\ p \in buildDevicePorts(d)
    BY DEF PortList
  <2>2. PICK x \in LanPorts(d) : p = port(x)
    BY <1>1, <2>1
  <2>3. x[1] = d
    BY <2>2 DEF LanPorts
  <2>4. want = 0 \/ matchesVlanID(p.vlan, want)
    BY DEF PortList
  <2>. QED
    BY <1>2, <2>1, <2>2, <2>3, <2>4
<1>4. ASSUME NEW d \in seen.devices, Type[d] \in {"switch", "gateway"}, NEW x \in LanPorts(d),
             want = 0 \/ matchesVlanID(buildVlanConfig(setting[x], seen.confs), want)
      PROVE  \E p \in PortList : p.at = x
  <2>1. port(x) \in buildDevicePorts(d)
    BY <1>1
  <2>2. port(x) \in PortList
    BY <1>2, <1>4, <2>1 DEF PortList
  <2>. QED
    BY <1>2, <2>2
<1>. QED
  BY <1>3, <1>4

\* The only device that claims a port is at its other end.
LEMMA CableEnds ==
  ASSUME TypeOK, NEW d \in seen.devices, uplink[d].to \in seen.devices, NEW x, x[2] # 0,
         \A c \in seen.devices \ {d} : ~IsLower(c, x) /\ ~IsUpper(c, x)
  PROVE  /\ x = <<uplink[d].to, uplink[d].remote>> => resolvePortConnectedTo(x) = d
         /\ x = <<d, uplink[d].port>> => resolvePortConnectedTo(x) = uplink[d].to
<1> DEFINE W == {c \in seen.devices :
                    uplink[c].to # None /\ x[2] # 0 /\ (IsLower(c, x) \/ IsUpper(c, x))}
<1>1. d \in Devices /\ uplink[d].to \in Devices /\ uplink[d].to # None /\ uplink[d].to # d /\ d # None
  BY ItemsAre, Consistent DEF TypeOK, ConfigAssumption
<1>2. ASSUME IsLower(d, x) \/ IsUpper(d, x)
      PROVE  buildSwPortToDevice(x) = IF IsLower(d, x) THEN d ELSE uplink[d].to
  <2>1. W = {d}
    BY <1>1, <1>2
  <2>2. {d} \in SUBSET Items /\ {d} # {}
    BY <1>1, ItemsAre
  <2>3. Last({d}) = d
    BY <2>2, LastIs
  <2>4. buildSwPortToDevice(x) = IF W = {} THEN None
                                ELSE IF IsLower(Last(W), x) THEN Last(W) ELSE uplink[Last(W)].to
    BY DEF buildSwPortToDevice
  <2> HIDE DEF W
  <2>. QED
    BY <2>1, <2>3, <2>4
<1>3. ASSUME x = <<uplink[d].to, uplink[d].remote>> PROVE resolvePortConnectedTo(x) = d
  <2>1. IsLower(d, x)
    BY <1>3 DEF IsLower
  <2>. QED
    BY <1>1, <1>2, <2>1 DEF resolvePortConnectedTo
<1>4. ASSUME x = <<d, uplink[d].port>> PROVE resolvePortConnectedTo(x) = uplink[d].to
  <2>1. IsUpper(d, x) /\ ~IsLower(d, x)
    BY <1>1, <1>4 DEF IsUpper, IsLower
  <2>. QED
    BY <1>1, <1>2, <2>1 DEF resolvePortConnectedTo
<1>. QED
  BY <1>3, <1>4

\* buildSwPortToDevice shows a cable at both of its ends (issue #38), whatever else is plugged in.
THEOREM TwoEnds == Spec => []CablesHaveTwoEnds
<1>1. IInv => CablesHaveTwoEnds
  <2> SUFFICES ASSUME IInv, pc = "done", kind = "ports", want = 0, step = 3, NEW d \in seen.devices,
                      uplink[d].to \in seen.devices, NEW x, NEW y \in PeerAt(x),
                      \A c \in seen.devices \ {d} : ~IsLower(c, x) /\ ~IsUpper(c, x)
               PROVE  /\ x = <<uplink[d].to, uplink[d].remote>> => y = d
                      /\ x = <<d, uplink[d].port>> => y = uplink[d].to
    BY DEF CablesHaveTwoEnds
  <2>1. ports = PortList /\ TypeOK
    BY DEF IInv, OrderInv
  <2>2. PICK p \in PortList : p.at = x /\ p.peer = y
    BY <2>1 DEF PeerAt
  <2>3. p.peer = resolvePortConnectedTo(p.at) /\ p.at \in AllPorts
    BY <2>1, PortListMembers, PortListIs DEF GoodPorts
  <2>4. x[2] # 0
    BY <2>2, <2>3, Consistent DEF ConfigAssumption, AllPorts
  <2>. QED
    BY <2>1, <2>2, <2>3, <2>4, CableEnds
<1>. QED
  BY <1>1, Inductive, PTL

-----------------------------------------------------------------------------
(* The filter of the port list. *)

\* The site has a corporate network without a tag, whose ports need not be told it.
HasDefault == \E n \in Networks : Purpose[n] = "corporate" /\ n \in Untagged

\* What the filter looks for is the tag of a VLAN.
WantInv == want = 0 \/ \E n \in Lan : Tag[n] = want

LEMMA StepWantInv == WantInv /\ [Next]_vars => WantInv'
<1> SUFFICES ASSUME WantInv, [Next]_vars PROVE WantInv'
  OBVIOUS
<1>1. CASE \E k \in DOMAIN Lists,
              v \in {0} \cup {Tag[n] : n \in {m \in Networks : isLanNetwork(m)}} : Begin(k, v)
  BY <1>1 DEF Begin, WantInv, Lan
<1>2. CASE \E l \in links : Follow(l)
  BY <1>2 DEF Follow, WantInv
<1>3. CASE want' = want
  BY <1>3 DEF WantInv
<1>4. ASSUME Next
      PROVE  \/ \E k \in DOMAIN Lists,
                   v \in {0} \cup {Tag[n] : n \in {m \in Networks : isLanNetwork(m)}} : Begin(k, v)
             \/ \E l \in links : Follow(l)
             \/ want' = want
  BY <1>4 DEF Next, Read, ReadFails, ListPorts, ListVLANs, ListWANs, ListSSIDs, Reply, GetDevice,
              GetVLAN, GetWAN, GetSSID, GetClient, ReplyFrom, EditNetwork, EditDevice, EditWlan,
              Disconnect, Connect, Elsewhere
<1>. QED
  BY <1>1, <1>2, <1>3, <1>4 DEF vars

LEMMA CarriesIs ==
  ASSUME HasDefault, TypeOK, WantInv, want # 0, NEW x \in AllPorts
  PROVE  matchesVlanID(buildVlanConfig(setting[x], Networks), want)
            <=> \E n \in Wanted : Carries(x, n) /\ ~Overlooked(x, n)
<1> DEFINE s == setting[x]
           native == resolveNativeConf(s.native, Networks)
           cfg == buildVlanConfig(s, Networks)
           corporate == {n \in Networks : Purpose[n] = "corporate"}
           tagged == corporate \ (s.excluded \cup {native})
<1>1. s \in Settings /\ (s.native # None => Purpose[s.native] # "wan")
  BY Consistent DEF ConfigAssumption, TypeOK
<1>2. /\ findDefaultNetID(Networks) \in Lan
      /\ native \in Lan /\ native # None
      /\ native = IF s.native = None THEN findDefaultNetID(Networks) ELSE s.native
  <2>1. findDefaultNetID(Networks) \in Networks \cap Lan /\ findDefaultNetID(Networks) # None
    BY DefaultIs DEF HasDefault
  <2>2. native \in {None} \cup Lan
    BY <1>1, NativeIs
  <2>3. None \notin Networks
    BY ItemsAre
  <2>4. s.native # None => s.native \in Networks
    BY <1>1 DEF Settings
  <2>. QED
    BY <2>1, <2>2, <2>3, <2>4 DEF resolveNativeConf, Lan
<1>3. cfg = IF s.forward = "disable" THEN None
           ELSE IF s.forward = "native"
             THEN [native |-> native, mode |-> "access", scope |-> "none", tagged |-> {}]
           ELSE IF s.forward = "customize" /\ s.excluded # {}
             THEN [native |-> native, mode |-> "trunk", scope |-> "custom", tagged |-> tagged]
           ELSE [native |-> native, mode |-> "trunk", scope |-> "all", tagged |-> {}]
  BY <1>2 DEF buildVlanConfig
<1>4. /\ cfg = None \/ cfg \in Config
      /\ None \notin Config
  <2>1. Config \subseteq VlanConfigs
    BY DEF Config, VlanConfigs, Lan
  <2>. QED
    BY <1>1, <2>1, ConfigIs, Consistent DEF ConfigAssumption
<1>5. \A n \in Lan : Carries(x, n) /\ ~Overlooked(x, n) <=>
        /\ s.forward # "disable"
        /\ \/ n = native
           \/ s.forward = "all"
           \/ s.forward = "customize" /\ s.excluded = {}
           \/ s.forward = "customize" /\ Purpose[n] = "corporate" /\ n \notin s.excluded
  <2>1. \A n \in Lan :
            n = native <=> (n = s.native \/ (s.native = None /\ n = findDefaultNetID(Networks)))
    BY <1>2, ItemsAre DEF Lan
  <2>2. \A n \in Lan : Purpose[n] # "guest" <=> Purpose[n] = "corporate"
    BY DEF Lan, isLanNetwork
  <2>3. Purpose[findDefaultNetID(Networks)] = "corporate"
    BY DefaultIs DEF HasDefault
  <2>4. \A n \in Lan : Overlooked(x, n) <=>
          s.forward = "customize" /\ s.excluded # {} /\ Purpose[n] = "guest" /\ n # native
    BY <2>1, <2>3 DEF Overlooked
  <2>5. \A n \in Lan : Carries(x, n) <=>
          /\ s.forward # "disable"
          /\ n = native \/ s.forward = "all" \/ (s.forward = "customize" /\ s.excluded = {})
             \/ (s.forward = "customize" /\ n \notin s.excluded)
    BY <2>1 DEF Carries
  <2> HIDE DEF s, native
  <2>. QED
    BY <2>2, <2>4, <2>5
<1>6. s.forward \in {"all", "native", "customize", "disable"}
  BY <1>1 DEF Settings
<1>7. PICK wanted \in Lan : Tag[wanted] = want
  BY DEF WantInv
<1>8. /\ Lan \subseteq Networks /\ (\A n \in Lan : isLanNetwork(n)) /\ corporate \subseteq Lan
      /\ Wanted = {n \in Lan : Tag[n] = want}
  BY DEF Lan, isLanNetwork, Wanted
<1>9. /\ tagged = corporate \ (s.excluded \cup {native})
      /\ s.forward = "native" => [native |-> native, mode |-> "access", scope |-> "none", tagged |-> {}] \in Config
      /\ [native |-> native, mode |-> "trunk", scope |-> "custom", tagged |-> tagged] \in Config
      /\ [native |-> native, mode |-> "trunk", scope |-> "all", tagged |-> {}] \in Config
  BY <1>2, <1>8 DEF Config
<1> HIDE DEF s, native, cfg, tagged
<1>10. CASE s.forward = "disable"
  <2>1. ~matchesVlanID(cfg, want)
    BY <1>3, <1>10 DEF matchesVlanID
  <2>2. \A n \in Wanted : ~(Carries(x, n) /\ ~Overlooked(x, n))
    BY <1>5, <1>8, <1>10
  <2>. QED
    BY <2>1, <2>2 DEF cfg, s
<1>11. CASE s.forward = "native"
  <2>1. cfg # None /\ cfg.native = native /\ cfg.scope = "none" /\ cfg.tagged = {}
    BY <1>3, <1>4, <1>9, <1>11
  <2>2. matchesVlanID(cfg, want) <=> Tag[native] = want
    BY <2>1 DEF matchesVlanID
  <2>3. \A n \in Lan : Carries(x, n) /\ ~Overlooked(x, n) <=> n = native
    BY <1>5, <1>11
  <2>. QED
    BY <1>2, <1>8, <2>2, <2>3 DEF cfg, s
<1>12. CASE s.forward = "customize" /\ s.excluded # {}
  <2>1. cfg # None /\ cfg.native = native /\ cfg.scope = "custom" /\ cfg.tagged = tagged
    BY <1>3, <1>4, <1>9, <1>12
  <2>2. matchesVlanID(cfg, want) <=> Tag[native] = want \/ \E n \in tagged : Tag[n] = want
    BY <2>1 DEF matchesVlanID
  <2>3. \A n \in Lan : Carries(x, n) /\ ~Overlooked(x, n) <=> n = native \/ n \in tagged
    <3>1. \A n \in Lan : n \in tagged <=> Purpose[n] = "corporate" /\ n \notin s.excluded /\ n # native
      BY <1>8, <1>9
    <3>. QED
      BY <1>5, <1>12, <3>1
  <2>. QED
    BY <1>2, <1>8, <1>9, <2>2, <2>3 DEF cfg, s
<1>13. CASE s.forward = "all" \/ (s.forward = "customize" /\ s.excluded = {})
  <2>1. cfg # None /\ cfg.scope = "all"
    BY <1>3, <1>4, <1>9, <1>13
  <2>2. matchesVlanID(cfg, want)
    BY <2>1 DEF matchesVlanID
  <2>3. \A n \in Lan : Carries(x, n) /\ ~Overlooked(x, n)
    BY <1>5, <1>13
  <2>. QED
    BY <1>7, <1>8, <2>2, <2>3 DEF cfg, s
<1>. QED
  BY <1>6, <1>10, <1>11, <1>12, <1>13

\* ListPorts with a VLAN ID answers only ports that carry the VLAN, and all of them but
\* those it overlooks a guest VLAN on, on any site with a default network.
THEOREM FilterExact == ASSUME HasDefault PROVE Spec => []VlanFilterExact
<1>1. IInv /\ WantInv => VlanFilterExact
  <2> SUFFICES ASSUME IInv, WantInv, pc = "done", kind = "ports", want # 0, step = 3,
                      Networks \subseteq kept
               PROVE  VlanFilterExact
    BY DEF VlanFilterExact
  <2>1. ports = PortList /\ TypeOK
    BY DEF IInv, OrderInv
  <2>2. seen.confs = Networks
    <3>1. Reads[kind][3] = "confs"
      BY ReadsAre
    <3>2. Took("confs")
      BY <3>1 DEF Took
    <3>. QED
      BY <2>1, <3>2 DEF IInv, ReadInv, TypeOK
  <2> DEFINE listed == {x \in AllPorts : /\ x[1] \in seen.devices /\ x \in LanPorts(x[1])
                                         /\ Type[x[1]] \in {"switch", "gateway"}}
  <2>3. ASSUME NEW p \in PortList
        PROVE  p.at \in listed /\ \E n \in Wanted : Carries(p.at, n)
    <3>1. p.at \in AllPorts
      BY <2>1, PortListIs DEF GoodPorts
    <3>2. /\ p.at \in LanPorts(p.at[1]) /\ p.at[1] \in seen.devices
          /\ Type[p.at[1]] \in {"switch", "gateway"}
          /\ matchesVlanID(buildVlanConfig(setting[p.at], Networks), want)
      BY <2>1, <2>2, PortListMembers
    <3>. QED
      BY <2>1, <3>1, <3>2, CarriesIs
  <2>4. ASSUME NEW x \in listed, NEW n \in Wanted, Carries(x, n), ~Overlooked(x, n)
        PROVE  \E p \in PortList : p.at = x
    <3>1. matchesVlanID(buildVlanConfig(setting[x], seen.confs), want)
      BY <2>1, <2>2, <2>4, CarriesIs
    <3>. QED
      BY <2>1, <3>1, PortListMembers
  <2> HIDE DEF listed
  <2>5. \A x \in {p.at : p \in PortList} : x \in listed /\ \E n \in Wanted : Carries(x, n)
    BY <2>3
  <2>6. \A x \in listed \ {p.at : p \in PortList}, n \in Wanted : Carries(x, n) => Overlooked(x, n)
    BY <2>4
  <2>. QED
    BY <2>1, <2>5, <2>6 DEF VlanFilterExact, listed
<1>2. Init => WantInv
  BY DEF Init, WantInv
<1>. QED
  BY <1>1, <1>2, StepWantInv, Inductive, PTL DEF Spec

-----------------------------------------------------------------------------
(* What the filter is worth on a site without a default network, or while  *)
(* somebody edits the networks.                                            *)

\* The network is carried, or it was the default among the networks that were read.
CarriesAsRead(x, n, S) ==
    \/ Carries(x, n)
    \/ setting[x].forward # "disable" /\ setting[x].native = None /\ n = findDefaultNetID(S)

FilterIsSound ==
    pc = "done" /\ kind = "ports" /\ want # 0 /\ step = 3 =>
        \A p \in ports : \E n \in Wanted : CarriesAsRead(p.at, n, seen.confs)

LEMMA MatchedIsCarried ==
  ASSUME TypeOK, WantInv, want # 0, NEW x \in AllPorts, NEW S \in SUBSET Networks,
         matchesVlanID(buildVlanConfig(setting[x], S), want)
  PROVE  \E n \in Wanted : CarriesAsRead(x, n, S)
<1> DEFINE s == setting[x]
           native == resolveNativeConf(s.native, S)
           cfg == buildVlanConfig(s, S)
           tagged == {n \in S : Purpose[n] = "corporate"} \ (s.excluded \cup {native})
<1>1. s \in Settings /\ (s.native # None => Purpose[s.native] # "wan")
  BY Consistent DEF ConfigAssumption, TypeOK
<1>2. cfg # None
  BY DEF matchesVlanID
<1>3. /\ s.forward # "disable" /\ native # None
      /\ cfg \in {[native |-> native, mode |-> "access", scope |-> "none", tagged |-> {}],
                  [native |-> native, mode |-> "trunk", scope |-> "custom", tagged |-> tagged],
                  [native |-> native, mode |-> "trunk", scope |-> "all", tagged |-> {}]}
      /\ cfg.scope = "custom" => s.forward = "customize"
      /\ cfg.scope = "all" => s.forward = "all" \/ (s.forward = "customize" /\ s.excluded = {})
  BY <1>1, <1>2 DEF buildVlanConfig, Settings
<1>4. native \in S \cap Lan
  BY <1>1, <1>3, NativeIs
<1>5. native = s.native \/ (s.native = None /\ native = findDefaultNetID(S))
  BY <1>3 DEF resolveNativeConf
<1>6. CarriesAsRead(x, native, S)
  BY <1>3, <1>5 DEF CarriesAsRead, Carries
<1>7. \A n \in Lan : Tag[n] = want => n \in Wanted
  BY DEF Lan, Wanted
<1>8. cfg.native = native /\ cfg.tagged \in {{}, tagged}
  BY <1>3
<1>9. CASE Tag[cfg.native] = want
  BY <1>4, <1>6, <1>7, <1>8, <1>9
<1>10. CASE cfg.scope = "all"
  <2>1. PICK n \in Lan : Tag[n] = want
    BY DEF WantInv
  <2>2. CarriesAsRead(x, n, S)
    BY <1>3, <1>10 DEF CarriesAsRead, Carries
  <2>. QED
    BY <1>7, <2>1, <2>2
<1>11. ASSUME NEW n \in cfg.tagged, Tag[n] = want
       PROVE  \E m \in Wanted : CarriesAsRead(x, m, S)
  <2>1. n \in S /\ Purpose[n] = "corporate" /\ n \notin s.excluded
    BY <1>8, <1>11
  <2>2. cfg.scope = "custom"
    BY <1>3, <1>11
  <2>3. CarriesAsRead(x, n, S)
    BY <1>3, <2>1, <2>2 DEF CarriesAsRead, Carries
  <2>. QED
    BY <1>11, <2>1, <2>3 DEF isLanNetwork, Wanted
<1>. QED
  BY <1>9, <1>10, <1>11 DEF matchesVlanID

\* ListPorts with a VLAN ID never answers a port that does not carry the VLAN, on any
\* site and whoever edits the networks meanwhile: what FilterExact needs a default
\* network and peace for is only that no port is missing.
THEOREM FilterSound == Spec => []FilterIsSound
<1>1. IInv /\ WantInv => FilterIsSound
  <2> SUFFICES ASSUME IInv, WantInv, pc = "done", kind = "ports", want # 0, step = 3,
                      NEW p \in ports
               PROVE  \E n \in Wanted : CarriesAsRead(p.at, n, seen.confs)
    BY DEF FilterIsSound
  <2>1. TypeOK /\ seen.confs \in SUBSET Networks
    BY DEF IInv, TypeOK
  <2>2. p \in PortList
    BY DEF IInv, OrderInv
  <2>3. p.at \in AllPorts
    BY <2>1, <2>2, PortListIs DEF GoodPorts
  <2>4. matchesVlanID(buildVlanConfig(setting[p.at], seen.confs), want)
    BY <2>1, <2>2, PortListMembers
  <2>. QED
    BY <2>1, <2>3, <2>4, MatchedIsCarried
<1>2. Init => WantInv
  BY DEF Init, WantInv
<1>. QED
  BY <1>1, <1>2, StepWantInv, Inductive, PTL DEF Spec
=============================================================================
