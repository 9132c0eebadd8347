----------------------- MODULE NetworkSnapshot_proofs -----------------------
(***************************************************************************)
(* Proofs about NetworkSnapshot, for any controllers, devices and clients: *)
(* however the sites change between the reads, the topology is a closed    *)
(* graph, no known client is lost, no status is invented, and no answer is *)
(* partial.                                                                *)
(***************************************************************************)
EXTENDS NetworkSnapshot, TLAPS

-----------------------------------------------------------------------------
(* What is read, and in which order. *)

LEMMA KindsAre ==
  /\ DOMAIN Lists = {"clients", "online", "offline", "devices"}
  /\ DOMAIN Details = {"client", "device"}
  /\ DOMAIN Graphs = {"topology", "backbone"}
  /\ Kinds = {"clients", "online", "offline", "devices", "client", "device", "topology", "backbone"}
  BY DEF Lists, Details, Graphs, Kinds, Reads

LEMMA ReadsAre ==
  /\ Reads["clients"] = <<"active", "history">>
  /\ Reads["online"] = <<"active">>
  /\ Reads["offline"] = <<"history">>
  /\ Reads["devices"] = <<"devices">>
  /\ Reads["client"] = <<"devices", "active", "history">>
  /\ Reads["device"] = <<"devices", "active", "conf">>
  /\ Reads["topology"] = <<"devices", "active", "history">>
  /\ Reads["backbone"] = <<"devices">>
<1>1. ASSUME NEW k \in DOMAIN Lists PROVE Reads[k] = Lists[k]
  BY <1>1, KindsAre DEF Reads
<1>2. ASSUME NEW k \in DOMAIN Details PROVE Reads[k] = Details[k]
  BY <1>2, KindsAre DEF Reads
<1>3. ASSUME NEW k \in DOMAIN Graphs PROVE Reads[k] = Graphs[k]
  BY <1>3, KindsAre DEF Reads
<1>4. /\ Lists["clients"] = <<"active", "history">>
      /\ Lists["online"] = <<"active">>
      /\ Lists["offline"] = <<"history">>
      /\ Lists["devices"] = <<"devices">>
  BY DEF Lists
<1>5. /\ Details["client"] = <<"devices", "active", "history">>
      /\ Details["device"] = <<"devices", "active", "conf">>
  BY DEF Details
<1>6. /\ Graphs["topology"] = <<"devices", "active", "history">>
      /\ Graphs["backbone"] = <<"devices">>
  BY DEF Graphs
<1>. QED
  BY <1>1, <1>2, <1>3, <1>4, <1>5, <1>6, KindsAre

LEMMA LenOfReads ==
  ASSUME NEW k \in Kinds
  PROVE  /\ Len(Reads[k]) \in 1..3
         /\ k = "clients" => Len(Reads[k]) = 2
         /\ k \in {"client", "topology"} => Len(Reads[k]) = 3
  BY KindsAre, ReadsAre

LEMMA SeenIs ==
  ASSUME TypeOK, NEW s
  PROVE  /\ Seen(s) \in SUBSET (Clients \X Devices)
         /\ \A r \in Seen(s) : r[1] \in Clients /\ status[r[1]] = s /\ Site[r[1]] = here
         /\ \A c \in Clients : status[c] = s /\ Site[c] = here => \E r \in Seen(s) : r[1] = c
<1>1. ASSUME NEW r \in Seen(s)
      PROVE  r \in Clients \X Devices /\ status[r[1]] = s /\ Site[r[1]] = here
  <2>1. PICK c \in Clients : Site[c] = here /\ status[c] = s /\ r = <<c, at[c]>>
    BY DEF Seen, Local
  <2>. QED
    BY <2>1 DEF TypeOK
<1>2. ASSUME NEW c \in Clients, status[c] = s, Site[c] = here
      PROVE  <<c, at[c]>> \in Seen(s)
  BY <1>2 DEF Seen, Local
<1>3. \A c \in Clients : status[c] = s /\ Site[c] = here => \E r \in Seen(s) : r[1] = c
  <2> SUFFICES ASSUME NEW c \in Clients, status[c] = s, Site[c] = here
               PROVE  \E r \in Seen(s) : r[1] = c
    OBVIOUS
  <2>1. <<c, at[c]>> \in Seen(s) /\ <<c, at[c]>>[1] = c
    BY <1>2
  <2>. QED
    BY <2>1
<1>. QED
  BY <1>1, <1>3

LEMMA ListedIs ==
  ASSUME TypeOK
  PROVE  /\ Listed \in SUBSET (Clients \X Statuses)
         /\ \A n \in Listed : \/ \E r \in stas : n[1] = r[1] /\ n[2] = "online"
                             \/ \E r \in hist : n[1] = r[1] /\ n[2] = "offline"
         /\ \A r \in stas : <<r[1], "online">> \in Listed
         /\ \A r \in hist : <<r[1], "offline">> \in Listed
<1> DEFINE Offline == {<<r[1], "offline">> : r \in hist}
<1>1. /\ Online \in SUBSET (Clients \X Statuses)
      /\ \A n \in Online : \E r \in stas : n[1] = r[1] /\ n[2] = "online"
      /\ \A r \in stas : <<r[1], "online">> \in Online
  BY DEF TypeOK, Online, Statuses
<1>2. /\ Offline \in SUBSET (Clients \X Statuses)
      /\ \A n \in Offline : \E r \in hist : n[1] = r[1] /\ n[2] = "offline"
      /\ \A r \in hist : <<r[1], "offline">> \in Offline
  BY DEF TypeOK, Statuses
<1>3. Listed = Online \cup Offline
  BY DEF Listed
<1> HIDE DEF Offline
<1>. QED
  BY <1>1, <1>2, <1>3

LEMMA EdgesAre ==
  ASSUME TypeOK
  PROVE  /\ DeviceEdges \in SUBSET (Devices \X Devices)
         /\ ClientEdges \in SUBSET (Clients \X Devices)
         /\ \A e \in DeviceEdges : e[1] \in devs /\ e[2] \in devs
         /\ \A e \in ClientEdges : e[2] \in devs /\ \E r \in stas \cup hist : e[1] = r[1]
<1>1. ASSUME NEW e \in DeviceEdges
      PROVE  e \in Devices \X Devices /\ e[1] \in devs /\ e[2] \in devs
  <2>1. PICK d \in devs : e \in {d} \X Upstream(Uplink[d])
    BY DEF DeviceEdges
  <2>. QED
    BY <2>1 DEF TypeOK, Upstream
<1>2. ASSUME NEW e \in ClientEdges
      PROVE  /\ e \in Clients \X Devices /\ e[2] \in devs
             /\ \E r \in stas \cup hist : e[1] = r[1]
  <2>1. PICK r \in stas \cup hist : e \in {r[1]} \X Upstream(r[2])
    BY DEF ClientEdges
  <2>2. r \in Clients \X Devices
    BY DEF TypeOK
  <2>. QED
    BY <2>1, <2>2 DEF TypeOK, Upstream
<1>. QED
  BY <1>1, <1>2

-----------------------------------------------------------------------------
(* The inductive invariant. *)

\* A client that has neither come online nor dropped out since the request began.
Stayed(c) == c \notin joined /\ "gone" \notin had[c]
LookedFor == {"clients", "topology", "client"}
ActiveAt == IF kind = "clients" THEN 1 ELSE 2

OrderInv ==
    /\ step <= Len(Reads[kind])
    /\ pc = "idle" => /\ step = 0 /\ stas = {} /\ hist = {} /\ cnodes = {} /\ edges = {}
                     /\ served = {} /\ failed = {}

SiteInv ==
    /\ \A r \in stas \cup hist : Site[r[1]] = here
    /\ \A n \in cnodes : Site[n[1]] \in served
    /\ pc = "read" => here \notin todo \cup served \cup failed
    /\ todo \cap (served \cup failed) = {} /\ served \cap failed = {}
    /\ IsDetail /\ pc \in {"next", "read"} => served = {}
    /\ failed # {} => IsList \/ (pc = "done" /\ answer = "error")

GraphInv ==
    IsGraph => \A e \in edges : e[1] \in dnodes \cup {n[1] : n \in cnodes} /\ e[2] \in dnodes

StatusInv ==
    pc # "idle" =>
        /\ \A c \in Clients : status[c] \in had[c]
        /\ \A r \in stas : "online" \in had[r[1]]
        /\ \A r \in hist : "offline" \in had[r[1]]
        /\ \A n \in cnodes : n[2] \in had[n[1]]

\* Read active clients first: whoever has left since is in the history.
SeenInv(c) ==
    pc = "read" /\ Stayed(c) /\ Site[c] = here =>
        /\ step >= ActiveAt => status[c] = "offline" \/ \E r \in stas : r[1] = c
        /\ step > ActiveAt => \E r \in stas \cup hist : r[1] = c

ServedInv(c) ==
    Site[c] \in served /\ Stayed(c) /\ (kind = "client" => c = target) =>
        \E s \in Statuses : <<c, s>> \in cnodes

ClientsInv == pc # "idle" /\ kind \in LookedFor => \A c \in Clients : SeenInv(c) /\ ServedInv(c)

IInv == TypeOK /\ OrderInv /\ SiteInv /\ GraphInv /\ StatusInv /\ ClientsInv

LEMMA InitIInv == Init => IInv
<1> SUFFICES ASSUME Init PROVE IInv
  OBVIOUS
<1>1. TypeOK
  <2>1. kind \in Kinds /\ 0 \in 0..3
    BY KindsAre DEF Init
  <2>2. had \in [Clients -> SUBSET (Statuses \cup {"gone"})]
    BY DEF Init
  <2>. QED
    BY <2>1, <2>2 DEF Init, TypeOK
<1>2. OrderInv
  BY LenOfReads, KindsAre DEF Init, OrderInv
<1>3. SiteInv /\ GraphInv /\ StatusInv /\ ClientsInv
  BY DEF Init, SiteInv, GraphInv, StatusInv, ClientsInv
<1>. QED
  BY <1>1, <1>2, <1>3 DEF IInv

LEMMA BeginPreserves ==
  ASSUME IInv, NEW k \in Kinds, NEW t \in Devices \cup Clients \cup {NoDevice}, Begin(k, t),
         k \in DOMAIN Details => t \in Devices \cup Clients
  PROVE  IInv'
<1> USE DEF IInv
<1>1. TypeOK'
  <2>1. todo' \in SUBSET Controllers
    BY NetworkAssumption DEF Begin
  <2>2. had' \in [Clients -> SUBSET (Statuses \cup {"gone"})]
    BY DEF Begin, TypeOK
  <2>. QED
    BY <2>1, <2>2 DEF TypeOK, Begin, envVars, seenVars, resultVars
<1>2. OrderInv'
  BY LenOfReads DEF OrderInv, Begin
<1>3. SiteInv' /\ GraphInv'
  BY DEF OrderInv, SiteInv, GraphInv, Begin, seenVars, resultVars
<1>4. StatusInv'
  BY DEF TypeOK, OrderInv, StatusInv, Begin, envVars, seenVars, resultVars
<1>5. ClientsInv'
  BY DEF OrderInv, ClientsInv, SeenInv, ServedInv, Begin
<1>. QED
  BY <1>1, <1>2, <1>3, <1>4, <1>5

\* Between the controllers nothing is read.
LEMMA SkipPreserves ==
  ASSUME IInv, NEW u \in Controllers, Skip(u) PROVE IInv'
<1> USE DEF IInv, Skip, envVars, seenVars, resultVars, historyVars
<1>1. TypeOK'
  BY DEF TypeOK
<1>2. OrderInv' /\ SiteInv' /\ GraphInv' /\ StatusInv'
  BY DEF OrderInv, SiteInv, GraphInv, StatusInv, IsList, IsDetail, IsGraph
<1>3. ClientsInv'
  BY DEF ClientsInv, SeenInv, ServedInv, Stayed
<1>. QED
  BY <1>1, <1>2, <1>3

LEMMA VisitPreserves ==
  ASSUME IInv, NEW u \in Controllers, Visit(u) PROVE IInv'
<1> USE DEF IInv, Visit, envVars, resultVars, historyVars
<1>0. step' = 0 /\ 0 \in 0..3 /\ kind \in Kinds /\ kind' = kind
  BY DEF TypeOK
<1>1. TypeOK'
  BY <1>0 DEF TypeOK
<1>2. OrderInv'
  BY <1>0, LenOfReads DEF OrderInv
<1>3. SiteInv' /\ GraphInv' /\ StatusInv'
  BY DEF SiteInv, GraphInv, StatusInv, IsList, IsDetail, IsGraph
<1>4. ClientsInv'
  BY <1>0 DEF ClientsInv, SeenInv, ServedInv, Stayed, ActiveAt
<1>. QED
  BY <1>1, <1>2, <1>3, <1>4

\* One of GetDevices, GetClients, GetOfflineClients.
LEMMA ReadPreserves ==
  ASSUME IInv, Read PROVE IInv'
<1> USE DEF IInv
<1> DEFINE r == Reads[kind][step + 1]
<1>1. /\ kind \in Kinds /\ step \in 0..3 /\ step' = step + 1 /\ ~AllRead /\ pc = "read"
      /\ UNCHANGED <<envVars, pc, kind, target, todo, here, resultVars, historyVars>>
  BY DEF TypeOK, Read
<1>2. /\ devs' = IF r = "devices" THEN Local(adopted) ELSE devs
      /\ stas' = IF r = "active" THEN Seen("online") ELSE stas
      /\ hist' = IF r = "history" THEN Seen("offline") ELSE hist
  BY DEF Read
<1>3. step < Len(Reads[kind]) /\ step' \in 0..3 /\ step' <= Len(Reads[kind])
  <2> DEFINE n == Len(Reads[kind])
  <2>1. n \in 1..3
    BY <1>1, LenOfReads
  <2>2. step # n /\ step <= n
    BY <1>1 DEF OrderInv, AllRead
  <2> HIDE DEF n
  <2>3. step < n /\ step' \in 0..3 /\ step' <= n
    BY <1>1, <2>1, <2>2
  <2>. QED
    BY <2>3 DEF n
<1>4. TypeOK'
  <2>1. Local(adopted) \in SUBSET Devices
    BY DEF Local, TypeOK
  <2>2. devs' \in SUBSET Devices /\ stas' \in SUBSET (Clients \X Devices)
        /\ hist' \in SUBSET (Clients \X Devices)
    BY <1>2, <2>1, SeenIs DEF TypeOK
  <2>. QED
    BY <1>1, <1>3, <2>2 DEF TypeOK, envVars, resultVars, historyVars
<1>5. OrderInv'
  BY <1>1, <1>3 DEF OrderInv
<1>6. SiteInv'
  BY <1>1, <1>2, SeenIs DEF SiteInv, IsList, IsDetail, resultVars, historyVars
<1>7. GraphInv'
  BY <1>1 DEF GraphInv, IsGraph, resultVars
<1>8. StatusInv'
  BY <1>1, <1>2, SeenIs DEF StatusInv, envVars, resultVars, historyVars
<1>9. ClientsInv'
  <2> SUFFICES ASSUME kind \in LookedFor, NEW c \in Clients
               PROVE  SeenInv(c)' /\ ServedInv(c)'
    BY <1>1 DEF ClientsInv
  <2>0. SeenInv(c) /\ ServedInv(c) /\ ActiveAt \in 1..2 /\ ActiveAt' = ActiveAt
    BY <1>1 DEF ClientsInv, ActiveAt
  <2>1. ServedInv(c)'
    BY <1>1, <2>0 DEF ServedInv, Stayed, resultVars, historyVars
  <2>2. SeenInv(c)'
    <3> SUFFICES ASSUME Stayed(c), Site[c] = here
                 PROVE  /\ step' >= ActiveAt => status[c] = "offline" \/ \E q \in stas' : q[1] = c
                        /\ step' > ActiveAt => \E q \in stas' \cup hist' : q[1] = c
      BY <1>1, <2>0 DEF SeenInv, Stayed, envVars, historyVars
    <3>1. status[c] \in {"online", "offline"}
      BY <1>1 DEF StatusInv, TypeOK, Stayed, Statuses
    <3>2. CASE step' < ActiveAt
      BY <1>1, <2>0, <3>2
    <3>3. CASE step' = ActiveAt
      <4>1. r = "active"
        BY <1>1, <2>0, <3>3, ReadsAre DEF LookedFor, ActiveAt
      <4>. QED
        BY <1>1, <1>2, <2>0, <3>1, <3>3, <4>1, SeenIs
    <3>4. CASE step' > ActiveAt
      <4>1. r = "history"
        BY <1>1, <1>3, <2>0, <3>4, ReadsAre, LenOfReads DEF LookedFor, ActiveAt
      <4>2. status[c] = "offline" \/ \E q \in stas : q[1] = c
        BY <1>1, <2>0, <3>4 DEF SeenInv
      <4>3. stas' = stas /\ hist' = Seen("offline")
        BY <1>2, <4>1
      <4>. QED
        BY <3>4, <4>2, <4>3, SeenIs
    <3>. QED
      BY <1>1, <2>0, <3>2, <3>3, <3>4
  <2>. QED
    BY <2>1, <2>2
<1>. QED
  BY <1>4, <1>5, <1>6, <1>7, <1>8, <1>9

LEMMA ReadFailsPreserves ==
  ASSUME IInv, ReadFails PROVE IInv'
<1> USE DEF IInv
<1>1. /\ pc = "read" /\ failed' = failed \cup {here}
      /\ \/ IsList /\ pc' = "next" /\ answer' = answer
         \/ ~IsList /\ pc' = "done" /\ answer' = "error"
      /\ UNCHANGED <<envVars, kind, target, todo, here, step, seenVars, dnodes, cnodes, edges,
                     served, had, joined>>
  BY DEF ReadFails, SkipsErrors
<1>2. TypeOK'
  BY <1>1 DEF TypeOK, envVars, seenVars
<1>3. OrderInv' /\ SiteInv' /\ GraphInv'
  BY <1>1 DEF OrderInv, SiteInv, GraphInv, IsList, IsDetail, IsGraph, seenVars
<1>4. StatusInv'
  BY <1>1 DEF StatusInv, envVars, seenVars
<1>5. ClientsInv'
  BY <1>1 DEF ClientsInv, SeenInv, ServedInv, Stayed
<1>. QED
  BY <1>2, <1>3, <1>4, <1>5

\* All reads are done: every client that stayed is in one of the two, and what
\* the answer lists of it is a status it had.
LEMMA AllReadSeen ==
  ASSUME IInv, pc = "read", AllRead, kind \in LookedFor,
         NEW c \in Clients, Stayed(c), Site[c] = here, kind = "client" => c = target
  PROVE  \E s \in Statuses : <<c, s>> \in Listed
<1>1. \E r \in stas \cup hist : r[1] = c
  <2>1. CASE Found
    BY <2>1 DEF Found
  <2>2. CASE ~Found
    <3>1. step = Len(Reads[kind]) /\ kind \in Kinds
      BY <2>2 DEF AllRead, IInv, TypeOK
    <3>2. step > ActiveAt
      <4>1. CASE kind = "clients"
        <5>1. Len(Reads[kind]) = 2 /\ ActiveAt = 1
          BY <3>1, <4>1, LenOfReads DEF ActiveAt
        <5>. QED
          BY <3>1, <5>1
      <4>2. CASE kind \in {"client", "topology"}
        <5>1. Len(Reads[kind]) = 3 /\ ActiveAt = 2
          BY <3>1, <4>2, LenOfReads DEF ActiveAt
        <5>. QED
          BY <3>1, <5>1
      <4>. QED
        BY <4>1, <4>2 DEF LookedFor
    <3>. QED
      BY <3>2 DEF IInv, ClientsInv, SeenInv
  <2>. QED
    BY <2>1, <2>2
<1>. QED
  BY <1>1, ListedIs DEF IInv, Statuses

LEMMA ListedHad ==
  ASSUME IInv, pc = "read", NEW n \in Listed
  PROVE  n[2] \in had[n[1]] /\ Site[n[1]] = here
  BY ListedIs DEF IInv, StatusInv, SiteInv

LEMMA CollectPreserves ==
  ASSUME IInv, Collect PROVE IInv'
<1> USE DEF IInv
<1>1. /\ pc = "read" /\ AllRead /\ ~IsDetail /\ pc' = "next"
      /\ dnodes' = dnodes \cup devs /\ cnodes' = cnodes \cup Listed /\ served' = served \cup {here}
      /\ edges' = IF IsGraph THEN edges \cup DeviceEdges \cup ClientEdges ELSE edges
      /\ UNCHANGED <<envVars, kind, target, todo, here, step, seenVars, answer, failed, had, joined>>
  BY DEF Collect
<1>2. TypeOK'
  <2>1. edges' \in SUBSET ((Devices \cup Clients) \X Devices)
    BY <1>1, EdgesAre DEF TypeOK
  <2>2. dnodes' \in SUBSET Devices /\ cnodes' \in SUBSET (Clients \X Statuses)
        /\ served' \in SUBSET Controllers
    BY <1>1, ListedIs DEF TypeOK
  <2>. QED
    BY <1>1, <2>1, <2>2 DEF TypeOK, envVars, seenVars
<1>3. OrderInv'
  BY <1>1 DEF OrderInv, seenVars
<1>4. SiteInv'
  BY <1>1, ListedHad DEF SiteInv, IsList, IsDetail, seenVars
<1>5. GraphInv'
  <2> SUFFICES ASSUME IsGraph, NEW e \in edges'
               PROVE  e[1] \in dnodes' \cup {n[1] : n \in cnodes'} /\ e[2] \in dnodes'
    BY <1>1 DEF GraphInv, IsGraph
  <2>1. CASE e \in edges
    BY <1>1, <2>1 DEF GraphInv
  <2>2. CASE e \in DeviceEdges
    BY <1>1, <2>2, EdgesAre
  <2>3. CASE e \in ClientEdges
    <3>1. e[2] \in devs
      BY <2>3, EdgesAre
    <3>2. PICK r \in stas \cup hist : e[1] = r[1]
      BY <2>3, EdgesAre
    <3>3. PICK s \in Statuses : <<e[1], s>> \in Listed
      BY <3>2, ListedIs DEF Statuses
    <3>4. <<e[1], s>> \in cnodes' /\ <<e[1], s>>[1] = e[1]
      BY <1>1, <3>3
    <3>. QED
      BY <1>1, <3>1, <3>4
  <2>. QED
    BY <1>1, <2>1, <2>2, <2>3
<1>6. StatusInv'
  BY <1>1, ListedHad DEF StatusInv, envVars, seenVars
<1>7. ClientsInv'
  <2> SUFFICES ASSUME kind \in LookedFor, NEW c \in Clients PROVE SeenInv(c)' /\ ServedInv(c)'
    BY <1>1 DEF ClientsInv
  <2>1. SeenInv(c)'
    BY <1>1 DEF SeenInv
  <2>2. CASE Site[c] \in served
    BY <1>1, <2>1, <2>2 DEF ClientsInv, ServedInv, Stayed
  <2>3. CASE Site[c] = here /\ Stayed(c) /\ (kind = "client" => c = target)
    BY <1>1, <2>1, <2>3, AllReadSeen DEF ServedInv
  <2>. QED
    BY <1>1, <2>1, <2>2, <2>3 DEF ServedInv, Stayed
<1>. QED
  BY <1>2, <1>3, <1>4, <1>5, <1>6, <1>7

LEMMA ClientDetailPreserves ==
  ASSUME IInv, ClientDetail PROVE IInv'
<1> USE DEF IInv
<1>1. /\ pc = "read" /\ AllRead /\ kind = "client" /\ pc' = "done"
      /\ cnodes' = {n \in Listed : n[1] = target} /\ edges' = {e \in ClientEdges : e[1] = target}
      /\ answer' \in {"ok", "notFound"} /\ served' = {here}
      /\ UNCHANGED <<envVars, kind, target, todo, here, step, seenVars, dnodes, failed, had, joined>>
  BY DEF ClientDetail
<1>2. ~IsGraph /\ ~IsList
  BY <1>1, KindsAre DEF IsGraph, IsList
<1>3. TypeOK'
  <2>1. cnodes' \in SUBSET (Clients \X Statuses) /\ edges' \in SUBSET ((Devices \cup Clients) \X Devices)
    BY <1>1, ListedIs, EdgesAre
  <2>. QED
    BY <1>1, <2>1 DEF TypeOK, envVars, seenVars
<1>4. OrderInv'
  BY <1>1 DEF OrderInv
<1>5. SiteInv'
  BY <1>1, <1>2, ListedHad DEF SiteInv, seenVars
<1>6. GraphInv'
  BY <1>1, <1>2 DEF GraphInv, IsGraph
<1>7. StatusInv'
  BY <1>1, ListedHad DEF StatusInv, envVars, seenVars
<1>8. ClientsInv'
  <2> SUFFICES ASSUME NEW c \in Clients PROVE SeenInv(c)' /\ ServedInv(c)'
    BY DEF ClientsInv
  <2>1. SeenInv(c)'
    BY <1>1 DEF SeenInv
  <2>2. ServedInv(c)'
    <3> SUFFICES ASSUME Site[c] = here, Stayed(c), c = target
                 PROVE  \E s \in Statuses : <<c, s>> \in cnodes'
      BY <1>1 DEF ServedInv, Stayed
    <3>1. PICK s \in Statuses : <<c, s>> \in Listed
      BY <1>1, AllReadSeen DEF LookedFor
    <3>2. <<c, s>>[1] = target
      OBVIOUS
    <3>. QED
      BY <1>1, <3>1, <3>2
  <2>. QED
    BY <2>1, <2>2
<1>. QED
  BY <1>3, <1>4, <1>5, <1>6, <1>7, <1>8

LEMMA DeviceDetailPreserves ==
  ASSUME IInv, DeviceDetail PROVE IInv'
<1> USE DEF IInv
<1>1. /\ pc = "read" /\ kind = "device" /\ pc' = "done"
      /\ edges' \in SUBSET (edges \cup DeviceEdges \cup ClientEdges)
      /\ answer' \in {"ok", "notFound"} /\ served' = {here}
      /\ UNCHANGED <<envVars, kind, target, todo, here, step, seenVars, dnodes, cnodes, failed, had, joined>>
  BY DEF DeviceDetail
<1>2. ~IsGraph /\ ~IsList /\ kind \notin LookedFor
  BY <1>1, KindsAre DEF IsGraph, IsList, LookedFor
<1>3. TypeOK'
  <2>1. edges' \in SUBSET ((Devices \cup Clients) \X Devices)
    BY <1>1, EdgesAre DEF TypeOK
  <2>. QED
    BY <1>1, <2>1 DEF TypeOK, envVars, seenVars
<1>4. OrderInv' /\ StatusInv' /\ ClientsInv'
  BY <1>1, <1>2 DEF OrderInv, StatusInv, ClientsInv, envVars, seenVars
<1>5. SiteInv' /\ GraphInv'
  BY <1>1, <1>2, KindsAre DEF SiteInv, GraphInv, IsGraph, IsDetail, seenVars
<1>. QED
  BY <1>3, <1>4, <1>5

LEMMA FinishPreserves ==
  ASSUME IInv, Finish PROVE IInv'
<1> USE DEF IInv, Finish, envVars, seenVars, historyVars
<1>1. TypeOK'
  BY DEF TypeOK
<1>2. OrderInv' /\ SiteInv' /\ GraphInv' /\ StatusInv'
  BY DEF OrderInv, SiteInv, GraphInv, StatusInv, IsList, IsDetail, IsGraph
<1>3. ClientsInv'
  BY DEF ClientsInv, SeenInv, ServedInv, Stayed
<1>. QED
  BY <1>1, <1>2, <1>3

LEMMA ReplyPreserves ==
  ASSUME IInv, Reply PROVE IInv'
<1> USE DEF IInv, Reply
<1>1. TypeOK'
  <2>1. "clients" \in Kinds /\ 0 \in 0..3
    BY KindsAre
  <2>2. had' \in [Clients -> SUBSET (Statuses \cup {"gone"})]
    OBVIOUS
  <2>. QED
    BY <2>1, <2>2 DEF TypeOK, envVars
<1>2. OrderInv'
  BY LenOfReads, KindsAre DEF OrderInv
<1>3. SiteInv' /\ GraphInv' /\ StatusInv' /\ ClientsInv'
  BY DEF SiteInv, GraphInv, StatusInv, ClientsInv
<1>. QED
  BY <1>1, <1>2, <1>3

-----------------------------------------------------------------------------
(* The sites change; the request remembers the statuses. *)

LEMMA ConnectPreserves ==
  ASSUME IInv, NEW c \in Clients, NEW d \in Devices, Connect(c, d) PROVE IInv'
<1> USE DEF IInv
<1>1. /\ status' = [status EXCEPT ![c] = "online"] /\ at' = [at EXCEPT ![c] = d]
      /\ had' = IF pc = "idle" THEN had ELSE [had EXCEPT ![c] = @ \cup {"online"}]
      /\ joined' = IF pc = "idle" THEN joined ELSE joined \cup {c}
      /\ UNCHANGED <<adopted, pc, kind, target, todo, here, step, seenVars, resultVars, served, failed>>
  BY DEF Connect, Becomes
<1>2. \A x \in Clients : had[x] \in SUBSET had'[x]
  BY <1>1 DEF TypeOK
<1>3. TypeOK'
  <2>1. /\ status' \in [Clients -> Statuses \cup {"gone"}] /\ at' \in [Clients -> Devices]
        /\ had' \in [Clients -> SUBSET (Statuses \cup {"gone"})] /\ joined' \in SUBSET Clients
    BY <1>1 DEF TypeOK, Statuses
  <2>. QED
    BY <1>1, <2>1 DEF TypeOK, seenVars, resultVars
<1>4. OrderInv' /\ SiteInv' /\ GraphInv'
  BY <1>1 DEF OrderInv, SiteInv, GraphInv, IsList, IsDetail, IsGraph, seenVars, resultVars
<1>5. StatusInv'
  <2>1. pc # "idle" => \A x \in Clients : status'[x] \in had'[x]
    BY <1>1, <1>2 DEF StatusInv, TypeOK
  <2>. QED
    BY <1>1, <1>2, <2>1 DEF StatusInv, TypeOK, seenVars, resultVars
<1>6. ClientsInv'
  <2> SUFFICES ASSUME pc # "idle", kind \in LookedFor, NEW x \in Clients, Stayed(x)'
               PROVE  SeenInv(x)' /\ ServedInv(x)'
    BY <1>1 DEF ClientsInv, SeenInv, ServedInv
  <2>1. x # c
    BY <1>1 DEF Stayed
  <2>2. Stayed(x) /\ status'[x] = status[x]
    BY <1>1, <1>2, <2>1 DEF Stayed, TypeOK
  <2>. QED
    BY <1>1, <2>2 DEF ClientsInv, SeenInv, ServedInv, ActiveAt, seenVars, resultVars
<1>. QED
  BY <1>3, <1>4, <1>5, <1>6

LEMMA LeavePreserves ==
  ASSUME IInv, NEW c \in Clients, Leave(c) PROVE IInv'
<1> USE DEF IInv
<1>1. PICK s \in {"offline", "gone"} :
        /\ status' = [status EXCEPT ![c] = s]
        /\ had' = IF pc = "idle" THEN had ELSE [had EXCEPT ![c] = @ \cup {s}]
        /\ UNCHANGED <<adopted, at, pc, kind, target, todo, here, step, seenVars, resultVars,
                       served, failed, joined>>
  BY DEF Leave, Becomes
<1>2. \A x \in Clients : had[x] \in SUBSET had'[x]
  BY <1>1 DEF TypeOK
<1>3. TypeOK'
  <2>1. /\ status' \in [Clients -> Statuses \cup {"gone"}]
        /\ had' \in [Clients -> SUBSET (Statuses \cup {"gone"})]
    BY <1>1 DEF TypeOK, Statuses
  <2>. QED
    BY <1>1, <2>1 DEF TypeOK, seenVars, resultVars
<1>4. OrderInv' /\ SiteInv' /\ GraphInv'
  BY <1>1 DEF OrderInv, SiteInv, GraphInv, IsList, IsDetail, IsGraph, seenVars, resultVars
<1>5. StatusInv'
  <2>1. pc # "idle" => \A x \in Clients : status'[x] \in had'[x]
    BY <1>1, <1>2 DEF StatusInv, TypeOK
  <2>. QED
    BY <1>1, <1>2, <2>1 DEF StatusInv, TypeOK, seenVars, resultVars
<1>6. ClientsInv'
  <2> SUFFICES ASSUME pc # "idle", kind \in LookedFor, NEW x \in Clients, Stayed(x)'
               PROVE  SeenInv(x)' /\ ServedInv(x)'
    BY <1>1 DEF ClientsInv, SeenInv, ServedInv
  <2>1. Stayed(x)
    BY <1>1, <1>2 DEF Stayed
  <2>2. status'[x] \in {status[x], "offline"}
    BY <1>1 DEF Stayed, TypeOK
  <2>. QED
    BY <1>1, <2>1, <2>2 DEF ClientsInv, SeenInv, ServedInv, ActiveAt, seenVars, resultVars
<1>. QED
  BY <1>3, <1>4, <1>5, <1>6

\* Where a client is, and which devices there are, is in none of the invariants.
LEMMA MovePreserves ==
  ASSUME IInv, (\E c \in Clients, d \in Devices : Roam(c, d)) \/ \E d \in Devices : Adopt(d)
  PROVE  IInv'
<1> USE DEF IInv
<1>1. /\ UNCHANGED <<status, pc, kind, target, todo, here, step, seenVars, resultVars, historyVars>>
      /\ at' \in [Clients -> Devices] /\ adopted' \in SUBSET Devices
  BY DEF Roam, Adopt, TypeOK
<1>2. TypeOK'
  BY <1>1 DEF TypeOK, seenVars, resultVars, historyVars
<1>3. OrderInv' /\ SiteInv' /\ GraphInv' /\ StatusInv'
  BY <1>1 DEF OrderInv, SiteInv, GraphInv, StatusInv, IsList, IsDetail, IsGraph, seenVars,
     resultVars, historyVars
<1>4. ClientsInv'
  BY <1>1 DEF ClientsInv, SeenInv, ServedInv, Stayed, ActiveAt, seenVars, resultVars, historyVars
<1>. QED
  BY <1>2, <1>3, <1>4

LEMMA StepIInv == IInv /\ [Next]_vars => IInv'
<1> SUFFICES ASSUME IInv, [Next]_vars PROVE IInv'
  OBVIOUS
<1>1. CASE Request
  BY <1>1, BeginPreserves, KindsAre DEF Request
<1>2. CASE \E u \in Controllers : Skip(u) \/ Visit(u)
  BY <1>2, SkipPreserves, VisitPreserves
<1>3. CASE Read \/ ReadFails \/ Collect \/ ClientDetail \/ DeviceDetail \/ Finish \/ Reply
  BY <1>3, ReadPreserves, ReadFailsPreserves, CollectPreserves, ClientDetailPreserves,
     DeviceDetailPreserves, FinishPreserves, ReplyPreserves
<1>4. CASE \E c \in Clients : Leave(c) \/ \E d \in Devices : Connect(c, d) \/ Roam(c, d)
  BY <1>4, LeavePreserves, ConnectPreserves, MovePreserves
<1>5. CASE \E d \in Devices : Adopt(d)
  BY <1>5, MovePreserves
<1>6. CASE UNCHANGED vars
  <2>1. TypeOK' /\ OrderInv' /\ SiteInv' /\ GraphInv' /\ StatusInv'
    BY <1>6 DEF IInv, TypeOK, OrderInv, SiteInv, GraphInv, StatusInv, IsList, IsDetail, IsGraph,
       vars, envVars, seenVars, resultVars, historyVars
  <2>2. ClientsInv'
    BY <1>6 DEF IInv, ClientsInv, SeenInv, ServedInv, Stayed, ActiveAt, vars, envVars, seenVars,
       resultVars, historyVars
  <2>. QED
    BY <2>1, <2>2 DEF IInv
<1>. QED
  BY <1>1, <1>2, <1>3, <1>4, <1>5, <1>6 DEF Next

-----------------------------------------------------------------------------
(* The theorems. *)

\* What each client has been since the request began, and what was read of it.
THEOREM Inductive == Spec => []IInv
  BY InitIInv, StepIInv, PTL DEF Spec

\* Every variable keeps its type, for any sites.
THEOREM TypeCorrect == Spec => []TypeOK
<1>1. IInv => TypeOK
  BY DEF IInv
<1>. QED
  BY <1>1, Inductive, PTL

\* GetTopology answers with a closed graph, whatever is adopted or removed
\* between its reads.
THEOREM GraphClosed == Spec => []EdgesInGraph
<1>1. IInv => EdgesInGraph
  BY DEF IInv, GraphInv, EdgesInGraph
<1>. QED
  BY <1>1, Inductive, PTL

\* ListClients, GetClient and GetTopology lose no client, because they read the
\* active ones first.
THEOREM NobodyLost == Spec => []KnownClientsListed
<1>1. IInv => KnownClientsListed
  BY DEF IInv, ClientsInv, ServedInv, Stayed, LookedFor, KnownClientsListed
<1>. QED
  BY <1>1, Inductive, PTL

\* No answer shows a client with a status it did not have meanwhile.
THEOREM NothingInvented == Spec => []StatusWasReal
<1>1. IInv => StatusWasReal
  BY DEF IInv, StatusInv, StatusWasReal
<1>. QED
  BY <1>1, Inductive, PTL

\* A controller that fails half-way leaves nothing behind, and fails the topology.
THEOREM NothingPartial == Spec => []NoPartialAnswer
<1>1. IInv => NoPartialAnswer
  BY DEF IInv, SiteInv, NoPartialAnswer
<1>. QED
  BY <1>1, Inductive, PTL

-----------------------------------------------------------------------------
(* What is left of HistoryIsOfflineOnly, the claim that does not hold. *)

\* Whoever was read from the history is not online, unless it came back since.
HistoryInv ==
    pc # "idle" =>
        \A c \in Clients \ joined :
            (<<c, "offline">> \in cnodes \/ \E r \in hist : r[1] = c) => status[c] # "online"

\* A client that is shown twice went offline while the request ran, and its second
\* entry is the true one: it is not online any more, unless it came back as well.
DoubledHasLeft ==
    pc = "done" =>
        \A c \in Clients :
            {<<c, "online">>, <<c, "offline">>} \subseteq cnodes =>
                {"online", "offline"} \subseteq had[c] /\ (c \in joined \/ status[c] # "online")

LEMMA CollectHistory ==
  ASSUME IInv, HistoryInv, Collect \/ ClientDetail PROVE HistoryInv'
<1> USE DEF IInv
<1> SUFFICES ASSUME NEW c \in Clients \ joined,
                    <<c, "offline">> \in cnodes' \/ \E r \in hist : r[1] = c
             PROVE  status[c] # "online"
  BY DEF HistoryInv, Collect, ClientDetail, envVars, seenVars
<1>1. pc = "read"
  BY DEF Collect, ClientDetail
<1>2. <<c, "offline">> \in Listed => \E r \in hist : r[1] = c
  BY ListedIs
<1>3. cnodes' \subseteq cnodes \cup Listed
  BY DEF Collect, ClientDetail
<1>. QED
  BY <1>1, <1>2, <1>3 DEF HistoryInv

LEMMA ReadHistory ==
  ASSUME IInv, HistoryInv, Read PROVE HistoryInv'
<1> USE DEF IInv
<1>1. /\ pc = "read" /\ hist' \in {hist, Seen("offline")}
      /\ UNCHANGED <<status, pc, cnodes, joined>>
  BY DEF Read, envVars, resultVars, historyVars
<1>2. \A r \in Seen("offline") : status[r[1]] # "online"
  BY SeenIs
<1>. QED
  BY <1>1, <1>2 DEF HistoryInv

LEMMA StepHistoryInv ==
  ASSUME IInv, HistoryInv, [Next]_vars PROVE HistoryInv'
<1> USE DEF IInv
<1>1. CASE Request
  BY <1>1 DEF Request, Begin, HistoryInv, OrderInv, seenVars, resultVars, envVars
<1>2. CASE \E u \in Controllers : Skip(u) \/ Visit(u)
  BY <1>2 DEF Skip, Visit, HistoryInv, envVars, seenVars, resultVars, historyVars
<1>3. CASE ReadFails \/ DeviceDetail \/ Finish \/ Reply
  BY <1>3 DEF ReadFails, DeviceDetail, Finish, Reply, HistoryInv, envVars, seenVars, historyVars
<1>4. CASE Read \/ Collect \/ ClientDetail
  BY <1>4, ReadHistory, CollectHistory
<1>5. ASSUME NEW c \in Clients, NEW d \in Devices, Connect(c, d) PROVE HistoryInv'
  <2>1. /\ status' = [status EXCEPT ![c] = "online"] /\ UNCHANGED <<pc, cnodes, hist>>
        /\ pc # "idle" => joined' = joined \cup {c}
    BY <1>5 DEF Connect, Becomes, seenVars, resultVars
  <2>. QED
    BY <2>1 DEF HistoryInv, TypeOK
<1>6. ASSUME NEW c \in Clients, Leave(c) PROVE HistoryInv'
  <2>1. /\ \E s \in {"offline", "gone"} : status' = [status EXCEPT ![c] = s]
        /\ UNCHANGED <<pc, cnodes, hist, joined>>
    BY <1>6 DEF Leave, Becomes, seenVars, resultVars
  <2>. QED
    BY <2>1 DEF HistoryInv, TypeOK
<1>7. CASE (\E c \in Clients, d \in Devices : Roam(c, d)) \/ (\E d \in Devices : Adopt(d))
           \/ UNCHANGED vars
  BY <1>7 DEF Roam, Adopt, HistoryInv, vars, envVars, seenVars, resultVars, historyVars
<1>. QED
  BY <1>1, <1>2, <1>3, <1>4, <1>5, <1>6, <1>7 DEF Next

\* The client lists and the topology show nobody twice who stayed where he was, and
\* of whoever left they show his end as well.
THEOREM TwiceMeansLeft == Spec => []DoubledHasLeft
<1>1. Init => HistoryInv
  BY DEF Init, HistoryInv
<1>2. IInv /\ HistoryInv => DoubledHasLeft
  BY DEF IInv, StatusInv, HistoryInv, DoubledHasLeft
<1>. QED
  BY <1>1, <1>2, StepHistoryInv, Inductive, PTL DEF Spec
=============================================================================
