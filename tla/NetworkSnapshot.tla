-------------------------- MODULE NetworkSnapshot --------------------------
(***************************************************************************)
(* The answers of the network service about devices and clients            *)
(* (internal/network/clients_service.go, topology_service.go,              *)
(* devices_service.go).  One request reads its controllers one after the   *)
(* other, and each of them in up to three separate reads, while devices    *)
(* are adopted and removed and clients come, roam and go.                  *)
(*                                                                         *)
(* Requests share nothing, so there is one.  A device or client stands for *)
(* its ID (and MAC); the registry order of the controllers is left open.   *)
(***************************************************************************)
EXTENDS Integers, Sequences

CONSTANTS
    Controllers,  \* UniFi backends
    Devices,      \* managed devices, and NoDevice the zero value of one
    NoDevice,
    Clients,
    Site,         \* the controller of a device or client
    Uplink        \* the device a device's uplink leads to, NoDevice for a gateway

ASSUME NetworkAssumption ==
    /\ NoDevice \notin Devices
    /\ Site \in [Devices \cup Clients -> Controllers]
    /\ Uplink \in [Devices -> Devices \cup {NoDevice}]

VARIABLES
    adopted,      \* devices the controllers manage
    status,       \* of each client: online, offline (in the history) or gone
    at,           \* the device it is, or was last, connected to
    pc, kind,     \* the request, idle when there is none
    target,       \* the client or device a detail was asked for
    todo, here,   \* controllers yet to come, and the current one
    step,         \* how many of its reads are done
    devs, stas, hist,    \* what the current controller answered
    dnodes, cnodes,      \* the answer: devices, clients with their status
    edges,               \* the answer: connections
    answer,
    served, failed,      \* history: controllers read to the end; those that failed
    had, joined          \* history, since it began: statuses; clients that came online

envVars == <<adopted, status, at>>
seenVars == <<devs, stas, hist>>
resultVars == <<dnodes, cnodes, edges, answer>>
historyVars == <<served, failed, had, joined>>
vars == <<envVars, pc, kind, target, todo, here, step, seenVars, resultVars, historyVars>>

Statuses == {"online", "offline"}

\* Which reads a request makes of each controller, and in which order.
HistoryFirst ==      \* broken
    [clients |-> <<"history", "active">>, online |-> <<"active">>, offline |-> <<"history">>,
     devices |-> <<"devices">>]
Lists ==
    [clients |-> <<"active", "history">>, online |-> <<"active">>, offline |-> <<"history">>,
     devices |-> <<"devices">>]
Details ==
    [client |-> <<"devices", "active", "history">>, device |-> <<"devices", "active", "conf">>]
Graphs == [topology |-> <<"devices", "active", "history">>, backbone |-> <<"devices">>]

Kinds == DOMAIN Lists \cup DOMAIN Details \cup DOMAIN Graphs
Reads ==
    [k \in Kinds |-> CASE k \in DOMAIN Lists -> Lists[k]
                      [] k \in DOMAIN Details -> Details[k]
                      [] k \in DOMAIN Graphs -> Graphs[k]]
IsList == kind \in DOMAIN Lists
IsDetail == kind \in DOMAIN Details
IsGraph == kind \in DOMAIN Graphs

TypeOK ==
    /\ adopted \in SUBSET Devices
    /\ status \in [Clients -> Statuses \cup {"gone"}] /\ at \in [Clients -> Devices]
    /\ pc \in {"idle", "next", "read", "done"} /\ kind \in Kinds
    /\ target \in Devices \cup Clients \cup {NoDevice}
    /\ todo \in SUBSET Controllers /\ here \in Controllers /\ step \in 0..3
    /\ devs \in SUBSET Devices /\ stas \in SUBSET (Clients \X Devices)
    /\ hist \in SUBSET (Clients \X Devices)
    /\ dnodes \in SUBSET Devices /\ cnodes \in SUBSET (Clients \X Statuses)
    /\ edges \in SUBSET ((Devices \cup Clients) \X Devices)
    /\ answer \in {"none", "ok", "error", "notFound"}
    /\ served \in SUBSET Controllers /\ failed \in SUBSET Controllers
    /\ had \in [Clients -> SUBSET (Statuses \cup {"gone"})] /\ joined \in SUBSET Clients

Init ==
    /\ adopted \in SUBSET Devices
    /\ status \in [Clients -> Statuses \cup {"gone"}]
    /\ at \in {f \in [Clients -> Devices] : \A c \in Clients : Site[f[c]] = Site[c]}
    /\ pc = "idle" /\ kind = "clients" /\ target = NoDevice
    /\ todo = {} /\ here \in Controllers /\ step = 0
    /\ devs = {} /\ stas = {} /\ hist = {}
    /\ dnodes = {} /\ cnodes = {} /\ edges = {} /\ answer = "none"
    /\ served = {} /\ failed = {} /\ joined = {} /\ had = [c \in Clients |-> {}]

-----------------------------------------------------------------------------
(* The request. *)

\* The handler: a list or the topology visits every controller, a detail the
\* one its ID names.
Begin(k, t) ==
    /\ pc = "idle" /\ pc' = "next"
    /\ kind' = k /\ target' = t
    /\ todo' = IF k \in DOMAIN Details THEN {Site[t]} ELSE Controllers
    /\ had' = [c \in Clients |-> {status[c]}]
    /\ UNCHANGED <<envVars, here, step, seenVars, resultVars, served, failed, joined>>

\* The monitor reports a controller offline: it is passed over.
Skip(u) ==
    /\ pc = "next" /\ u \in todo /\ ~IsDetail
    /\ todo' = todo \ {u}
    /\ UNCHANGED <<envVars, pc, kind, target, here, step, seenVars, resultVars, historyVars>>

Visit(u) ==
    /\ pc = "next" /\ u \in todo /\ pc' = "read"
    /\ todo' = todo \ {u} /\ here' = u /\ step' = 0
    /\ devs' = {} /\ stas' = {} /\ hist' = {}
    /\ UNCHANGED <<envVars, kind, target, resultVars, historyVars>>

Local(S) == {x \in S : Site[x] = here}
Seen(s) == {<<c, at[c]>> : c \in {x \in Local(Clients) : status[x] = s}}

\* GetClient looks into the history only if the client is not active.
Found == kind = "client" /\ \E r \in stas \cup hist : r[1] = target
AllRead == step = Len(Reads[kind]) \/ Found

\* GetDevices, GetClients (or GetActiveClients), GetOfflineClients, GetNetworkConf.
Read ==
    /\ pc = "read" /\ ~AllRead
    /\ step' = step + 1
    /\ LET r == Reads[kind][step + 1] IN
         /\ devs' = IF r = "devices" THEN Local(adopted) ELSE devs
         /\ stas' = IF r = "active" THEN Seen("online") ELSE stas
         /\ hist' = IF r = "history" THEN Seen("offline") ELSE hist
    /\ UNCHANGED <<envVars, pc, kind, target, todo, here, resultVars, historyVars>>

SkipAll == TRUE                 \* broken: the topology skips a failing controller as well
SkipsErrors == IsList

\* A read fails: a list goes on without the controller, the others fail.
ReadFails ==
    /\ pc = "read" /\ ~AllRead
    /\ failed' = failed \cup {here}
    /\ IF SkipsErrors THEN pc' = "next" /\ UNCHANGED answer
                      ELSE pc' = "done" /\ answer' = "error"
    /\ UNCHANGED <<envVars, kind, target, todo, here, step, seenVars, dnodes, cnodes, edges,
                   served, had, joined>>

\* macToDevice[mac], with the check that it is there.
UpstreamUnchecked(d) == {IF d \in devs THEN d ELSE NoDevice}      \* broken
UpstreamLive(d) == {d} \cap adopted                               \* broken: another read
Upstream(d) == {d} \cap devs

DeviceEdges == UNION {{d} \X Upstream(Uplink[d]) : d \in devs}
ClientEdges == UNION {{r[1]} \X Upstream(r[2]) : r \in stas \cup hist}

Online == {<<r[1], "online">> : r \in stas}
AllOnline == {<<r[1], "online">> : r \in stas \cup hist}     \* broken: one mapper for both reads
Listed == Online \cup {<<r[1], "offline">> : r \in hist}

\* A list or the topology: the controller's items are appended.
Collect ==
    /\ pc = "read" /\ AllRead /\ ~IsDetail /\ pc' = "next"
    /\ dnodes' = dnodes \cup devs
    /\ cnodes' = cnodes \cup Listed
    /\ edges' = IF IsGraph THEN edges \cup DeviceEdges \cup ClientEdges ELSE edges
    /\ served' = served \cup {here}
    /\ UNCHANGED <<envVars, kind, target, todo, here, step, seenVars, answer, failed, had, joined>>

\* GetClient: the client and the device it is connected to (the code answers with an
\* empty reference for a device it has not read, which is no edge here).
ClientDetail ==
    /\ pc = "read" /\ AllRead /\ kind = "client" /\ pc' = "done"
    /\ cnodes' = {n \in Listed : n[1] = target}
    /\ edges' = {e \in ClientEdges : e[1] = target}
    /\ answer' = IF Found THEN "ok" ELSE "notFound"
    /\ served' = {here}
    /\ UNCHANGED <<envVars, kind, target, todo, here, step, seenVars, dnodes, failed, had, joined>>

\* GetDevice: the device, its uplink, and the clients connected to it.
DeviceDetail ==
    /\ pc = "read" /\ AllRead /\ kind = "device" /\ pc' = "done"
    /\ IF target \in devs
         THEN /\ answer' = "ok"
              /\ edges' = {e \in DeviceEdges \cup ClientEdges : target \in {e[1], e[2]}}
         ELSE answer' = "notFound" /\ UNCHANGED edges
    /\ served' = {here}
    /\ UNCHANGED <<envVars, kind, target, todo, here, step, seenVars, dnodes, cnodes, failed,
                   had, joined>>

\* The last controller of a list or the topology.
Finish ==
    /\ pc = "next" /\ todo = {} /\ pc' = "done"
    /\ answer' = "ok"
    /\ UNCHANGED <<envVars, kind, target, todo, here, step, seenVars, dnodes, cnodes, edges,
                   historyVars>>

Reply ==
    /\ pc = "done" /\ pc' = "idle"
    /\ kind' = "clients" /\ target' = NoDevice /\ todo' = {} /\ step' = 0
    /\ devs' = {} /\ stas' = {} /\ hist' = {}
    /\ dnodes' = {} /\ cnodes' = {} /\ edges' = {} /\ answer' = "none"
    /\ served' = {} /\ failed' = {} /\ joined' = {} /\ had' = [c \in Clients |-> {}]
    /\ UNCHANGED <<envVars, here>>

-----------------------------------------------------------------------------
(* The sites. *)

\* The request remembers which statuses a client has had meanwhile.
Becomes(c, s) ==
    /\ status' = [status EXCEPT ![c] = s]
    /\ had' = IF pc = "idle" THEN had ELSE [had EXCEPT ![c] = @ \cup {s}]

Connect(c, d) ==
    /\ status[c] # "online" /\ Site[d] = Site[c]
    /\ Becomes(c, "online") /\ at' = [at EXCEPT ![c] = d]
    /\ joined' = IF pc = "idle" THEN joined ELSE joined \cup {c}
    /\ UNCHANGED <<adopted, pc, kind, target, todo, here, step, seenVars, resultVars, served, failed>>

Roam(c, d) ==
    /\ status[c] = "online" /\ Site[d] = Site[c] /\ d # at[c]
    /\ at' = [at EXCEPT ![c] = d]
    /\ UNCHANGED <<adopted, status, pc, kind, target, todo, here, step, seenVars, resultVars,
                   historyVars>>

\* It disconnects; later it drops out of the history window.
Leave(c) ==
    /\ \/ status[c] = "online" /\ Becomes(c, "offline")
       \/ status[c] = "offline" /\ Becomes(c, "gone")
    /\ UNCHANGED <<adopted, at, pc, kind, target, todo, here, step, seenVars, resultVars,
                   served, failed, joined>>

Adopt(d) ==
    /\ adopted' = IF d \in adopted THEN adopted \ {d} ELSE adopted \cup {d}
    /\ UNCHANGED <<status, at, pc, kind, target, todo, here, step, seenVars, resultVars, historyVars>>

Request ==
    \/ \E k \in Kinds \ DOMAIN Details : Begin(k, NoDevice)
    \/ \E c \in Clients : Begin("client", c)
    \/ \E d \in Devices : Begin("device", d)

Next ==
    \/ Request
    \/ \E u \in Controllers : Skip(u) \/ Visit(u)
    \/ Read \/ ReadFails \/ Collect \/ ClientDetail \/ DeviceDetail \/ Finish \/ Reply
    \/ \E c \in Clients : Leave(c) \/ \E d \in Devices : Connect(c, d) \/ Roam(c, d)
    \/ \E d \in Devices : Adopt(d)

Spec == Init /\ [][Next]_vars

-----------------------------------------------------------------------------
(* Properties. *)

\* The topology is a graph: whatever is adopted or removed between the reads,
\* both ends of an edge are nodes of the same answer.
EdgesInGraph ==
    pc = "done" /\ answer = "ok" /\ IsGraph =>
        \A e \in edges : e[1] \in dnodes \cup {n[1] : n \in cnodes} /\ e[2] \in dnodes

\* A client that is known when the request arrives may be missing only if it
\* came (back) online or dropped out of the history meanwhile.  The active
\* clients are read first, so one that disconnects in between is never lost.
KnownClientsListed ==
    pc = "done" /\ answer \in {"ok", "notFound"} /\ kind \in {"clients", "topology", "client"} =>
        \A c \in Clients :
            /\ Site[c] \in served /\ (kind = "client" => c = target)
            /\ c \notin joined /\ "gone" \notin had[c]
            => \E s \in Statuses : <<c, s>> \in cnodes

\* A client is listed with a status it really had while the request ran, so one
\* listed twice has changed its status meanwhile.
StatusWasReal == pc = "done" => \A n \in cnodes : n[2] \in had[n[1]]

\* Nothing partial: a list has no item of a controller that failed half-way, and
\* the topology is complete or an error.
NoPartialAnswer ==
    pc = "done" /\ failed # {} =>
        /\ \A n \in cnodes : Site[n[1]] \notin failed
        /\ ~IsList => answer = "error"

\* What the topology design says of the two client reads: "V2 history clients
\* are those not already in the V1 set (offline only)".
HistoryIsOfflineOnly ==
    pc = "done" /\ kind = "topology" =>
        \A c \in Clients : ~({<<c, "online">>, <<c, "offline">>} \subseteq cnodes)
=============================================================================
