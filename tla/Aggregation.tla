----------------------------- MODULE Aggregation -----------------------------
(***************************************************************************)
(* The answers put together from several backends: the docker, storage and *)
(* backup lists, system info and utilization, and the system health        *)
(* report.  A request asks its backends one after the other while they     *)
(* come and go; what it does about one that does not answer differs by     *)
(* endpoint, and for lists by whether a device was asked for by name.      *)
(*                                                                         *)
(* Requests share nothing, so there is one; the order of the backends is   *)
(* left open.  A NAS has one container, or none, and one backup task or    *)
(* more.                                                                   *)
(***************************************************************************)
EXTENDS Integers

CONSTANTS
    Nas, UniFi,      \* the backends
    DockerEnabled,   \* the NAS whose containers the health report covers
    None,            \* no device parameter, no backend
    MaxChanges       \* bound: changes of the backends

ASSUME AggregationAssumption ==
    /\ Nas \cap UniFi = {} /\ DockerEnabled \in SUBSET Nas
    /\ None \notin Nas \cup UniFi
    /\ MaxChanges \in Nat

Backends == Nas \cup UniFi

VARIABLES
    available,    \* backends the monitor reports reachable
    answering,    \* backends that answer requests
    supported,    \* NAS known to have the capability the request needs
    volumes,      \* the level of a NAS's worst volume
    container,    \* of a NAS: running, stopped or none
    subsystems,   \* the levels of a controller's subsystems, unknown ones left out
    changes,
    pc, kind, filter,
    todo, here,   \* backends yet to come, and the current one
    seen,         \* the container status read from it
    items,        \* a list: [of, status, known], known: with the second read's part,
                  \*   a container's usage or a backup task's last result
    components,   \* the health report: [of, part, level]
    overall, answer,
    failed,       \* history: backends that failed during the request
    steady,       \* history: NAS that have been there and unchanged since it began
    awake,        \* history: NAS that have been available and supported since
    sound         \* history: parts that were healthy at some time since

envVars == <<available, answering, supported, volumes, container, subsystems, changes>>
reqVars == <<kind, filter>>
resultVars == <<items, components, overall, answer>>
pastVars == <<steady, awake, sound>>
vars == <<envVars, pc, reqVars, todo, here, seen, resultVars, failed, pastVars>>

Levels == {"healthy", "degraded", "unhealthy"}
ContainerStates == {"running", "stopped", "none"}

Gated == {"containers", "images", "backups"}     \* images: docker networks too
Lists == Gated \cup {"volumes"}
Strict == {"info"}                               \* system info, utilization
Kinds == Lists \cup Strict \cup {"health"}

Parts == (Nas \X {"storage"}) \cup (DockerEnabled \X {"containers"}) \cup (UniFi \X {"network"})

TypeOK ==
    /\ available \in SUBSET Backends /\ answering \in SUBSET Backends
    /\ supported \in SUBSET Nas /\ volumes \in [Nas -> Levels]
    /\ container \in [Nas -> ContainerStates]
    /\ subsystems \in [UniFi -> SUBSET {"healthy", "unhealthy"}]
    /\ changes \in 0..MaxChanges
    /\ pc \in {"idle", "next", "first", "second", "done"}
    /\ kind \in Kinds /\ filter \in Nas \cup {None}
    /\ todo \in SUBSET Backends /\ here \in Backends \cup {None} /\ seen \in ContainerStates
    /\ items \in SUBSET [of : Nas, status : ContainerStates, known : BOOLEAN]
    /\ components \in SUBSET [of : Backends, part : {"storage", "containers", "network"},
                              level : Levels]
    /\ \A x \in components : <<x.of, x.part>> \in Parts
    /\ overall \in Levels /\ answer \in {"none", "ok", "error"}
    /\ failed \in SUBSET Backends /\ steady \in SUBSET Nas /\ awake \in SUBSET Nas
    /\ sound \in SUBSET Parts

\* Parts a health report would find healthy, if it asked now.
Sound(up, vol, cont, sub) ==
    {p \in Parts : /\ p[1] \in up
                   /\ CASE p[2] = "storage"    -> vol[p[1]] = "healthy"
                        [] p[2] = "containers" -> cont[p[1]] # "stopped"
                        [] p[2] = "network"    -> sub[p[1]] \subseteq {"healthy"}}

Init ==
    /\ available = Backends /\ answering = Backends /\ supported \in SUBSET Nas
    /\ volumes = [b \in Nas |-> "healthy"] /\ container = [b \in Nas |-> "running"]
    /\ subsystems = [u \in UniFi |-> {"healthy"}]
    /\ changes = 0
    /\ pc = "idle" /\ kind = "health" /\ filter = None
    /\ todo = {} /\ here = None /\ seen = "none"
    /\ items = {} /\ components = {} /\ overall = "healthy" /\ answer = "none"
    /\ failed = {} /\ steady = {} /\ awake = {} /\ sound = {}

-----------------------------------------------------------------------------
(* Any request. *)

\* SupportsDocker or SupportsBackups: one request asks for one of them.
Capable(b) == kind \in Gated => b \in supported

Begin(k, f) ==
    /\ pc = "idle" /\ pc' = "next"
    /\ k = "health" => f = None
    /\ kind' = k /\ filter' = f
    /\ todo' = IF k = "health" THEN Backends ELSE Nas
    /\ awake' = {b \in Nas : b \in available /\ (k \in Gated => b \in supported)}
    /\ steady' = awake' \cap answering
    /\ sound' = Sound(answering, volumes, container, subsystems)
    /\ UNCHANGED <<envVars, here, seen, resultVars, failed>>

Finish ==
    /\ pc = "next" /\ todo = {} /\ pc' = "done"
    /\ answer' = "ok"
    /\ UNCHANGED <<envVars, reqVars, todo, here, seen, items, components, overall, failed, pastVars>>

Reply ==
    /\ pc = "done" /\ pc' = "idle"
    /\ kind' = "health" /\ filter' = None /\ todo' = {} /\ here' = None /\ seen' = "none"
    /\ items' = {} /\ components' = {} /\ overall' = "healthy" /\ answer' = "none"
    /\ failed' = {} /\ steady' = {} /\ awake' = {} /\ sound' = {}
    /\ UNCHANGED envVars

-----------------------------------------------------------------------------
(* The lists. *)

\* Not the device asked for, without the capability, or offline.
PassedOver(b) == (filter # None /\ filter # b) \/ ~Capable(b) \/ b \notin available

PassOver(b) ==
    /\ pc = "next" /\ kind # "health" /\ b \in todo /\ PassedOver(b)
    /\ todo' = todo \ {b}
    /\ UNCHANGED <<envVars, pc, reqVars, here, seen, resultVars, failed, pastVars>>

Ask(b) ==
    /\ pc = "next" /\ kind # "health" /\ b \in todo /\ ~PassedOver(b)
    /\ pc' = "first" /\ here' = b /\ todo' = todo \ {b}
    /\ UNCHANGED <<envVars, reqVars, seen, resultVars, failed, pastVars>>

Append(status, known) ==
    items' = items \cup {[of |-> here, status |-> status, known |-> known]}

\* The only read; of containers and backup tasks, the first of two.
ListRead ==
    /\ pc = "first" /\ kind # "health" /\ here \in answering
    /\ \/ kind = "containers" /\ pc' = "second" /\ seen' = container[here] /\ UNCHANGED items
       \/ kind = "backups" /\ pc' = "second" /\ UNCHANGED <<seen, items>>
       \/ /\ kind \notin {"containers", "backups"} /\ pc' = "next"
          /\ Append("none", FALSE) /\ UNCHANGED seen
    /\ UNCHANGED <<envVars, reqVars, todo, here, components, overall, answer, failed, pastVars>>

\* GetContainerResources, joined by name: a container it does not list has no usage.
UsageRead ==
    /\ pc = "second" /\ kind = "containers" /\ here \in answering
    /\ pc' = "next" /\ Append(seen, container[here] = "running")
    /\ UNCHANGED <<envVars, reqVars, todo, here, seen, components, overall, answer, failed, pastVars>>

\* GetBackupTaskStatus, for one task after the other.  Its failure is logged and
\* the task listed all the same, its last result unknown; nothing is propagated,
\* not even for a device asked for by name.
StatusRead ==
    /\ pc = "second" /\ kind = "backups"
    /\ Append("none", here \in answering)
    /\ failed' = IF here \in answering THEN failed ELSE failed \cup {here}
    /\ pc' \in {"second", "next"}
    /\ UNCHANGED <<envVars, reqVars, todo, here, seen, components, overall, answer, pastVars>>

NeverStrict == FALSE       \* broken: an error is skipped for a device asked for by name, too
Propagates == kind \in Strict \/ filter # None

KeepHalf == IF pc = "second" THEN Append(seen, FALSE) ELSE UNCHANGED items      \* broken
DropHalf == UNCHANGED items

Break == {}                \* broken: break, where the code says continue
Continue == todo

\* A read fails: the error is propagated, or the backend skipped.
ListReadFails ==
    /\ kind # "health" /\ here \notin answering
    /\ pc = "first" \/ (pc = "second" /\ kind # "backups")
    /\ failed' = failed \cup {here}
    /\ DropHalf
    /\ IF Propagates THEN pc' = "done" /\ answer' = "error"
                     ELSE pc' = "next" /\ UNCHANGED answer
    /\ todo' = Continue
    /\ UNCHANGED <<envVars, reqVars, here, seen, components, overall, pastVars>>

-----------------------------------------------------------------------------
(* GetSystemHealth. *)

Worst(L) ==
    CASE "unhealthy" \in L -> "unhealthy"
      [] "unhealthy" \notin L /\ "degraded" \in L -> "degraded"
      [] OTHER -> "healthy"

Component(b, p, l) == [of |-> b, part |-> p, level |-> l]

KeepOverall(S) == overall                         \* broken: a branch forgets the status
WorstOf(S) == Worst({overall} \cup {x.level : x \in S})

Record(S) ==
    /\ components' = components \cup S
    /\ overall' = WorstOf(S)

\* What a backend's parts look like when it is offline.
OmitOffline(b) == {}                              \* broken: as in the lists
OfflineDocker(b) ==                               \* broken: dockerEnabled not asked
    {Component(b, p, "unhealthy") :
        p \in IF b \in UniFi THEN {"network"} ELSE {"storage", "containers"}}
OfflineParts(b) == {Component(p[1], p[2], "unhealthy") : p \in {x \in Parts : x[1] = b}}

\* The monitor reports the backend offline.
HealthOffline(b) ==
    /\ pc = "next" /\ kind = "health" /\ b \in todo /\ b \notin available
    /\ todo' = todo \ {b}
    /\ Record(OfflineParts(b))
    /\ UNCHANGED <<envVars, pc, reqVars, here, seen, items, answer, failed, pastVars>>

HealthAsk(b) ==
    /\ pc = "next" /\ kind = "health" /\ b \in todo /\ b \in available
    /\ pc' = "first" /\ here' = b /\ todo' = todo \ {b}
    /\ UNCHANGED <<envVars, reqVars, seen, resultVars, failed, pastVars>>

\* mapUniFiStatus, mapVolumeStatus and containersHealth, or the error.
Found(b, p) ==
    IF b \notin answering THEN {Component(b, p, "unhealthy")}
    ELSE CASE p = "network"    -> {Component(b, p, l) : l \in subsystems[b]}
           [] p = "storage"    -> {Component(b, p, volumes[b])}
           [] p = "containers" -> {Component(b, p, IF container[b] = "stopped" THEN "degraded"
                                                                            ELSE "healthy")}

\* A controller's subsystems, or a NAS's volumes.
HealthRead ==
    /\ pc = "first" /\ kind = "health"
    /\ Record(Found(here, IF here \in UniFi THEN "network" ELSE "storage"))
    /\ pc' = IF here \in DockerEnabled THEN "second" ELSE "next"
    /\ failed' = IF here \in answering THEN failed ELSE failed \cup {here}
    /\ UNCHANGED <<envVars, reqVars, todo, here, seen, items, answer, pastVars>>

\* A NAS's containers, even when its volumes could not be read.
HealthContainers ==
    /\ pc = "second" /\ kind = "health"
    /\ Record(Found(here, "containers"))
    /\ pc' = "next"
    /\ failed' = IF here \in answering THEN failed ELSE failed \cup {here}
    /\ UNCHANGED <<envVars, reqVars, todo, here, seen, items, answer, pastVars>>

-----------------------------------------------------------------------------
(* The backends, and what the request will be judged by. *)

Past(touched) ==
    /\ changes < MaxChanges /\ changes' = changes + 1
    /\ awake' = {b \in awake : b \in available' /\ Capable(b)}
    /\ steady' = (steady \cap available' \cap answering') \ touched
    /\ sound' = IF pc = "idle" THEN sound
                ELSE sound \cup Sound(answering', volumes', container', subsystems')
    /\ UNCHANGED <<pc, reqVars, todo, here, seen, resultVars, failed>>

Toggle(S, b) == IF b \in S THEN S \ {b} ELSE S \cup {b}

\* The monitor's view, which may lag behind; the backend itself; a capability
\* is discovered, and never lost.
Reach(b) == available' = Toggle(available, b) /\ UNCHANGED <<answering, supported>>
Respond(b) == answering' = Toggle(answering, b) /\ UNCHANGED <<available, supported>>
Discover(b) == supported' = supported \cup {b} /\ UNCHANGED <<available, answering>>

Flip ==
    /\ \E b \in Backends : Reach(b) \/ Respond(b) \/ (b \in Nas /\ Discover(b))
    /\ UNCHANGED <<volumes, container, subsystems>>
    /\ Past({})

VolumesChange(b, l) ==
    /\ volumes' = [volumes EXCEPT ![b] = l]
    /\ UNCHANGED <<available, answering, supported, container, subsystems>> /\ Past({})

ContainerChange(b, s) ==
    /\ container' = [container EXCEPT ![b] = s]
    /\ UNCHANGED <<available, answering, supported, volumes, subsystems>> /\ Past({b})

SubsystemsChange(u, S) ==
    /\ subsystems' = [subsystems EXCEPT ![u] = S]
    /\ UNCHANGED <<available, answering, supported, volumes, container>> /\ Past({})

Environment ==
    \/ Flip
    \/ \E b \in Nas : (\E l \in Levels : VolumesChange(b, l))
                      \/ \E s \in ContainerStates : ContainerChange(b, s)
    \/ \E u \in UniFi, S \in SUBSET {"healthy", "unhealthy"} : SubsystemsChange(u, S)

Next ==
    \/ \E k \in Kinds, f \in Nas \cup {None} : Begin(k, f)
    \/ \E b \in Backends : PassOver(b) \/ Ask(b) \/ HealthOffline(b) \/ HealthAsk(b)
    \/ ListRead \/ UsageRead \/ StatusRead \/ ListReadFails \/ HealthRead \/ HealthContainers
    \/ Finish \/ Reply \/ Environment

Spec == Init /\ [][Next]_vars

-----------------------------------------------------------------------------
(* Properties. *)

\* The report's status is the worst of its components, in every branch.
OverallIsWorst ==
    /\ overall = "unhealthy" <=> \E x \in components : x.level = "unhealthy"
    /\ overall = "healthy" <=> \A x \in components : x.level = "healthy"

\* A healthy report is earned: every volume, container and subsystem it covers
\* was seen healthy while it was made; a backend that is away, or failing, all
\* along can neither be left out nor pass for healthy.
HealthyIsEarned ==
    pc = "done" /\ kind = "health" /\ overall = "healthy" => sound = Parts

\* A NAS that was available, capable and answering all along is in the list, its
\* container with its usage if it has not changed, its backup task with its last
\* result.  An error of a device asked for by name is told: its items are missing
\* from a successful answer only if the monitor had it offline or it lacked the
\* capability.
ListComplete ==
    pc = "done" /\ answer = "ok" /\ kind # "health" =>
        /\ \A b \in steady :
            filter \in {None, b} =>
                \E x \in items :
                    /\ x.of = b
                    /\ kind = "containers" /\ container[b] = "running" => x.known
                    /\ kind = "backups" => x.known
        /\ filter # None /\ filter \in awake => \E x \in items : x.of = filter

\* A NAS that fails a read contributes nothing to a list.  The backup list alone
\* keeps what it has of it, and then says so: a NAS in that list failed a read if,
\* and only if, the last result of a task of it is unknown.
NoHalfBackend ==
    \A x \in items :
        x.of \in failed <=> kind = "backups" /\ \E y \in items : y.of = x.of /\ ~y.known

-----------------------------------------------------------------------------
(* The inductive invariant behind the safety properties above. *)

\* A backend is visited once, and only what the request is about is visited.
VisitInv ==
    /\ kind # "health" => todo \subseteq Nas
    /\ kind = "health" => items = {} /\ (pc = "done" => todo = {})
    /\ pc \in {"first", "second"} =>
         /\ here \in Backends \ todo
         /\ kind # "health" => here \in Nas
         /\ kind # "health" /\ (pc = "first" \/ kind # "backups") =>
               here \notin failed /\ \A x \in items : x.of # here
         /\ kind = "backups" /\ here \in failed => \E x \in items : x.of = here /\ ~x.known
    /\ pc = "second" /\ kind = "health" => here \in DockerEnabled
    /\ failed \cap todo = {}
    /\ \A x \in items : x.of \notin todo

\* Between requests there is nothing left of the last one.
IdleInv ==
    pc = "idle" =>
        kind = "health" /\ items = {} /\ components = {} /\ failed = {} /\ overall = "healthy"

\* The parts the report has yet to ask about.
Unasked(p) ==
    \/ p[1] \in todo
    \/ p[1] = here /\ (pc = "first" \/ (pc = "second" /\ p[2] = "containers"))

\* As long as the report is healthy, what it has asked about was sound.
EarnedInv ==
    /\ pc # "idle" => Sound(answering, volumes, container, subsystems) \subseteq sound
    /\ pc # "idle" /\ kind = "health" /\ overall = "healthy" =>
         \A p \in Parts : p \in sound \/ Unasked(p)

IInv ==
    TypeOK /\ VisitInv /\ IdleInv /\ OverallIsWorst /\ NoHalfBackend /\ EarnedInv
=============================================================================
