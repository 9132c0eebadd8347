---------------------------- MODULE ReleaseCache ----------------------------
(***************************************************************************)
(* The software-update list of the system service                          *)
(* (internal/system/updates_service.go, github.go).  Every request scans   *)
(* the running containers live and joins them with the latest upstream     *)
(* release of each repository, which is cached for a TTL.  refreshMu       *)
(* serialises the refreshes; a forced check holds it from its scan on.     *)
(*                                                                         *)
(* A version is a number, 0 is none.  Sections under s.mu are one step.    *)
(***************************************************************************)
EXTENDS Integers

CONSTANTS
    Callers,      \* goroutines that serve the update endpoints
    NoOne,        \* value of refreshMu when it is free
    Devices,      \* Docker-enabled Synology backends
    Containers,   \* the containers with a version tag, one per image
    Host,         \* the device a container runs on
    Repos,        \* "owner/repo" of a release source
    NoRepo,       \* source of an image that resolveSource does not know
    Source,       \* resolveSource of a container's image
    TTL,          \* updateCacheTTL, in clock ticks
    MaxVersion,   \* bound: releases published
    MaxFaults     \* bound: devices or repositories that come and go, fetches lost

ASSUME CacheAssumption ==
    /\ NoOne \notin Callers /\ NoRepo \notin Repos
    /\ Host \in [Containers -> Devices]
    /\ Source \in [Containers -> Repos \cup {NoRepo}]
    /\ TTL \in Nat \ {0} /\ MaxVersion \in Nat \ {0} /\ MaxFaults \in Nat

VARIABLES
    latest,       \* upstream: the latest release of each repository
    running,      \* the version each container runs
    online,       \* the scan sees the device: available, and ListContainers succeeds
    reachable,    \* upstream answers for the repository
    faults,
    cached,       \* s.ghCache # nil
    releases,     \* s.ghCache.releases
    age,          \* time.Since(fetchedAt), counted up to TTL
    warned,       \* s.warnedImages
    refreshMu,    \* who holds s.refreshMu
    pc, kind,     \* where each caller is, and whether it lists or forces a check
    todo,         \* devices it has yet to scan
    tags,         \* CurrentVersion of the containers it has seen
    pending,      \* repositories whose fetch is in flight
    fresh,        \* results of fetchReleases
    got,          \* the releases its answer is built from
    floor,        \* history: what was cached (check: published) when it began
    rounds        \* history: refreshes by list requests since the cache last expired

envVars == <<latest, running, online, reachable, faults>>
cacheVars == <<cached, releases, age, warned>>
scanVars == <<kind, todo, tags, floor>>
fetchVars == <<pending, fresh, got>>
vars == <<envVars, cacheVars, refreshMu, pc, scanVars, fetchVars, rounds>>

Versions == 0..MaxVersion
None == [r \in Repos |-> 0]

TypeOK ==
    /\ latest \in [Repos -> Versions] /\ running \in [Containers -> Versions]
    /\ online \in [Devices -> BOOLEAN] /\ reachable \in [Repos -> BOOLEAN]
    /\ faults \in 0..MaxFaults
    /\ cached \in BOOLEAN /\ releases \in [Repos -> Versions] /\ age \in 0..TTL
    /\ warned \in SUBSET Containers
    /\ refreshMu \in Callers \cup {NoOne}
    /\ pc \in [Callers -> {"idle", "force", "scan", "lookup", "refresh", "fetch", "answered"}]
    /\ kind \in [Callers -> {"list", "check"}]
    /\ todo \in [Callers -> SUBSET Devices]
    /\ tags \in [Callers -> [Containers -> Versions]]
    /\ pending \in [Callers -> SUBSET Repos]
    /\ fresh \in [Callers -> [Repos -> Versions]]
    /\ got \in [Callers -> [Repos -> Versions]]
    /\ floor \in [Callers -> [Repos -> Versions]]
    /\ rounds \in Nat

\* The cache starts empty, or seeded by SeedGitHubReleases (test server).
Init ==
    /\ latest = [r \in Repos |-> 1] /\ running = [k \in Containers |-> 1]
    /\ online = [d \in Devices |-> TRUE] /\ reachable = [r \in Repos |-> TRUE]
    /\ faults = 0
    /\ \/ cached = FALSE /\ releases = None
       \/ cached = TRUE /\ releases = latest
    /\ age = 0 /\ warned = {} /\ refreshMu = NoOne
    /\ pc = [c \in Callers |-> "idle"] /\ kind = [c \in Callers |-> "list"]
    /\ todo = [c \in Callers |-> {}]
    /\ tags = [c \in Callers |-> [k \in Containers |-> 0]]
    /\ pending = [c \in Callers |-> {}]
    /\ fresh = [c \in Callers |-> None] /\ got = [c \in Callers |-> None]
    /\ floor = [c \in Callers |-> None]
    /\ rounds = 0

Goto(c, label) == pc' = [pc EXCEPT ![c] = label]

-----------------------------------------------------------------------------
(* The request. *)

\* ListSystemUpdates, GetSystemUpdate (and getUpdates): straight to the scan.
BeginList(c) ==
    /\ pc[c] = "idle" /\ Goto(c, "scan")
    /\ kind' = [kind EXCEPT ![c] = "list"]
    /\ todo' = [todo EXCEPT ![c] = Devices]
    /\ floor' = [floor EXCEPT ![c] = releases]
    /\ UNCHANGED <<envVars, cacheVars, refreshMu, tags, fetchVars, rounds>>

\* CheckSystemUpdates: refreshMu first.
BeginCheck(c) ==
    /\ pc[c] = "idle" /\ Goto(c, "force")
    /\ kind' = [kind EXCEPT ![c] = "check"]
    /\ floor' = [floor EXCEPT ![c] = latest]
    /\ UNCHANGED <<envVars, cacheVars, refreshMu, todo, tags, fetchVars, rounds>>

LockForCheck(c) ==
    /\ pc[c] = "force" /\ refreshMu = NoOne
    /\ refreshMu' = c /\ Goto(c, "scan")
    /\ todo' = [todo EXCEPT ![c] = Devices]
    /\ UNCHANGED <<envVars, cacheVars, kind, tags, floor, fetchVars, rounds>>

\* buildUpdateItems, phase 1, one device: skipped, or its containers are listed
\* and an image without a source is remembered as warned about.
Scan(c, d) ==
    /\ pc[c] = "scan" /\ d \in todo[c]
    /\ todo' = [todo EXCEPT ![c] = @ \ {d}]
    /\ \/ ~online[d] /\ UNCHANGED <<tags, warned>>
       \/ /\ online[d]
          /\ tags' = [tags EXCEPT ![c] = [k \in Containers |->
                                            IF Host[k] = d THEN running[k] ELSE @[k]]]
          /\ warned' = warned \cup {k \in Containers : Host[k] = d /\ Source[k] = NoRepo}
    /\ UNCHANGED <<envVars, cached, releases, age, refreshMu, pc, kind, floor, fetchVars, rounds>>

ReposOf(c) == {Source[k] : k \in {x \in Containers : tags[c][x] # 0}} \ {NoRepo}

Expires == age < TTL
NeverExpires == TRUE         \* broken: no TTL
Valid == Expires
Fresh == cached /\ Valid

\* fetchReleases: a goroutine per repository.
StartFetch(c) == pending' = [pending EXCEPT ![c] = ReposOf(c)] /\ Goto(c, "fetch")
Answer(c) == got' = [got EXCEPT ![c] = releases] /\ Goto(c, "answered")

ForceIgnored(c) == FALSE     \* broken: a check is served from the cache as well
Forced(c) == kind[c] = "check"

\* The scan is over; a forced check goes on to fetch.
ScanDone(c) ==
    /\ pc[c] = "scan" /\ todo[c] = {}
    /\ IF Forced(c) THEN StartFetch(c) ELSE Goto(c, "lookup") /\ UNCHANGED pending
    /\ UNCHANGED <<envVars, cacheVars, refreshMu, scanVars, fresh, got, rounds>>

LeaveLocked == UNCHANGED refreshMu     \* broken: no deferred Unlock
Unlock == refreshMu' = NoOne

\* getOrFetchReleases, fast path.
Lookup(c) ==
    /\ pc[c] = "lookup"
    /\ IF Fresh THEN Answer(c) ELSE Goto(c, "refresh") /\ UNCHANGED got
    /\ UNCHANGED <<envVars, cacheVars, refreshMu, scanVars, pending, fresh, rounds>>

NoRecheck == FALSE           \* broken: fetch without looking again
Recheck == Fresh

NoMutex == TRUE              \* broken: refreshes are not serialised
RefreshAllowed == refreshMu = NoOne

\* The cache is stale: take refreshMu and look again.
LockForRefresh(c) ==
    /\ pc[c] = "refresh" /\ RefreshAllowed
    /\ \/ Recheck /\ Answer(c) /\ UNCHANGED <<refreshMu, pending, rounds>>
       \/ ~Recheck /\ refreshMu' = c /\ StartFetch(c) /\ rounds' = rounds + 1 /\ UNCHANGED got
    /\ UNCHANGED <<envVars, cacheVars, scanVars, fresh>>

\* One of the concurrent fetches succeeds.
FetchOK(c, r) ==
    /\ pc[c] = "fetch" /\ r \in pending[c] /\ reachable[r]
    /\ fresh' = [fresh EXCEPT ![c][r] = latest[r]]
    /\ pending' = [pending EXCEPT ![c] = @ \ {r}]
    /\ UNCHANGED <<envVars, cacheVars, refreshMu, pc, scanVars, got, rounds>>

NilEntry(c, r) == fresh' = [fresh EXCEPT ![c][r] = -1]   \* broken: the result of an error is kept
NoEntry(c, r) == UNCHANGED fresh

\* One fails: upstream is down or limits the rate, or (a fault) the answer is
\* lost or the client that waits for the list has hung up.
FetchFails(c, r) ==
    /\ pc[c] = "fetch" /\ r \in pending[c]
    /\ \/ ~reachable[r] /\ UNCHANGED faults
       \/ reachable[r] /\ faults < MaxFaults /\ faults' = faults + 1
    /\ NoEntry(c, r)
    /\ pending' = [pending EXCEPT ![c] = @ \ {r}]
    /\ UNCHANGED <<latest, running, online, reachable, cacheVars, refreshMu, pc, scanVars, got, rounds>>

OnlyFresh(c) == fresh[c]     \* broken: the previous cache is not copied first
Merged(c) == [r \in Repos |-> IF fresh[c][r] # 0 THEN fresh[c][r] ELSE releases[r]]

\* All fetches are in: merge, stamp the cache, release refreshMu on return.
Merge(c) ==
    /\ pc[c] = "fetch" /\ pending[c] = {}
    /\ cached' = TRUE /\ releases' = Merged(c) /\ age' = 0
    /\ got' = [got EXCEPT ![c] = releases'] /\ Goto(c, "answered")
    /\ Unlock
    /\ UNCHANGED <<envVars, warned, scanVars, pending, fresh, rounds>>

\* buildUpdateItems, phase 3, and the handler: the answer goes out.
Return(c) ==
    /\ pc[c] = "answered" /\ Goto(c, "idle")
    /\ kind' = [kind EXCEPT ![c] = "list"]
    /\ tags' = [tags EXCEPT ![c] = [k \in Containers |-> 0]]
    /\ fresh' = [fresh EXCEPT ![c] = None] /\ got' = [got EXCEPT ![c] = None]
    /\ floor' = [floor EXCEPT ![c] = None]
    /\ UNCHANGED <<envVars, cacheVars, refreshMu, todo, pending, rounds>>

\* The status phase 3 gives container k.
Status(c, k) ==
    CASE Source[k] = NoRepo              -> "unknown"
      [] Source[k] # NoRepo /\ got[c][Source[k]] = 0          -> "stale"
      [] Source[k] # NoRepo /\ got[c][Source[k]] = tags[c][k] -> "upToDate"
      [] OTHER                           -> "updateAvailable"

-----------------------------------------------------------------------------
(* The environment. *)

\* The clock; when the cache expires the count of refreshes starts anew.
Tick ==
    /\ age < TTL /\ age' = age + 1
    /\ rounds' = IF age' = TTL THEN 0 ELSE rounds
    /\ UNCHANGED <<envVars, cached, releases, warned, refreshMu, pc, scanVars, fetchVars>>

Publish(r) ==
    /\ latest[r] < MaxVersion /\ latest' = [latest EXCEPT ![r] = @ + 1]
    /\ UNCHANGED <<running, online, reachable, faults, cacheVars, refreshMu, pc, scanVars,
                   fetchVars, rounds>>

\* A container is upgraded to the latest release.
Upgrade(k) ==
    /\ Source[k] \in Repos /\ running[k] < latest[Source[k]]
    /\ running' = [running EXCEPT ![k] = latest[Source[k]]]
    /\ UNCHANGED <<latest, online, reachable, faults, cacheVars, refreshMu, pc, scanVars,
                   fetchVars, rounds>>

Fault ==
    /\ faults < MaxFaults /\ faults' = faults + 1
    /\ \/ \E d \in Devices : online' = [online EXCEPT ![d] = ~@] /\ UNCHANGED reachable
       \/ \E r \in Repos : reachable' = [reachable EXCEPT ![r] = ~@] /\ UNCHANGED online
    /\ UNCHANGED <<latest, running, cacheVars, refreshMu, pc, scanVars, fetchVars, rounds>>

LockStep(c) == LockForCheck(c) \/ LockForRefresh(c)
Fetch(c) == (\E r \in Repos : FetchOK(c, r) \/ FetchFails(c, r)) \/ Merge(c)
Step(c) == (\E d \in Devices : Scan(c, d)) \/ ScanDone(c) \/ Lookup(c) \/ Fetch(c) \/ Return(c)

Next ==
    \/ \E c \in Callers : BeginList(c) \/ BeginCheck(c) \/ LockStep(c) \/ Step(c)
    \/ Tick \/ Fault
    \/ \E r \in Repos : Publish(r)
    \/ \E k \in Containers : Upgrade(k)

Spec == Init /\ [][Next]_vars

\* Scans and fetches end within their timeouts, sync.Mutex starves nobody, and
\* time passes.
FairSpec == Spec /\ WF_vars(Tick) /\ \A c \in Callers : WF_vars(Step(c)) /\ SF_vars(LockStep(c))

-----------------------------------------------------------------------------
(* Properties. *)

\* No stampede: however many list requests find the cache expired, one of them
\* goes upstream and the others use what it brought.
OneRefreshPerExpiry == rounds <= 1

\* A known release is never lost, nor replaced by an older one: a failed fetch
\* keeps what was there, and two refreshes cannot overtake each other.
NeverBackwards == [][\A r \in Repos : releases'[r] >= releases[r]]_vars

\* The endpoints keep the promise of ReleaseBoard: a request is told what the
\* cache holds at one moment of its run, never a mixture of two refreshes, and a
\* refresh only adds releases that are published and newer.
Stage(label) ==
    CASE label = "idle" -> "idle" [] label = "answered" -> "told" [] OTHER -> "asked"
Board == INSTANCE ReleaseBoard WITH
    known <- releases,
    stage <- [c \in Callers |-> Stage(pc[c])],
    told <- got

KeepsPromise == Board!Spec

\* No answer is older than what was cached when the request arrived.  A forced
\* check's is not older than what was published then, for every repository it
\* reached; as long as nothing fails, that is every repository in use.
AnswerNotOlder ==
    \A c \in Callers : pc[c] = "answered" =>
        \A r \in Repos :
            kind[c] = "list" \/ fresh[c][r] # 0 \/ (faults = 0 /\ r \in ReposOf(c)) =>
                got[c][r] >= floor[c][r]

\* Every request returns, although forced checks hold refreshMu across the scan
\* of all devices and all fetches.
RequestsReturn == \A c \in Callers : pc[c] # "idle" ~> pc[c] = "idle"

\* If devices and upstream stay reachable and requests keep coming, the cache
\* holds the latest release for good: a failed or partial refresh, which is
\* stamped like a complete one, delays this by a TTL and no more.
ReleaseSeen ==
    \A k \in {x \in Containers : Source[x] \in Repos} :
        (/\ <>[](online[Host[k]] /\ reachable[Source[k]])
         /\ []<>(\E c \in Callers : pc[c] = "scan"))
            => <>[](releases[Source[k]] = latest[Source[k]])

\* What the configuration says of release sources, "to use when checking for
\* newer versions": an update that is announced is newer than what runs.
UpdateIsNewer ==
    \A c \in Callers, k \in Containers :
        pc[c] = "answered" /\ tags[c][k] # 0 /\ Status(c, k) = "updateAvailable" =>
            got[c][Source[k]] > tags[c][k]

-----------------------------------------------------------------------------
(* The inductive invariant behind the safety properties above. *)

\* refreshMu is held while fetching, and during the scan of a forced check.
LockInv ==
    \A c \in Callers :
        /\ refreshMu = c <=> pc[c] = "fetch" \/ (pc[c] = "scan" /\ kind[c] = "check")
        /\ pc[c] = "force" => kind[c] = "check"
        /\ pc[c] \in {"lookup", "refresh"} => kind[c] = "list"

\* A refresh since the cache last expired has been merged, or is being made.
RoundsInv ==
    /\ rounds <= 1
    /\ rounds = 1 => (cached /\ age < TTL) \/ refreshMu # NoOne

\* What a fetch brought is no older than the cache it will be merged into.
FetchInv(c, r) ==
    /\ fresh[c][r] <= latest[r]
    /\ pc[c] \notin {"fetch", "answered"} => fresh[c][r] = 0
    /\ pc[c] = "fetch" /\ fresh[c][r] # 0 => fresh[c][r] >= releases[r]
    /\ kind[c] = "check" /\ fresh[c][r] # 0 => fresh[c][r] >= floor[c][r]

FloorInv(c, r) ==
    /\ floor[c][r] <= latest[r]
    /\ kind[c] = "list" => floor[c][r] <= releases[r]

AnswerInv(c, r) ==
    pc[c] = "answered" /\ (kind[c] = "list" \/ fresh[c][r] # 0) => got[c][r] >= floor[c][r]

CoreInv ==
    /\ TypeOK
    /\ LockInv /\ RoundsInv
    /\ \A r \in Repos : releases[r] <= latest[r]
    /\ \A c \in Callers, r \in Repos : FetchInv(c, r) /\ FloorInv(c, r) /\ AnswerInv(c, r)

\* A forced check fetches whatever it has seen in use.
CheckedInv(c, r) ==
    kind[c] = "check" /\ faults = 0 /\ r \in ReposOf(c) =>
        /\ pc[c] = "fetch" => r \in pending[c] \/ fresh[c][r] >= floor[c][r]
        /\ pc[c] = "answered" => got[c][r] >= floor[c][r]
        /\ pc[c] \notin {"lookup", "refresh"}

CheckInv ==
    /\ faults = 0 => \A r \in Repos : reachable[r]
    /\ \A c \in Callers, r \in Repos : CheckedInv(c, r)

IInv == CoreInv /\ CheckInv
=============================================================================
