# Specifications of homelab-api

TLA+ models of the concurrent and multi-step behaviour of the API server, TLC
configurations that check them on small instances, and TLAPS proofs that
carry the most important results to any number of goroutines, backends and
things.

## 1. The system

`cmd/server` reads a YAML configuration, builds a client for each backend
(Synology NAS, UniFi controller), runs API discovery, starts a health monitor
and serves an HTTP API.  Each request runs in a goroutine of its own; all of
them share the backend clients, the monitor's map and the release cache.
Nothing is persisted: a restart starts from the initial states below.

| Component (source) | State it keeps | Operations | Used by, uses |
|---|---|---|---|
| DSM session (`adapters/synology.go`) | `sid`, `authInfo`, one RWMutex | `Call` (send, retry once after re-login), `ensureSession`, `loginLocked`, `discoverAuth`, `invalidateSession` | every docker, storage, system request and the update scan; DSM |
| UniFi session (`adapters/unifi.go`) | `loggedIn`, the cookie jar, one RWMutex | `get`, `maybeLogin`, `ensureSession`, `loginLocked`, `invalidateSession` | network requests, health report; the controller |
| API discovery (`synology.go`, `cmd/server/backends.go`) | `supportedAPIs`, `discoveryFailed` | `DiscoverAPIs`, `failDiscovery`, `SupportsAPI`, `Ping` | startup, monitor; docker and backup requests |
| Health monitor (`health/monitor.go`) | `available` map | `Start`, `probe`, `Available` | pings all backends; read by every list |
| Process lifecycle (`cmd/server/main.go`) | context, server, `DockerEnabled` copies | discovery, wiring, serving, shutdown | owns the monitor and the server |
| Software updates (`system/updates_service.go`, `github.go`) | `ghCache`, `warnedImages` under `mu`; `refreshMu` | list, get, forced check; scan, fetch, merge | scans the NAS, asks GitHub and Codeberg |
| Lists over the NAS (`docker`, `storage`, `system/info`, `system/utilization`) | none | fan-out over the registry, filter, skip or propagate | sessions, monitor, discovery |
| Health report (`system/health_service.go`) | none | worst-of over all backends | sessions, monitor |
| Network: clients, devices, topology (`network/*_service.go`) | none | several reads of each controller joined into one answer | UniFi session, monitor |
| Network: ports, SSIDs, VLANs, WANs, details (`network/*_service.go`) | none | up to four reads of a controller joined; links to other details | UniFi session |
| Docker and storage details, container operations (`docker`, `storage`) | none | take the ID apart, find the backend, one to four calls | DSM session, discovery |
| Auth middleware, routing, registry, composite IDs (`auth`, `routing`, `adapters/registry.go`, `apierrors`) | fixed at startup, or none | token, path, scopes, lookup by name | every request |
| Configuration, Dex proxy, meta endpoints, TLS | fixed at startup | read once; constant answers | `cmd/server` |

**What is hard here.**  One session shared by many goroutines, whose expiry
they all notice at once and whose login is done under a lock held across the
network; retries of operations that are not idempotent; a cache whose refresh
must neither stampede nor go backwards; answers joined from reads made at
different moments of backends that change or fail in between; IDs and links that are
followed after what they name has been edited; discovery that
fails at startup and is repaired later by another goroutine; shutdown while
the monitor is in the middle of a round.  `PROJECT.json` lists these hazards
with the line where each bites and the properties that watch it.

**What makes each component correct.**

* DSM session: an expired session never fails a caller that could log in again;
  one login per expiry; a good SID is never thrown away; its retry runs no
  operation twice, whatever `net/http` repeats underneath; no caller blocks for ever.
* UniFi session: the same, as far as a client without a token to compare can.
* Discovery and monitor: never lose what discovery has found; report outages and
  recoveries, and only pings that were missed.
* Lifecycle: every stop request ends the process, after its monitor, with the
  right exit code.
* Updates: at most one refresh per expiry, no release lost or replaced by an
  older one, no answer older than what was known; every request returns.
* Lists: complete for the backends that stay, nothing half-read, errors of a
  device asked for by name are told.
* Details and operations: only with token and scopes; the ID a list hands out
  leads to its thing, the ID of an image to one with that ID; a 404 means that the thing was missing.
* Health report: the overall status is the worst, and "healthy" is earned.
* Network answers: a closed graph, no client lost or invented, nothing partial;
  links that lead, cables with two ends, a VLAN filter that is sound, and exact but for the
  guest VLANs of trunks with exclusions.

## 2. Modules

| Module | Models |
|---|---|
| `RemoteCall` | abstract: what `SynologyClient.Call` promises its callers |
| `SynologySession` | the DSM session protocol; implements `RemoteCall` |
| `UniFiSession` | the UniFi session in both credential modes |
| `BackendHealth` | discovery + monitor + lifecycle, composed |
| `ReleaseBoard` | abstract: what the update endpoints promise of the releases they answer with |
| `ReleaseCache` | the update endpoints: scan, cache, `refreshMu`, fetches; implements `ReleaseBoard` |
| `Aggregation` | the lists over the NAS and the health report |
| `NetworkSnapshot` | clients, devices and topology of changing sites |
| `NetworkConfig` | ports, VLANs, WANs, SSIDs and details of one controller that is being edited, and the links between them |
| `Gateway` | one request from the socket to its status: middleware, ID, backend, calls |
| `*_proofs` (of every module but the two abstract ones) | the theorems |
| `MC*` | instances for TLC: constants and symmetry, nothing else |

The models are cut where the code is cut by data: the sessions know nothing of
what is sent over them, and the services see a backend as something that
answers or does not.  `RemoteCall` is the contract between the two.  `Gateway`
follows one request down to the calls, `Aggregation` and `NetworkSnapshot` are the lists,
and `NetworkConfig` what the network details and their links say.

### How state and actions correspond to the code

Variables carry the names of the fields they stand for.  A section of code
under a mutex that does no I/O is one step; a section that holds a lock across
the network is several, with the holder recorded (`lock`, `refreshMu`).  A
request to a backend is the step in which the backend answers it; everything
else may happen before or after.  Definitions marked *broken* are the plausible
bugs the properties are measured against (`PROJECT.json`, `mutants`); no
specification uses them.

**SynologySession.**  A SID is a number, 0 the empty string.  `ReadSid` is the
read-locked look of `ensureSession`, `LockSid` its write-locked look, after
which `DiscoverAuth` and `LoginGranted`/`LoginEmpty`/`LoginError`/`LoginFailed` run
with the lock held.  `Answer` is `callWithSID`; `Invalidate` is the comparison
in `invalidateSession` plus the start of the second attempt.  DSM may end
sessions when it grants a login (single-session accounts), end any session at
any time, answer a login without a SID, or grant one whose answer is lost.
`rawGet` beneath a call succeeds, fails with an API error, a session error, or
is lost after or before it ran.  Beneath that is `net/http`: all requests, `start`, `stop`, `restart` and the
login included, are GETs over connections that are kept alive, and when one dies before the first byte
of an answer the Transport sends its request again.  `Resend` is that for a call, `ResendLogin` for a login
(the session the first one opened is as unknown as one whose answer is lost, `GrantLost`).  So the program does not
run an operation at most once; what it gives is `RemoteCall`: at most once for each time
the request was sent by the Transport, and `Call`'s own retry adds nothing to it, because it
repeats only what DSM has refused.

**UniFiSession.**  The cookie lives in the jar and is picked up when a request
is sent (`Send`), so a request may carry a newer session than the one
`ensureSession` saw.  `ClearFlag` is `invalidateSession`, which has nothing to
compare; the next login is a separate critical section.  So a goroutine with an
old 401 may discard a session another one has just opened, and the second of two
need not find the first one's login, as the migration design has it; what holds
is `LoginsPaidFor`: a login is the first, or there was a 401 for it, or a login whose answer was lost
(`GrantLost`; it is a POST, which the Transport does not repeat once it was sent).  `apiKey` is chosen once in `Init`.

**BackendHealth.**  `phase` is the position of `main`: discovering, wiring,
serving, draining, joining, exited.  Discovery runs for each NAS before the
monitor starts; until it has succeeded a NAS supports nothing; `Wire` copies `SupportsContainers` into `dockerEnabled`.  The
monitor's round is `NextBackend`, `Ping`, possibly `Rediscover` (the repair in
`Ping`), `Store`.  A cancelled context (`stopped`) fails the rest of a round,
whose results are stored like outages while requests are still being drained, and
`MonitorEnds` is the select noticing it.

**ReleaseCache.**  Versions are numbers; `age` counts ticks up to the TTL.  A
list scans the devices (`Scan`), looks at the cache (`Lookup`), takes
`refreshMu`, looks again, fetches every repository of its scan concurrently
(`pending`), and merges (`Merge`).  A forced check takes `refreshMu` before it
scans.  `SeedGitHubReleases` is an initial state with a filled cache.  `Board` maps it to
`ReleaseBoard`: the cached releases are the board, a request is told in the one step in which it
reads a valid cache or merges what it has fetched, and expiry, locks, scans and fetches
are stutters.

**Aggregation.**  One request of one kind: a list that skips failing backends
unless a device was named (`containers`, with its two reads; `backups`, with a second read for each task; `images`, which
also stands for docker networks; `volumes`), one that fails
with them (`info`, also utilization), or the health report.  `available` is the
monitor's view and may lag behind `answering`, what the backend really does;
`supported` is what discovery has found.  All of them change during the request.  A failed second read drops the containers of a
NAS (`ListReadFails`), but not its backup tasks: `StatusRead` lists them with their last result unknown,
even if the NAS was asked for by name.  `NoHalfBackend` says that this is the only way
in which a failed read shows in a list, and that it shows there.

**NetworkSnapshot.**  `Reads` says which reads each endpoint makes of a
controller and in which order; between two of them devices are adopted or
removed and clients connect, roam, disconnect and drop out of the history.
The history endpoint is taken to answer with clients that are offline when it is
asked, which is what the client's doc comment says of it.  An ID names one
client or device here; IDs that collide are in `NetworkConfig`.

**NetworkConfig.**  `Reads` says again what each endpoint reads and in which
order, and `seen` what has come back.  The operators `resolveNativeConf`, `buildVlanConfig`,
`matchesVlanID`, `buildSwPortToDevice`, `deviceUplink` and the others carry the names of
the functions they stand for, over the fields of the controller's JSON that decide:
purpose, tag and `vlan_enabled` of a network; type, ports, WAN interfaces and uplink of a device; forwarding,
native network and exclusions of a port.  Where the code writes into a map in
the order of the controller's answer, `First` and `Last` of that order (`Rank`) say which
write stays and which item is found.  `links` is what the last answer handed out;
`Follow` is the next request, for one of them.  `Id` is what `toKebab` and `clientSuffix`
make of a name: two clients, or a VLAN and a WAN, may have the same.
`Carries` is what a port carries by its setting, whatever the purpose of the network.  `buildVlanConfig`
does not agree with it everywhere (`Overlooked`): of a trunk that excludes some networks it lists the corporate ones
that are left (`devices_service.go:366`), of one that excludes none it says "all", guest VLANs
included.  `VlanFilterExact` has this as its one exception.

**Gateway.**  `pc` is where the request is: `token` (`JWTMiddleware`), `bind` (the generated
wrapper unescapes the path parameter), `scope` (`ScopeMiddleware`), `service` (`findBackend`),
then the calls of its endpoint, each of which finds the backend up or not.  An ID is the sequence of
words between its dots, so the split at the first dot is `<<id[1]>>` and `Tail(id)`.  A word
with a percent sign is what a second unescape refuses.  `supports` may be what a
failed discovery left, and `Discover` is the repair by `Ping`.  A container operation may
run and lose its answer; how often it runs is `RemoteCall`.  A thing of kind `image` is a line of the backend's image list, and
its name the digest: an image under two repositories is two lines with one digest.  `imageShortID` is the
twelve digits the list makes an ID of (`Short`), and `Matches` the search for a digest that begins with what is asked for (`Begins`),
of which the first is answered; which one is first is the backend's order, so any of them may be.
Requests are for things that are there, that have gone, for a few digits of an image, or for
nothing (`Strange`).  Two different images whose first twelve digits are equal are allowed too; they share an ID.

## 3. Runs

Every run is `tlc -config <cfg> <module>`.  All bounds are constants of the
instances; deadlock is checked in every run.

| Run (cfg) | Instance | Shows |
|---|---|---|
| `synology` (`MCSynologySession`) | 2 goroutines, 2 expirations, 1 lost login, 1 repeated request of one of the goroutines | no live SID dropped, one login per expiry, no stale SID at the caller, `RemoteCall` implemented, every call returns |
| `unifi` (`MCUniFiSession`) | 2 goroutines, 2 expirations, 1 lost login, cookie or API key | logins paid for by rejections and lost answers, stale cookie hidden, every get returns |
| `health` (`MCBackendHealth`) | 1 NAS, 1 controller, 2 changes | discovery is never downgraded, "away" means a missed ping; outages and recoveries noticed; `main` always ends, after its monitor, with the right code |
| `health_snapshot` (`MCBackendHealth_snapshot`) | 1 NAS, 1 change | *violated*: a repaired discovery does not reach the system service (finding 1) |
| `cache` (`MCReleaseCache`) | 2 requests, 2 hosts, 1 fault | one refresh per expiry, `ReleaseBoard` implemented: nothing lost, reordered or mixed; no outdated answer; every request returns; a failed refresh only delays a release |
| `cache_newer` (`MCReleaseCache_newer`) | 1 request, 1 repository, TTL 2 | *violated*: an older release is announced as an update (finding 2) |
| `aggregation` (`MCAggregation`) | 2 NAS (one with docker), 1 controller, 3 changes | worst status, earned health, complete lists, errors of the named device told, nothing half-read but a backup task whose status could not be read |
| `network` (`MCNetworkSnapshot`) | 2 sites, 3 devices, 2 clients | closed graph, no client lost or invented, nothing partial |
| `network_claim` (`MCNetworkSnapshot_claim`) | 1 site, 2 devices, 1 client | *violated*: a client in both client reads is two nodes (finding 3) |
| `netconfig` (`MCNetworkConfig`) | 1 site: 3 devices, 4 networks, 2 SSIDs, 3 clients, 2 changes | links lead, cables have two ends, the VLAN filter is sound, and exact but for guest VLANs of trunks with exclusions |
| `gateway` (`MCGateway`) | 2 NAS (one with nothing but volumes), 7 things, of them 3 images with 2 IDs, 6 kinds of credentials, 3 configurations, 2 changes | nothing without token and scopes, 404s earned, IDs lead back, of images to one with the ID |
| `gateway_dots` (`MCGateway_dots`) | 1 NAS named after its host, 2 things | *violated*: the IDs of its things are answered with 404 (finding 4) |

**Why the bounds are enough.**  The session and cache races are between a
goroutine and whoever got there before it; two goroutines show every order of
their critical sections, and the theorems remove the bound (callers,
expirations, lost logins and repeated requests are arbitrary there).  Two
expirations let a session end both before and during a retry; a lost login and a repeated request are
events of one caller, which the others meet as an expired session or not at all.  In the cache,
two devices let a scan lose one of them, a container with a source and one without make
checks with and without fetches, one fault makes a scan, a fetch or a forced check fail,
two versions suffice to go backwards, and TTL 1 makes every tick an expiry; any number of
repositories is in the theorems.  Aggregation needs two NAS for "the others" of a failing one,
and three changes for a backend that goes, comes and changes again between two
reads.  NetworkSnapshot needs no bound on the changes: its state is finite, and
the second site is there for skipped and failing controllers.  NetworkConfig needs
no second request at a time, since requests share nothing, and no second
controller, since IDs begin with its name.  Its instance is one site: a gateway, a
switch and an access point; two corporate networks, one of them untagged, a guest network, and a WAN with
the name of the guest VLAN; an enabled SSID for each of two wireless clients, which share an ID,
and a wired client.  Four cablings (a tree, two devices on one port, a link to the gateway's WAN
port, a device whose upstream is not told) and six settings of the switch's port cover each branch of the
port and VLAN functions; of the two changes one can fall into a request and one between two.
In the gateway a change may fall between any two steps, and two of them take a thing
away and bring it back, or fail a backend and repair it; the theorems remove the bound.  Its three image lines are an
image under two repositories and another that begins with the same digit, so that IDs and searches meet in
both ways.

**Fairness.**  Requests to backends end: each has a 30 s timeout
(`backendRequestTimeout`), so each client step is weakly fair.  A goroutine that waits for
a `sync.RWMutex` or `sync.Mutex` gets it (a waiting writer blocks new readers;
the mutex has a starvation mode), so the lock steps are strongly fair.  The
monitor's steps are bounded the same way and its ticker ticks.  `select` chooses
at random between ready cases, so a context that stays cancelled is noticed
although the ticker may win any number of times: `MonitorEnds` is strongly fair.
Starting a request, the changes of backends, signals and faults are never fair.
`Aggregation`, `NetworkSnapshot`, `NetworkConfig` and `Gateway` wait for nothing but their
own requests and have no liveness properties.

## 4. Proofs

Each proof module extends its component's module.  The theorems hold for any constants
that satisfy the named assumptions (`ConstantsAssumption`, `UniFiAssumption`,
`HealthAssumption`, `CacheAssumption`, `AggregationAssumption`, `NetworkAssumption`,
`Consistent`, `Validated`: distinct placeholders, natural bounds, maps with the right domains, names as `validate`
accepts them), and without any fairness.  Every proof module has `TypeCorrect`.

* **SynologySession_proofs** — `LoginsBounded`, `StaleHidden`,
  `RetryFresh`, `NoTrampling`, and `ImplementsRemoteCall`: the protocol refines
  `RemoteCall`.  The invariant (`IInv`) says who holds the lock, that a SID in use
  and still good is the cached one, what the cache may hold relative to the SID
  of each attempt, how often the operation has run, and that the logins are paid
  for.  None of the properties is inductive: `OneLoginPerExpiration` needs
  "if the cached SID is bad, the logins so far were already paid for", and that
  needs `UsedInv` to know that a rejected SID which is still cached is bad.
  Through the refinement `AtMostOnce` gives what a service may conclude from the answer of `Call`
  (`Truthful` of `RemoteCall`): both are relative to `resent`, the
number of times `net/http` repeated the request of the call.  `CallsAreBounded` and `NobodyBlocked` are below.
* **UniFiSession_proofs** — `LoginsBounded`, with any number of lost login answers, `StaleHidden`, `KeyMode`.  The flag says less than a
  SID, so `SecondTryInv` must carry the cookie's freshness through the retry.
  `GetsAreBounded` and `NobodyBlocked` are below.
* **BackendHealth_proofs** — `DiscoveryKept` and `GoneWasMissed`, both action properties.
  `PingInv` says what the monitor's place in its round implies: whom it is busy with, that it
  repairs only what has failed, and that a ping which did not succeed was
  missed or cancelled; only then does writing "away" mean what it says.  Three more results rest on
  `LifeInv`, the order in which `main` stops (`StopInv`) and what was wired (`WiredInv`):
  `EndsCleanly` (`CleanExit`: `main` ends after its monitor and with the right exit code),
  `ClosedByFailure` (`FailsClosed`: containers are seen only where discovery found them), and
  `FirstDiscoveryStays` (`DiscoveryIsFinal`: not even a later success replaces the first).
* **ReleaseCache_proofs** — `NoStampede`, `AnswersFresh`, `CacheMonotone`.  `refreshMu`
  gives that what a fetch brought is no older than the cache it is merged into
  (`FetchInv`): merging is then monotone, and a list's answer is bounded below by
  what it saw (`FloorInv`).  On top of that, `CheckInv` says that a forced check fetches
  every repository it has seen in use and loses none unless something fails.  `ImplementsBoard`
  is the refinement, action by action: a step of `ReleaseBoard` or a stutter (`BoardStep`).  The two steps
  that tell a request anything are the look at a valid cache and the merge (`TellRefines`), and it is `FetchInv` and
  `CacheInv` that make the merge a legal one.  `CacheMonotone` is what it says of the cache alone.
  `AnnouncedUpdates` is what remains of the claim finding 2 refutes: an announced
  release has been published, and is newer than what runs unless the container has been upgraded
  past what was known when the request came.  `RequestsAreBounded` and `NobodyBlocked` are below.
* **Aggregation_proofs** — `WorstStatus`, `HealthEarned`,
  `NothingByHalves`.  Lemmas `WorstIs` and `RecordKeepsWorst` say what `worstStatus` returns
  and that recording a set of components keeps the overall status the worst of
  all; `EarnedInv` says that as long as the report is healthy, each part was
  healthy at some time or is yet to be asked about.  `ListsComplete` rests on `DueInv`: a NAS
  that has to be in the list is in it, or its turn is yet to come, or the request has failed.
  `NothingByHalves` says that a NAS in a list has not failed, unless the list is of backup tasks: there it
  has failed if and only if one of its tasks is listed without its last result.
  `HealthCovers` is the other half of an earned report: no NAS is left out in any branch, and every
  failure has its unhealthy component (`CoversInv`: a part is told, or yet to be asked about).
* **NetworkSnapshot_proofs** — `GraphClosed`, `NobodyLost`, `NothingInvented`,
  `NothingPartial`, with any number of sites, devices and clients and any number of changes.
  The heart is `SeenInv`: because connected clients are read before the history, a
  client that has stayed known is, after the first of the two reads, among them or already
  offline, and after the second in one of the two.  Swapping the reads breaks it
  (that is the mutant).  `StatusInv` bounds every status shown by those the client had.
  `TwiceMeansLeft` says when finding 3 happens: only to a client that went offline between the
  reads, and that is not online any more unless it came back since (`HistoryInv`).
* **NetworkConfig_proofs** — `LinksGood`, `TwoEnds` and `FilterExact`, for any site, cabling
  and settings.  `Least` gets from the well-foundedness of the naturals that every set of items has a first one,
  and, as the controller's answers are finite, a last one (`FirstIs`, `LastIs`); the types of ports and links
  follow.  `ReadInv` says that what has been there since the request began is in what has been read, a client in
  one of two reads.  `CarriesIs` compares `matchesVlanID` after `buildVlanConfig` with the definition of what a
  port carries, case by case and with the guest VLANs it leaves out; `FilterExact`, which is exact but for
  those, needs `HasDefault`, a corporate network without a tag: without one, a
  port that names no native network is answered without VLANs although it carries all of them.  `FilterSound`
  needs neither `HasDefault` nor that the networks stay: no port is answered that does not carry the VLAN by what was
  read of it.
* **Gateway_proofs** — `NobodyUnauthorised` for any tokens, scopes and configurations:
  `CheckedInv` says what has been checked by the time a request has got where it is.
  `MissingIsMissing` and `IdLeadsBack` need `SimpleNames`, that no backend's name
  has a dot: the configuration does not ask for it, and finding 4 is what happens without it.
  `IdInv` says that the ID is that of the thing asked for, or of nothing; `PartsOfId` that
  the split at the first dot then gives back the backend and what follows it, whatever dots are in
  that; `KeptInv` that what has been there all the time is there now, on a capable backend;
  `CallInv` how far the calls have got.  `AskedMatches` joins them: what the service finds is what was asked for, or for an image a line with
  the ID that was asked for, which is where the assumption on digests (one that begins with the twelve digits of another
  has the same twelve) comes in; `BeginningMatches` is the same for a few digits, which are no list's ID.
  `NoRefusalWithoutReason` is the converse of `NobodyUnauthorised` and needs no assumption on names: 401, 403 and
  500 are earned, and no device is called but the one the ID names.

**The safety half of liveness.**  That a call returns needs fairness, and stays with TLC.
What it rests on does not: for the two sessions and the cache it is proved, for any
number of goroutines, that a request has a measure every step of its own decreases and nobody
else's step increases (`StepsRunOut`: at most twelve steps of a call; six, and one per device and
repository, of an update request, for finite sets of them), and that while a request is under way some
goroutine is not waiting for a lock (`SomebodyMoves`).  So there is neither a retry
loop nor a deadlock, and what the fairness adds is only that goroutines which can move do.  `Moves` is written out
without ENABLED, which the prover has no rules for.

Only model-checked: liveness (`CallsReturn`, `GetsReturn`, `RequestsReturn`,
`ReleaseSeen`, `Stops`, `OutageDetected`, `RecoveryDetected`; temporal reasoning under fairness
is out of the prover's reach).

## 5. Findings

1. `health_snapshot`: `DockerEnabled` is copied at wiring; a NAS whose discovery is
   repaired later stays without containers in the health report and the updates.
2. `cache_newer`: "differs from the cached release" is reported as an update, so a
   container newer than the cache is offered an older version.
3. `network_claim`: the topology does not look for a client it has already; one that
   disconnects between the two reads appears twice.
4. `gateway_dots`: an ID is split at its first dot, and `validate` accepts backends with dots in their
   names; every ID handed out for the things of such a backend is answered with 404.

Two things that are not runs, as no line of the repository says otherwise, but that the models show:

* The VLAN filter overlooks a guest VLAN on a trunk that excludes another network, and finds it on
  one that excludes none (`Overlooked` in `NetworkConfig`).
* An image that is listed under two repositories has one ID for both lines, and its detail is that of
  whichever comes first (`LeadsToAsked` in `Gateway`).

## 6. Not modelled

* Image references and version tags (`splitImageTag`, `normalizeVersion` and the source
  table): pure functions on strings, on which only the key of the release cache depends.
* How `toKebab` and `clientSuffix` make an ID of a name; the models take any IDs, equal ones included.
* Formats: JSON mapping, problem responses, log lines, numbers of info and
  utilization, link speeds, PoE, link aggregation, traffic, the live fields of a WAN, subnets and
  DHCP, security protocols and bands of an SSID, filters of the ports other than by VLAN.
* Signature and key handling of tokens (`jwt`, JWKS refresh): a token is signed or it is not.
* Dex proxy, configuration parsing, meta endpoints, TLS settings, generated API code, test
  server and test helpers: no behaviour over time, or none of this repository's own.
* The Go scheduler's memory model: every shared field of these components is
  accessed under its mutex, which is why critical sections are single steps.

## 7. Plan

Done, in this order: the sessions with their abstract specification and proofs;
discovery, monitor and lifecycle; the release cache with proofs; the lists and
the health report with proofs; the network answers; the network details, ports and VLANs;
the way of a request through the middleware to its backend; the proofs of the monitor, of the
network answers and details, and of the gateway; `ReleaseBoard` and its refinement; what is proved beyond the
runs: bounded requests, absence of deadlock, and the conditional forms of what the findings refute.  Every
invariant, action property and refinement of a run is proved.

Next:

1. The measures above for `Aggregation`, `NetworkSnapshot`, `NetworkConfig` and `Gateway`, whose requests
   end after finitely many reads; `NotFoundEarned` without `SimpleNames` for backends whose own name has no dot.
2. `ImageRef`: image references as short sequences of tokens, against a reference
   grammar, and the source table by host in `ReleaseCache`.
3. The filters of the port list (`matchesFilter`) and the port settings that follow from link
   aggregation.
4. `Gateway` over several requests and `RemoteCall`, so that the retry of an
   operation is inside the request it belongs to.
