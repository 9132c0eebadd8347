---------------------------- MODULE BackendHealth ----------------------------
(***************************************************************************)
(* What the process believes about its backends: API discovery of each NAS *)
(* (adapters/synology.go), the health monitor that pings every backend and *)
(* repairs a failed discovery (health/monitor.go), and the main function   *)
(* that runs discovery, starts the monitor, wires the services and takes   *)
(* them all down again (cmd/server).                                       *)
(*                                                                         *)
(* The lifecycle is a sequence of phases; the monitor is one goroutine     *)
(* that pings the backends of a round one after the other.                 *)
(***************************************************************************)
EXTENDS Naturals

CONSTANTS
    Nas,          \* Synology backends
    UniFi,        \* UniFi backends: pinged, nothing to discover
    NoOne,        \* value of target between two pings
    MaxFlips      \* bound: changes of reachability, and of installed packages

ASSUME HealthAssumption ==
    /\ NoOne \notin Nas \cup UniFi /\ Nas \cap UniFi = {}
    /\ MaxFlips \in Nat

Backends == Nas \cup UniFi

VARIABLES
    up,             \* environment: the backend can be reached
    installed,      \* environment: the NAS has the container package
    flips,          \* changes of the environment so far
    supported,      \* c.supportedAPIs: "nil", "with" or "without" containers
    failed,         \* c.discoveryFailed
    available,      \* Monitor.available
    dockerEnabled,  \* DSMBackendConfig.DockerEnabled: "unset" until wired
    mpc, todo,      \* the monitor goroutine, and whom it has yet to ping this round
    target, seenUp, \* the backend being pinged, and whether the ping reached it
    pingOK,         \* err = nil of that ping
    phase,          \* main
    signalled,      \* SIGTERM or SIGINT was received
    stopped,        \* the context of the monitor is cancelled
    serverFailed,   \* ListenAndServe returned an error of its own
    busy,           \* a request is being served
    exitCode

envVars == <<up, installed, flips>>
clientVars == <<supported, failed>>
monitorVars == <<available, mpc, todo, target, seenUp, pingOK>>
mainVars == <<dockerEnabled, phase, signalled, stopped, serverFailed, busy, exitCode>>
vars == <<envVars, clientVars, monitorVars, mainVars>>

TypeOK ==
    /\ up \in [Backends -> BOOLEAN] /\ installed \in [Nas -> BOOLEAN] /\ flips \in 0..MaxFlips
    /\ supported \in [Nas -> {"nil", "with", "without"}]
    /\ failed \in [Nas -> BOOLEAN]
    /\ available \in [Backends -> BOOLEAN]
    /\ dockerEnabled \in [Nas -> {"unset", "yes", "no"}]
    /\ mpc \in {"off", "next", "pinging", "rediscover", "store", "waiting", "done"}
    /\ todo \in SUBSET Backends /\ target \in Backends \cup {NoOne}
    /\ seenUp \in BOOLEAN /\ pingOK \in BOOLEAN
    /\ phase \in {"discovering", "wiring", "serving", "draining", "joining", "exited"}
    /\ signalled \in BOOLEAN /\ stopped \in BOOLEAN /\ serverFailed \in BOOLEAN
    /\ busy \in BOOLEAN /\ exitCode \in {0, 1}

Init ==
    /\ up \in [Backends -> BOOLEAN] /\ installed \in [Nas -> BOOLEAN] /\ flips = 0
    /\ supported = [n \in Nas |-> "nil"] /\ failed = [n \in Nas |-> FALSE]
    /\ available = [b \in Backends |-> TRUE]
    /\ dockerEnabled = [n \in Nas |-> "unset"]
    /\ mpc = "off" /\ todo = {} /\ target = NoOne /\ seenUp = TRUE /\ pingOK = TRUE
    /\ phase = "discovering"
    /\ signalled = FALSE /\ stopped = FALSE /\ serverFailed = FALSE
    /\ busy = FALSE /\ exitCode = 0

-----------------------------------------------------------------------------
(* API discovery. *)

\* SupportsAPI(container API): closed after a failure, open before any attempt.
AssumeSupported(n) == supported[n] # "without"   \* broken: a failure is not looked at
SupportsContainers(n) == ~failed[n] /\ supported[n] # "without"

\* Broken: a failed attempt leaves an empty catalogue behind.
FailWithEmpty(n) ==
    failed' = [failed EXCEPT ![n] = TRUE] /\ supported' = [supported EXCEPT ![n] = "empty"]
FailDiscovery(n) == failed' = [failed EXCEPT ![n] = TRUE] /\ UNCHANGED supported

\* DiscoverAPIs succeeds: the catalogue is cached and the failure forgotten.
Discovered(n) ==
    /\ supported' = [supported EXCEPT ![n] = IF installed[n] THEN "with" ELSE "without"]
    /\ failed' = [failed EXCEPT ![n] = FALSE]

\* discoverAPIs in main: every NAS is asked once, before anything else runs.
DiscoverAtStartup(n) ==
    /\ phase = "discovering" /\ supported[n] = "nil" /\ ~failed[n]
    /\ IF up[n] THEN Discovered(n) ELSE FailDiscovery(n)
    /\ UNCHANGED <<envVars, monitorVars, mainVars>>

DiscoveryOver == \A n \in Nas : supported[n] # "nil" \/ failed[n]

-----------------------------------------------------------------------------
(* The monitor goroutine. *)

\* NewMonitor and Start: main goes on wiring while the first round runs.
StartMonitor ==
    /\ phase = "discovering" /\ DiscoveryOver
    /\ phase' = "wiring" /\ mpc' = "next" /\ todo' = Backends
    /\ UNCHANGED <<envVars, clientVars, available, target, seenUp, pingOK, dockerEnabled,
                   signalled, stopped, serverFailed, busy, exitCode>>

\* probe: the next backend of the round (map order), or the end of the round.
NextBackend ==
    /\ mpc = "next"
    /\ \/ \E b \in todo : target' = b /\ todo' = todo \ {b} /\ mpc' = "pinging"
       \/ todo = {} /\ mpc' = "waiting" /\ target' = NoOne /\ UNCHANGED todo
    /\ UNCHANGED <<envVars, clientVars, available, seenUp, pingOK, mainVars>>

NoRetry(b) == FALSE            \* broken: Ping forgets about discovery
RetryAlways(b) == b \in Nas    \* broken: Ping repeats a discovery that succeeded
RetryDiscovery(b) == b \in Nas /\ failed[b]

\* Ping: the unauthenticated request.  It fails when the backend is down and
\* when the context of the monitor is cancelled.
Ping ==
    /\ mpc = "pinging"
    /\ seenUp' = up[target]
    /\ pingOK' = (up[target] /\ ~stopped)
    /\ mpc' = IF pingOK' /\ RetryDiscovery(target) THEN "rediscover" ELSE "store"
    /\ UNCHANGED <<envVars, clientVars, available, todo, target, mainVars>>

PingReturnsDiscovery(ok) == pingOK' = ok       \* broken: its error decides the ping
\* The outcome of the repeated discovery is dropped: "_ = c.DiscoverAPIs(ctx)".
PingIgnoresDiscovery(ok) == UNCHANGED pingOK

Rediscover ==
    /\ mpc = "rediscover" /\ mpc' = "store"
    /\ LET ok == up[target] /\ ~stopped
       IN  /\ IF ok THEN Discovered(target) ELSE FailDiscovery(target)
           /\ PingIgnoresDiscovery(ok)
    /\ UNCHANGED <<envVars, available, todo, target, seenUp, mainVars>>

StoreOnlyUp == available' = [available EXCEPT ![target] = @ \/ pingOK]   \* broken
StoreResult == available' = [available EXCEPT ![target] = pingOK]

Store ==
    /\ mpc = "store" /\ mpc' = "next"
    /\ StoreResult
    /\ UNCHANGED <<envVars, clientVars, todo, target, seenUp, pingOK, mainVars>>

\* Start's select: the ticker and the cancelled context race for the turn.
Tick ==
    /\ mpc = "waiting" /\ mpc' = "next" /\ todo' = Backends
    /\ UNCHANGED <<envVars, clientVars, available, target, seenUp, pingOK, mainVars>>

MonitorEnds ==
    /\ mpc = "waiting" /\ stopped /\ mpc' = "done"
    /\ UNCHANGED <<envVars, clientVars, available, todo, target, seenUp, pingOK, mainVars>>

-----------------------------------------------------------------------------
(* main. *)

\* Wiring: the system service gets a copy of SupportsContainers of each NAS.
Wire(n) ==
    /\ phase = "wiring" /\ dockerEnabled[n] = "unset"
    /\ dockerEnabled' = [dockerEnabled EXCEPT ![n] = IF SupportsContainers(n) THEN "yes" ELSE "no"]
    /\ UNCHANGED <<envVars, clientVars, monitorVars, phase, signalled, stopped, serverFailed,
                   busy, exitCode>>

Serve ==
    /\ phase = "wiring" /\ \A n \in Nas : dockerEnabled[n] # "unset"
    /\ phase' = "serving"
    /\ UNCHANGED <<envVars, clientVars, monitorVars, dockerEnabled, signalled, stopped,
                   serverFailed, busy, exitCode>>

\* A signal cancels the context that main and the monitor share.
Signal ==
    /\ phase \in {"wiring", "serving"} /\ ~signalled
    /\ signalled' = TRUE /\ stopped' = TRUE
    /\ UNCHANGED <<envVars, clientVars, monitorVars, dockerEnabled, phase, serverFailed, busy,
                   exitCode>>

ServerFails ==
    /\ phase = "serving" /\ ~serverFailed /\ serverFailed' = TRUE
    /\ UNCHANGED <<envVars, clientVars, monitorVars, dockerEnabled, phase, signalled, stopped,
                   busy, exitCode>>

Request ==
    /\ phase = "serving" /\ ~serverFailed /\ ~busy /\ busy' = TRUE
    /\ UNCHANGED <<envVars, clientVars, monitorVars, dockerEnabled, phase, signalled, stopped,
                   serverFailed, exitCode>>

Respond ==
    /\ busy /\ busy' = FALSE
    /\ UNCHANGED <<envVars, clientVars, monitorVars, dockerEnabled, phase, signalled, stopped,
                   serverFailed, exitCode>>

\* main's select: whichever of the two channels is ready, at random if both are.
LeaveSelect ==
    /\ phase = "serving" /\ phase' = "draining"
    /\ \/ signalled /\ UNCHANGED exitCode
       \/ serverFailed /\ exitCode' = 1
    /\ UNCHANGED <<envVars, clientVars, monitorVars, dockerEnabled, signalled, stopped,
                   serverFailed, busy>>

\* server.Shutdown has drained the requests or its 10 s are over; stop().
Shutdown ==
    /\ phase = "draining" /\ phase' = "joining"
    /\ stopped' = TRUE
    /\ UNCHANGED <<envVars, clientVars, monitorVars, dockerEnabled, signalled, serverFailed,
                   busy, exitCode>>

NoWait == TRUE                 \* broken: main does not wait for the monitor
MonitorJoined == mpc = "done"

Exit ==
    /\ phase = "joining" /\ MonitorJoined
    /\ phase' = "exited" /\ busy' = FALSE
    /\ UNCHANGED <<envVars, clientVars, monitorVars, dockerEnabled, signalled, stopped,
                   serverFailed, exitCode>>

\* A reachable backend goes away or comes back; a package is added or removed.
Flip(b) ==
    /\ phase # "exited" /\ flips < MaxFlips /\ flips' = flips + 1
    /\ \/ up' = [up EXCEPT ![b] = ~@] /\ UNCHANGED installed
       \/ b \in Nas /\ installed' = [installed EXCEPT ![b] = ~@] /\ UNCHANGED up
    /\ UNCHANGED <<clientVars, monitorVars, mainVars>>

\* Nothing runs in a process that has exited.
Terminated == phase = "exited" /\ UNCHANGED vars

MonitorStep == NextBackend \/ Ping \/ Rediscover \/ Store
MainStep == StartMonitor \/ Serve \/ LeaveSelect \/ Shutdown \/ Exit
Running == phase # "exited"

Next ==
    \/ Running /\ (MonitorStep \/ Tick \/ MonitorEnds)
    \/ MainStep
    \/ \E n \in Nas : DiscoverAtStartup(n) \/ Wire(n)
    \/ Signal \/ ServerFails \/ Request \/ Respond
    \/ \E b \in Backends : Flip(b)
    \/ Terminated

Spec == Init /\ [][Next]_vars

\* Pings, discovery and Shutdown are bounded by timeouts and the ticker ticks.
\* select chooses at random, so a context that stays cancelled is noticed.
Fairness ==
    /\ WF_vars(Running /\ MonitorStep) /\ WF_vars(Running /\ Tick)
    /\ SF_vars(Running /\ MonitorEnds)
    /\ WF_vars(MainStep)
    /\ \A n \in Nas : WF_vars(DiscoverAtStartup(n)) /\ WF_vars(Wire(n))
FairSpec == Spec /\ Fairness

-----------------------------------------------------------------------------
(* Properties. *)

\* A NAS that goes away keeps the capabilities it was seen to have, so that its
\* containers become unreachable rather than unknown (404): a discovery that
\* has succeeded is never downgraded by a later ping.
CapabilitiesRetained ==
    [][\A n \in Nas : supported[n] # "nil" /\ ~failed[n] => ~failed'[n] /\ supported'[n] # "nil"]_vars

\* While the process is not being stopped, the monitor reports a backend as gone
\* only if a ping did not reach it.
OfflineMeansMissed ==
    [][\A b \in Backends : available[b] /\ ~available'[b] => ~seenUp \/ stopped]_vars

\* A stop request or a server failure ends the process, whatever the monitor
\* and the requests in flight are doing; by then the monitor has ended, and
\* success is reported only if somebody asked for the stop.
Stops ==
    (phase = "serving" /\ (signalled \/ serverFailed))
        ~> (phase = "exited" /\ mpc = "done" /\ (signalled \/ exitCode = 1))

\* A backend that stays down is marked unavailable for good.
OutageDetected ==
    \A b \in Backends : <>[](~up[b] /\ mpc # "off" /\ ~stopped) => <>[]~available[b]

\* A backend that comes back is available again, and its failed discovery is repaired.
RecoveryDetected ==
    \A b \in Backends :
        <>[](up[b] /\ mpc # "off" /\ ~stopped) => <>[](available[b] /\ (b \in Nas => ~failed[b]))

\* What the comments promise of a failed discovery: once the NAS is back, Ping
\* repairs it, and the services see its containers again.
CapabilityRecovers ==
    \A n \in Nas :
        <>[](up[n] /\ installed[n] /\ phase = "serving" /\ ~stopped /\ SupportsContainers(n))
            => <>[](dockerEnabled[n] = "yes")
=============================================================================
