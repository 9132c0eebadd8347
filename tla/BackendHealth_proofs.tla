------------------------ MODULE BackendHealth_proofs ------------------------
(***************************************************************************)
(* Proofs about BackendHealth, for any backends: its type invariant, that  *)
(* what discovery has found is kept, and that a backend is reported as     *)
(* gone only when a ping missed it or the process is being stopped.        *)
(***************************************************************************)
EXTENDS BackendHealth, TLAPS

-----------------------------------------------------------------------------
(* Helpers that write the state of one NAS. *)

LEMMA DiscoveredTypes ==
  ASSUME TypeOK, NEW n \in Nas, Discovered(n)
  PROVE  /\ supported' \in [Nas -> {"nil", "with", "without"}]
         /\ failed' \in [Nas -> BOOLEAN]
  BY DEF TypeOK, Discovered

LEMMA FailDiscoveryTypes ==
  ASSUME TypeOK, NEW n \in Nas, FailDiscovery(n)
  PROVE  /\ supported' \in [Nas -> {"nil", "with", "without"}]
         /\ failed' \in [Nas -> BOOLEAN]
  BY DEF TypeOK, FailDiscovery

-----------------------------------------------------------------------------
(* The inductive invariant: types, and what target and pingOK mean. *)

\* Whom the monitor is busy with, and what the last ping has shown.
PingInv ==
    /\ phase = "discovering" => mpc = "off"
    /\ mpc \in {"pinging", "rediscover", "store"} => target \in Backends
    /\ mpc = "rediscover" => target \in Nas /\ failed[target]
    /\ mpc \in {"rediscover", "store"} /\ ~pingOK => ~seenUp \/ stopped

IInv == TypeOK /\ PingInv

LEMMA InitIInv == Init => IInv
<1> SUFFICES ASSUME Init PROVE IInv
  OBVIOUS
<1>1. 0 \in 0..MaxFlips
  BY HealthAssumption
<1>2. TypeOK
  BY <1>1 DEF Init, TypeOK
<1>3. PingInv
  BY DEF Init, PingInv
<1>. QED
  BY <1>2, <1>3 DEF IInv

\* Between two rounds, and outside the monitor, nobody writes its variables.
LEMMA MainPreserves ==
  ASSUME IInv,
         Serve \/ LeaveSelect \/ Shutdown \/ Exit \/ Signal \/ ServerFails \/ Request \/ Respond
  PROVE  IInv'
<1> USE DEF IInv
<1>1. UNCHANGED <<envVars, clientVars, monitorVars, dockerEnabled>>
  BY DEF Serve, LeaveSelect, Shutdown, Exit, Signal, ServerFails, Request, Respond
<1>2. /\ phase' \in {"discovering", "wiring", "serving", "draining", "joining", "exited"}
      /\ signalled' \in BOOLEAN /\ stopped' \in BOOLEAN /\ serverFailed' \in BOOLEAN
      /\ busy' \in BOOLEAN /\ exitCode' \in {0, 1}
      /\ phase' = "discovering" => phase = "discovering"
      /\ stopped => stopped'
  BY Zenon DEF TypeOK, Serve, LeaveSelect, Shutdown, Exit, Signal, ServerFails, Request, Respond
<1>3. TypeOK'
  BY <1>1, <1>2 DEF TypeOK, envVars, clientVars, monitorVars
<1>4. PingInv'
  BY <1>1, <1>2 DEF PingInv, envVars, clientVars, monitorVars
<1>. QED
  BY <1>3, <1>4

LEMMA WirePreserves ==
  ASSUME IInv, NEW n \in Nas, Wire(n) PROVE IInv'
<1> USE DEF IInv
<1>1. TypeOK'
  <2>1. dockerEnabled' \in [Nas -> {"unset", "yes", "no"}]
    BY DEF TypeOK, Wire
  <2>. QED
    BY <2>1 DEF TypeOK, Wire, envVars, clientVars, monitorVars
<1>2. PingInv'
  BY DEF PingInv, Wire, clientVars, monitorVars
<1>. QED
  BY <1>1, <1>2

LEMMA DiscoverAtStartupPreserves ==
  ASSUME IInv, NEW n \in Nas, DiscoverAtStartup(n) PROVE IInv'
<1> USE DEF IInv
<1>1. Discovered(n) \/ FailDiscovery(n)
  BY DEF DiscoverAtStartup
<1>2. TypeOK'
  <2>1. supported' \in [Nas -> {"nil", "with", "without"}] /\ failed' \in [Nas -> BOOLEAN]
    BY <1>1, DiscoveredTypes, FailDiscoveryTypes
  <2>. QED
    BY <2>1 DEF TypeOK, DiscoverAtStartup, envVars, monitorVars, mainVars
<1>3. PingInv'
  BY DEF PingInv, DiscoverAtStartup, monitorVars, mainVars
<1>. QED
  BY <1>2, <1>3

LEMMA FlipPreserves ==
  ASSUME IInv, NEW b \in Backends, Flip(b) PROVE IInv'
<1> USE DEF IInv
<1>1. TypeOK'
  <2>1. flips' \in 0..MaxFlips
    BY HealthAssumption DEF TypeOK, Flip
  <2>2. up' \in [Backends -> BOOLEAN] /\ installed' \in [Nas -> BOOLEAN]
    BY DEF TypeOK, Flip
  <2>. QED
    BY <2>1, <2>2 DEF TypeOK, Flip, clientVars, monitorVars, mainVars
<1>2. PingInv'
  BY DEF PingInv, Flip, clientVars, monitorVars, mainVars
<1>. QED
  BY <1>1, <1>2

\* The first round starts when discovery is over.
LEMMA StartMonitorPreserves ==
  ASSUME IInv, StartMonitor PROVE IInv'
<1> USE DEF IInv
<1>1. TypeOK'
  BY DEF TypeOK, StartMonitor, envVars, clientVars
<1>2. PingInv'
  BY DEF PingInv, StartMonitor
<1>. QED
  BY <1>1, <1>2

LEMMA NextBackendPreserves ==
  ASSUME IInv, NextBackend PROVE IInv'
<1> USE DEF IInv
<1>1. CASE todo = {} /\ mpc' = "waiting" /\ target' = NoOne /\ UNCHANGED todo
  <2>1. TypeOK'
    BY <1>1 DEF TypeOK, NextBackend, envVars, clientVars, mainVars
  <2>2. PingInv'
    BY <1>1 DEF PingInv, NextBackend, mainVars
  <2>. QED
    BY <2>1, <2>2
<1>2. ASSUME NEW b \in todo, target' = b, todo' = todo \ {b}, mpc' = "pinging"
      PROVE  IInv'
  <2>1. b \in Backends /\ todo' \in SUBSET Backends
    BY <1>2 DEF TypeOK
  <2>2. TypeOK'
    BY <1>2, <2>1 DEF TypeOK, NextBackend, envVars, clientVars, mainVars
  <2>3. PingInv'
    BY <1>2, <2>1 DEF PingInv, NextBackend, mainVars
  <2>. QED
    BY <2>2, <2>3
<1>. QED
  BY <1>1, <1>2 DEF NextBackend

LEMMA PingPreserves ==
  ASSUME IInv, Ping PROVE IInv'
<1> USE DEF IInv
<1>1. target \in Backends /\ seenUp' = up[target] /\ mpc' \in {"rediscover", "store"}
  BY DEF Ping, PingInv
<1>2. seenUp' \in BOOLEAN /\ pingOK' \in BOOLEAN
  BY <1>1 DEF Ping, TypeOK
<1>3. TypeOK'
  BY <1>1, <1>2 DEF TypeOK, Ping, envVars, clientVars, mainVars
<1>4. mpc' = "rediscover" => target \in Nas /\ failed[target]
  BY DEF Ping, RetryDiscovery
<1>5. ~pingOK' => ~seenUp' \/ stopped
  BY DEF Ping
<1>6. PingInv'
  BY <1>1, <1>4, <1>5 DEF PingInv, Ping, clientVars, mainVars
<1>. QED
  BY <1>3, <1>6

\* Ping repairs a failed discovery; its own result stands.
LEMMA RediscoverPreserves ==
  ASSUME IInv, Rediscover PROVE IInv'
<1> USE DEF IInv
<1>1. target \in Nas
  BY DEF Rediscover, PingInv
<1>2. Discovered(target) \/ FailDiscovery(target)
  BY DEF Rediscover
<1>3. supported' \in [Nas -> {"nil", "with", "without"}] /\ failed' \in [Nas -> BOOLEAN]
  BY <1>1, <1>2, DiscoveredTypes, FailDiscoveryTypes
<1>4. TypeOK'
  BY <1>3 DEF TypeOK, Rediscover, PingIgnoresDiscovery, envVars, mainVars
<1>5. PingInv'
  BY DEF PingInv, Rediscover, PingIgnoresDiscovery, mainVars
<1>. QED
  BY <1>4, <1>5

LEMMA StorePreserves ==
  ASSUME IInv, Store PROVE IInv'
<1> USE DEF IInv
<1>1. available' \in [Backends -> BOOLEAN]
  BY DEF TypeOK, Store, StoreResult
<1>2. TypeOK'
  BY <1>1 DEF TypeOK, Store, envVars, clientVars, mainVars
<1>3. PingInv'
  BY DEF PingInv, Store, mainVars
<1>. QED
  BY <1>2, <1>3

LEMMA WaitingPreserves ==
  ASSUME IInv, Tick \/ MonitorEnds PROVE IInv'
<1> USE DEF IInv
<1>1. TypeOK'
  BY DEF TypeOK, Tick, MonitorEnds, envVars, clientVars, mainVars
<1>2. PingInv'
  BY DEF PingInv, Tick, MonitorEnds, mainVars
<1>. QED
  BY <1>1, <1>2

LEMMA StepIInv == IInv /\ [Next]_vars => IInv'
<1> SUFFICES ASSUME IInv, [Next]_vars PROVE IInv'
  OBVIOUS
<1>1. CASE StartMonitor \/ NextBackend \/ Ping \/ Rediscover \/ Store \/ Tick \/ MonitorEnds
  BY <1>1, StartMonitorPreserves, NextBackendPreserves, PingPreserves, RediscoverPreserves,
     StorePreserves, WaitingPreserves
<1>2. CASE \E n \in Nas : DiscoverAtStartup(n) \/ Wire(n)
  BY <1>2, DiscoverAtStartupPreserves, WirePreserves
<1>3. CASE \E b \in Backends : Flip(b)
  BY <1>3, FlipPreserves
<1>4. CASE UNCHANGED vars
  BY <1>4 DEF IInv, TypeOK, PingInv, vars, envVars, clientVars, monitorVars, mainVars
<1>. QED
  BY <1>1, <1>2, <1>3, <1>4, MainPreserves DEF Next, MonitorStep, MainStep, Terminated

\* Types, and that a ping that failed has missed its backend or was cancelled.
THEOREM Inductive == Spec => []IInv
  BY InitIInv, StepIInv, PTL DEF Spec

\* Every variable keeps its type, for any backends.
THEOREM TypeCorrect == Spec => []TypeOK
<1>1. IInv => TypeOK
  BY DEF IInv
<1>. QED
  BY <1>1, Inductive, PTL

-----------------------------------------------------------------------------
(* What a step may never do. *)

\* The two steps that write what discovery has found, leave a success alone.
LEMMA StepKeepsCapabilities ==
  ASSUME IInv, [Next]_vars, NEW n \in Nas, supported[n] # "nil", ~failed[n]
  PROVE  ~failed'[n] /\ supported'[n] # "nil"
<1>1. CASE UNCHANGED clientVars
  BY <1>1 DEF clientVars
<1>2. ASSUME NEW m \in Nas, DiscoverAtStartup(m) PROVE ~failed'[n] /\ supported'[n] # "nil"
  <2>1. m # n
    BY <1>2 DEF DiscoverAtStartup
  <2>2. Discovered(m) \/ FailDiscovery(m)
    BY <1>2 DEF DiscoverAtStartup
  <2>. QED
    BY <2>1, <2>2 DEF Discovered, FailDiscovery, IInv, TypeOK
<1>3. CASE Rediscover
  <2>1. target # n
    BY <1>3 DEF Rediscover, IInv, PingInv
  <2>2. Discovered(target) \/ FailDiscovery(target)
    BY <1>3 DEF Rediscover
  <2>. QED
    BY <2>1, <2>2 DEF Discovered, FailDiscovery, IInv, TypeOK
<1>4. UNCHANGED clientVars \/ Rediscover \/ \E m \in Nas : DiscoverAtStartup(m)
  BY DEF Next, MonitorStep, MainStep, StartMonitor, NextBackend, Ping, Store, Tick, MonitorEnds,
     Wire, Serve, LeaveSelect, Shutdown, Exit, Signal, ServerFails, Request, Respond, Flip,
     Terminated, vars
<1>. QED
  BY <1>1, <1>2, <1>3, <1>4

\* SupportsAPI never goes back on a discovery that has succeeded.
THEOREM DiscoveryKept == Spec => CapabilitiesRetained
<1>1. IInv /\ [Next]_vars =>
        [\A n \in Nas : supported[n] # "nil" /\ ~failed[n] => ~failed'[n] /\ supported'[n] # "nil"]_vars
  BY StepKeepsCapabilities
<1>. QED
  BY <1>1, Inductive, PTL DEF Spec, CapabilitiesRetained

\* Only Store writes the map that Available reads.
LEMMA StepReportsMisses ==
  ASSUME IInv, [Next]_vars, NEW b \in Backends, available[b], ~available'[b]
  PROVE  ~seenUp \/ stopped
<1>1. UNCHANGED available \/ Store
  BY DEF Next, MonitorStep, MainStep, StartMonitor, NextBackend, Ping, Rediscover, Tick,
     MonitorEnds, DiscoverAtStartup, Wire, Serve, LeaveSelect, Shutdown, Exit, Signal,
     ServerFails, Request, Respond, Flip, Terminated, vars, monitorVars
<1>2. Store
  BY <1>1
<1>3. ~pingOK
  BY <1>2 DEF Store, StoreResult, IInv, TypeOK
<1>. QED
  BY <1>2, <1>3 DEF Store, IInv, PingInv

\* The monitor never reports as gone a backend that its ping has reached, unless
\* the process is being stopped.
THEOREM GoneWasMissed == Spec => OfflineMeansMissed
<1>1. IInv /\ [Next]_vars =>
        [\A b \in Backends : available[b] /\ ~available'[b] => ~seenUp \/ stopped]_vars
  BY StepReportsMisses
<1>. QED
  BY <1>1, Inductive, PTL DEF Spec, OfflineMeansMissed

-----------------------------------------------------------------------------
(* The lifecycle. *)

Leaving == {"draining", "joining", "exited"}

\* Who has asked for the stop, and that the monitor has heard of it.
StopInv ==
    /\ signalled => stopped
    /\ exitCode = 1 => serverFailed
    /\ phase \in Leaving => signalled \/ exitCode = 1
    /\ phase \in {"joining", "exited"} => stopped
    /\ mpc = "done" => stopped
    /\ phase = "exited" => mpc = "done" /\ ~busy
    /\ busy => phase \in {"serving"} \cup Leaving

\* Nothing is wired before discovery is over, and only what discovery has found.
WiredInv ==
    /\ phase # "discovering" => \A n \in Nas : supported[n] # "nil" \/ failed[n]
    /\ \A n \in Nas : phase = "discovering" => dockerEnabled[n] = "unset"
    /\ \A n \in Nas : dockerEnabled[n] = "yes" => supported[n] = "with" /\ ~failed[n]

LifeInv == StopInv /\ WiredInv

LEMMA InitLifeInv == Init => LifeInv
  BY DEF Init, LifeInv, StopInv, WiredInv, Leaving

\* A discovery that has succeeded is not touched any more, by whatever step.
LEMMA StepFreezes ==
  ASSUME IInv, [Next]_vars, NEW n \in Nas, supported[n] # "nil", ~failed[n]
  PROVE  supported'[n] = supported[n] /\ failed'[n] = failed[n]
<1>1. CASE UNCHANGED clientVars
  BY <1>1 DEF clientVars
<1>2. ASSUME NEW m \in Nas, m # n, Discovered(m) \/ FailDiscovery(m)
      PROVE  supported'[n] = supported[n] /\ failed'[n] = failed[n]
  BY <1>2 DEF Discovered, FailDiscovery, IInv, TypeOK
<1>3. UNCHANGED clientVars \/ Rediscover \/ \E m \in Nas : DiscoverAtStartup(m)
  BY DEF Next, MonitorStep, MainStep, StartMonitor, NextBackend, Ping, Store, Tick, MonitorEnds,
     Wire, Serve, LeaveSelect, Shutdown, Exit, Signal, ServerFails, Request, Respond, Flip,
     Terminated, vars
<1>4. CASE Rediscover
  BY <1>2, <1>4 DEF Rediscover, IInv, PingInv
<1>5. ASSUME NEW m \in Nas, DiscoverAtStartup(m)
      PROVE  supported'[n] = supported[n] /\ failed'[n] = failed[n]
  BY <1>2, <1>5 DEF DiscoverAtStartup
<1>. QED
  BY <1>1, <1>3, <1>4, <1>5

\* A NAS that has been asked stays asked, whatever the answer was.
LEMMA StepKeepsAsked ==
  ASSUME IInv, [Next]_vars, NEW n \in Nas, supported[n] # "nil" \/ failed[n]
  PROVE  supported'[n] # "nil" \/ failed'[n]
<1>1. CASE ~failed[n]
  BY <1>1, StepFreezes
<1>2. ASSUME failed[n], NEW m \in Nas, Discovered(m) \/ FailDiscovery(m)
      PROVE  supported'[n] # "nil" \/ failed'[n]
  BY <1>2 DEF Discovered, FailDiscovery, IInv, TypeOK
<1>3. UNCHANGED clientVars \/ Rediscover \/ \E m \in Nas : DiscoverAtStartup(m)
  BY DEF Next, MonitorStep, MainStep, StartMonitor, NextBackend, Ping, Store, Tick, MonitorEnds,
     Wire, Serve, LeaveSelect, Shutdown, Exit, Signal, ServerFails, Request, Respond, Flip,
     Terminated, vars
<1>. QED
  BY <1>1, <1>2, <1>3 DEF clientVars, Rediscover, DiscoverAtStartup, IInv, PingInv

LEMMA StepStopInv == IInv /\ LifeInv /\ [Next]_vars => StopInv'
<1> SUFFICES ASSUME IInv, StopInv, [Next]_vars PROVE StopInv'
  BY DEF LifeInv
<1> USE DEF StopInv, Leaving
<1>1. CASE StartMonitor \/ Serve
  BY <1>1 DEF StartMonitor, Serve, monitorVars
<1>2. CASE LeaveSelect
  BY <1>2 DEF LeaveSelect, monitorVars
<1>3. CASE Shutdown \/ Exit
  BY <1>3 DEF Shutdown, Exit, MonitorJoined, monitorVars
<1>4. CASE Signal \/ ServerFails \/ Request \/ Respond
  BY <1>4 DEF Signal, ServerFails, Request, Respond, monitorVars
<1>5. CASE Running /\ (MonitorStep \/ Tick \/ MonitorEnds)
  BY <1>5 DEF Running, MonitorStep, NextBackend, Ping, Rediscover, Store, Tick, MonitorEnds, mainVars
<1>6. CASE \E n \in Nas : DiscoverAtStartup(n) \/ Wire(n)
  BY <1>6 DEF DiscoverAtStartup, Wire, monitorVars, mainVars
<1>7. CASE (\E b \in Backends : Flip(b)) \/ UNCHANGED vars
  BY <1>7 DEF Flip, vars, monitorVars, mainVars
<1>. QED
  BY <1>1, <1>2, <1>3, <1>4, <1>5, <1>6, <1>7 DEF Next, MainStep, Terminated

LEMMA StepWiredInv == IInv /\ LifeInv /\ [Next]_vars => WiredInv'
<1> SUFFICES ASSUME IInv, WiredInv, [Next]_vars, NEW n \in Nas
             PROVE  /\ phase' # "discovering" => supported'[n] # "nil" \/ failed'[n]
                    /\ phase' = "discovering" => dockerEnabled'[n] = "unset"
                    /\ dockerEnabled'[n] = "yes" => supported'[n] = "with" /\ ~failed'[n]
  BY DEF LifeInv, WiredInv
<1>1. phase' # "discovering" => supported'[n] # "nil" \/ failed'[n]
  <2>1. CASE phase # "discovering"
    BY <2>1, StepKeepsAsked DEF WiredInv
  <2>2. CASE phase = "discovering" /\ phase' # "discovering"
    <3>1. StartMonitor
      BY <2>2 DEF Next, MonitorStep, MainStep, NextBackend, Ping, Rediscover, Store, Tick,
         MonitorEnds, DiscoverAtStartup, Wire, Serve, LeaveSelect, Shutdown, Exit, Signal,
         ServerFails, Request, Respond, Flip, Terminated, vars, mainVars
    <3>2. supported[n] # "nil" \/ failed[n]
      BY <3>1 DEF StartMonitor, DiscoveryOver
    <3>. QED
      BY <3>2, StepKeepsAsked
  <2>. QED
    BY <2>1, <2>2
<1>2. UNCHANGED dockerEnabled \/ \E m \in Nas : Wire(m)
  BY DEF Next, MonitorStep, MainStep, StartMonitor, NextBackend, Ping, Rediscover, Store, Tick,
     MonitorEnds, DiscoverAtStartup, Serve, LeaveSelect, Shutdown, Exit, Signal, ServerFails,
     Request, Respond, Flip, Terminated, vars, mainVars
<1>3. phase' = "discovering" => phase = "discovering"
  BY DEF Next, MonitorStep, MainStep, StartMonitor, NextBackend, Ping, Rediscover, Store, Tick,
     MonitorEnds, DiscoverAtStartup, Wire, Serve, LeaveSelect, Shutdown, Exit, Signal,
     ServerFails, Request, Respond, Flip, Terminated, vars, mainVars
<1>4. CASE UNCHANGED dockerEnabled
  BY <1>1, <1>3, <1>4, StepFreezes DEF WiredInv
<1>5. ASSUME NEW m \in Nas, Wire(m)
      PROVE  /\ phase' = "discovering" => dockerEnabled'[n] = "unset"
             /\ dockerEnabled'[n] = "yes" => supported'[n] = "with" /\ ~failed'[n]
  <2>1. phase' = "wiring" /\ UNCHANGED clientVars
    BY <1>5 DEF Wire
  <2>2. CASE m = n
    <3>1. dockerEnabled'[n] = "yes" => SupportsContainers(n)
      BY <1>5, <2>2 DEF Wire, IInv, TypeOK
    <3>2. supported[n] # "nil" \/ failed[n]
      BY <1>5 DEF Wire, WiredInv
    <3>. QED
      BY <2>1, <3>1, <3>2 DEF SupportsContainers, clientVars, IInv, TypeOK
  <2>3. CASE m # n
    BY <1>5, <2>1, <2>3 DEF Wire, WiredInv, clientVars, IInv, TypeOK
  <2>. QED
    BY <2>1, <2>2, <2>3
<1>. QED
  BY <1>1, <1>2, <1>4, <1>5

LEMMA LifeInductive == Spec => [](IInv /\ LifeInv)
<1>1. IInv /\ LifeInv /\ [Next]_vars => LifeInv'
  BY StepStopInv, StepWiredInv DEF LifeInv
<1>. QED
  BY <1>1, InitLifeInv, Inductive, PTL DEF Spec

\* How main ends: after its monitor and the last request, with exit code 1 only if
\* the server failed, and with 0 only if a signal asked for it.
CleanExit ==
    phase = "exited" =>
        /\ mpc = "done" /\ stopped /\ ~busy
        /\ exitCode = 1 => serverFailed
        /\ exitCode # 1 => signalled

\* The part of Stops that needs no fairness: main never ends in any other way.
THEOREM EndsCleanly == Spec => []CleanExit
<1>1. IInv /\ LifeInv => CleanExit
  BY DEF LifeInv, StopInv, CleanExit, Leaving
<1>. QED
  BY <1>1, LifeInductive, PTL

\* The services see the containers of a NAS only if its discovery has succeeded and
\* has found the container API: a NAS that could not be asked is never taken for one
\* that has everything.
FailsClosed ==
    \A n \in Nas : dockerEnabled[n] = "yes" => supported[n] = "with" /\ SupportsContainers(n)

\* "fail closed" of SupportsAPI, through the copy that is made of it at wiring.
THEOREM ClosedByFailure == Spec => []FailsClosed
<1>1. IInv /\ LifeInv => FailsClosed
  BY DEF LifeInv, WiredInv, FailsClosed, SupportsContainers
<1>. QED
  BY <1>1, LifeInductive, PTL

\* What SupportsAPI says of a NAS after a discovery that succeeded is its last word:
\* a package that is installed or removed later is not noticed before a restart.
DiscoveryIsFinal ==
    [][\A n \in Nas : supported[n] # "nil" /\ ~failed[n] =>
          supported'[n] = supported[n] /\ failed'[n] = failed[n]]_vars

\* Stronger than DiscoveryKept: not even a later success replaces the first one.
THEOREM FirstDiscoveryStays == Spec => DiscoveryIsFinal
<1>1. IInv /\ [Next]_vars =>
        [\A n \in Nas : supported[n] # "nil" /\ ~failed[n] =>
            supported'[n] = supported[n] /\ failed'[n] = failed[n]]_vars
  BY StepFreezes
<1>. QED
  BY <1>1, Inductive, PTL DEF Spec, DiscoveryIsFinal
=============================================================================
