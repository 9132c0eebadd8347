------------------------- MODULE Aggregation_proofs -------------------------
(***************************************************************************)
(* Proofs about Aggregation, for any backends.                             *)
(***************************************************************************)
EXTENDS Aggregation, TLAPS

LEMMA WorstIs ==
  ASSUME NEW L \in SUBSET Levels
  PROVE  /\ Worst(L) \in Levels
         /\ Worst(L) = "unhealthy" <=> "unhealthy" \in L
         /\ L # {} => (Worst(L) = "healthy" <=> L \subseteq {"healthy"})
<1>1. CASE "unhealthy" \in L
  BY <1>1 DEF Worst, Levels
<1>2. CASE "unhealthy" \notin L /\ "degraded" \in L
  BY <1>2 DEF Worst, Levels
<1>3. CASE "unhealthy" \notin L /\ "degraded" \notin L
  <2>1. Worst(L) = "healthy"
    BY <1>3 DEF Worst
  <2>. QED
    BY <1>3, <2>1 DEF Levels
<1>. QED
  BY <1>1, <1>2, <1>3

\* What the health report may record.
Reports == [of : Backends, part : {"storage", "containers", "network"}, level : Levels]
Legal(S) == S \in SUBSET Reports /\ \A x \in S : <<x.of, x.part>> \in Parts

LEMMA ComponentLegal ==
  ASSUME NEW b, NEW p, <<b, p>> \in Parts, NEW l \in Levels
  PROVE  /\ Component(b, p, l) \in Reports
         /\ Component(b, p, l).of = b /\ Component(b, p, l).part = p
         /\ Component(b, p, l).level = l
<1>1. b \in Backends /\ p \in {"storage", "containers", "network"}
  BY AggregationAssumption DEF Parts, Backends
<1>. QED
  BY <1>1 DEF Component, Reports

\* What a read adds to the report is legal, and healthy only if the part is sound.
LEMMA FoundLegal ==
  ASSUME TypeOK, NEW b \in Backends, NEW p, <<b, p>> \in Parts
  PROVE  /\ Legal(Found(b, p))
         /\ (\A x \in Found(b, p) : x.level = "healthy") =>
               <<b, p>> \in Sound(answering, volumes, container, subsystems)
<1>0. /\ "healthy" \in Levels /\ "degraded" \in Levels /\ "unhealthy" \in Levels
      /\ "healthy" # "degraded" /\ "healthy" # "unhealthy"
  BY DEF Levels
<1>1. CASE b \notin answering
  <2>1. Found(b, p) = {Component(b, p, "unhealthy")}
    BY <1>1 DEF Found
  <2>. QED
    BY <1>0, <2>1, ComponentLegal DEF Legal
<1>2. CASE b \in answering /\ p = "network"
  <2>1. b \in UniFi /\ subsystems[b] \subseteq {"healthy", "unhealthy"}
    BY <1>2, AggregationAssumption DEF TypeOK, Parts
  <2>2. Found(b, p) = {Component(b, p, l) : l \in subsystems[b]}
    BY <1>2 DEF Found
  <2>3. \A l \in subsystems[b] :
          /\ Component(b, p, l) \in Reports /\ Component(b, p, l).level = l
          /\ Component(b, p, l).of = b /\ Component(b, p, l).part = p
    BY <1>0, <2>1, ComponentLegal
  <2>4. Legal(Found(b, p))
    BY <2>2, <2>3 DEF Legal
  <2>5. (\A x \in Found(b, p) : x.level = "healthy") => subsystems[b] \subseteq {"healthy"}
    BY <2>2, <2>3
  <2>. QED
    BY <1>2, <2>4, <2>5 DEF Sound
<1>3. CASE b \in answering /\ p = "storage"
  <2>1. b \in Nas /\ volumes[b] \in Levels
    BY <1>3, AggregationAssumption DEF TypeOK, Parts
  <2>2. Found(b, p) = {Component(b, p, volumes[b])}
    BY <1>3 DEF Found
  <2>3. Legal(Found(b, p))
    BY <2>1, <2>2, ComponentLegal DEF Legal
  <2>4. (\A x \in Found(b, p) : x.level = "healthy") => volumes[b] = "healthy"
    BY <2>1, <2>2, ComponentLegal
  <2>. QED
    BY <1>3, <2>3, <2>4 DEF Sound
<1>4. CASE b \in answering /\ p = "containers"
  <2> DEFINE l == IF container[b] = "stopped" THEN "degraded" ELSE "healthy"
  <2>1. l \in Levels
    BY DEF Levels
  <2>2. Found(b, p) = {Component(b, p, l)}
    BY <1>4 DEF Found
  <2>3. Legal(Found(b, p)) /\ ((\A x \in Found(b, p) : x.level = "healthy") => l = "healthy")
    <3> HIDE DEF l
    <3>. QED
      BY <2>1, <2>2, ComponentLegal DEF Legal
  <2>4. l = "healthy" => container[b] # "stopped"
    OBVIOUS
  <2>. QED
    BY <1>4, <2>3, <2>4 DEF Sound
<1>5. p \in {"network", "storage", "containers"}
  BY DEF Parts
<1>. QED
  BY <1>1, <1>2, <1>3, <1>4, <1>5

LEMMA OfflineLegal ==
  ASSUME NEW b \in Backends
  PROVE  /\ Legal(OfflineParts(b)) /\ \A x \in OfflineParts(b) : x.level = "unhealthy"
         /\ OfflineParts(b) # {}
<1>1. \A x \in {y \in Parts : y[1] = b} :
        LET k == Component(x[1], x[2], "unhealthy") IN
          k \in Reports /\ k.of = x[1] /\ k.part = x[2] /\ k.level = "unhealthy" /\ <<x[1], x[2]>> \in Parts
  <2> SUFFICES ASSUME NEW x \in Parts
               PROVE  LET k == Component(x[1], x[2], "unhealthy") IN
                        /\ k \in Reports /\ k.of = x[1] /\ k.part = x[2] /\ k.level = "unhealthy"
                        /\ <<x[1], x[2]>> \in Parts
    OBVIOUS
  <2>1. <<x[1], x[2]>> \in Parts /\ "unhealthy" \in Levels
    BY DEF Parts, Levels
  <2>. QED
    BY <2>1, ComponentLegal
<1>2. Legal(OfflineParts(b)) /\ \A x \in OfflineParts(b) : x.level = "unhealthy"
  BY <1>1 DEF Legal, OfflineParts
<1>3. \E x \in Parts : x[1] = b
  <2>1. b \in Nas => <<b, "storage">> \in Parts
    BY DEF Parts
  <2>2. b \in UniFi => <<b, "network">> \in Parts
    BY DEF Parts
  <2>. QED
    BY <2>1, <2>2 DEF Backends
<1>. QED
  BY <1>2, <1>3 DEF OfflineParts

\* The heart of the report: recording a legal set keeps the overall status the worst.
LEMMA RecordKeepsWorst ==
  ASSUME TypeOK, OverallIsWorst, NEW S, Legal(S), Record(S)
  PROVE  /\ OverallIsWorst' /\ overall' \in Levels
         /\ components' \in SUBSET Reports /\ \A x \in components' : <<x.of, x.part>> \in Parts
         /\ overall' = "healthy" => overall = "healthy" /\ \A x \in S : x.level = "healthy"
<1> DEFINE L == {overall} \cup {x.level : x \in S}
<1>1. L \in SUBSET Levels /\ L # {}
  BY DEF TypeOK, Legal, Reports
<1>2. overall' = Worst(L) /\ components' = components \cup S
  BY DEF Record, WorstOf
<1>3. /\ overall' \in Levels
      /\ overall' = "unhealthy" <=> overall = "unhealthy" \/ \E x \in S : x.level = "unhealthy"
      /\ overall' = "healthy" <=> overall = "healthy" /\ \A x \in S : x.level = "healthy"
  <2> HIDE DEF L
  <2>1. /\ Worst(L) \in Levels
        /\ Worst(L) = "unhealthy" <=> "unhealthy" \in L
        /\ Worst(L) = "healthy" <=> L \subseteq {"healthy"}
    BY <1>1, WorstIs
  <2>2. "unhealthy" \in L <=> overall = "unhealthy" \/ \E x \in S : x.level = "unhealthy"
    BY DEF L
  <2>3. L \subseteq {"healthy"} <=> overall = "healthy" /\ \A x \in S : x.level = "healthy"
    BY DEF L
  <2>. QED
    BY <1>2, <2>1, <2>2, <2>3
<1>4. components' \in SUBSET Reports /\ \A x \in components' : <<x.of, x.part>> \in Parts
  BY <1>2 DEF TypeOK, Legal, Reports
<1>. QED
  BY <1>2, <1>3, <1>4 DEF OverallIsWorst

LEMMA InitIInv == Init => IInv
<1> SUFFICES ASSUME Init PROVE IInv
  OBVIOUS
<1> USE AggregationAssumption DEF Init, Backends
<1>1. TypeOK
  BY DEF TypeOK, Levels, ContainerStates, Kinds, Lists, Gated, Strict, Parts
<1>2. VisitInv /\ IdleInv /\ OverallIsWorst /\ NoHalfBackend /\ EarnedInv
  BY DEF VisitInv, IdleInv, OverallIsWorst, NoHalfBackend, EarnedInv
<1>. QED
  BY <1>1, <1>2 DEF IInv

-----------------------------------------------------------------------------
(* The steps of a list. *)

Preserved == TypeOK' /\ VisitInv' /\ IdleInv' /\ OverallIsWorst' /\ NoHalfBackend' /\ EarnedInv'

LEMMA BeginPreserves ==
  ASSUME IInv, NEW k \in Kinds, NEW f \in Nas \cup {None}, Begin(k, f) PROVE Preserved
<1> USE AggregationAssumption DEF IInv, Begin, envVars, resultVars, Backends
<1>1. TypeOK'
  BY DEF TypeOK, Sound
<1>2. VisitInv'
  BY DEF VisitInv, IdleInv
<1>3. IdleInv' /\ OverallIsWorst' /\ NoHalfBackend'
  BY DEF IdleInv, OverallIsWorst, NoHalfBackend
<1>4. EarnedInv'
  BY DEF EarnedInv, Unasked, Parts, Sound
<1>. QED
  BY <1>1, <1>2, <1>3, <1>4 DEF Preserved

LEMMA PassOverPreserves ==
  ASSUME IInv, NEW b \in Backends, PassOver(b) PROVE Preserved
<1> USE AggregationAssumption DEF IInv, PassOver, envVars, reqVars, resultVars, pastVars, Backends
<1>1. TypeOK'
  BY DEF TypeOK
<1>2. VisitInv'
  BY DEF VisitInv
<1>3. IdleInv' /\ OverallIsWorst' /\ NoHalfBackend' /\ EarnedInv'
  BY DEF IdleInv, OverallIsWorst, NoHalfBackend, EarnedInv
<1>. QED
  BY <1>1, <1>2, <1>3 DEF Preserved

LEMMA AskPreserves ==
  ASSUME IInv, NEW b \in Backends, Ask(b) PROVE Preserved
<1> USE AggregationAssumption DEF IInv, Ask, envVars, reqVars, resultVars, pastVars, Backends
<1>1. TypeOK'
  BY DEF TypeOK
<1>2. VisitInv'
  BY DEF VisitInv, TypeOK
<1>3. IdleInv' /\ OverallIsWorst' /\ NoHalfBackend' /\ EarnedInv'
  BY DEF IdleInv, OverallIsWorst, NoHalfBackend, EarnedInv
<1>. QED
  BY <1>1, <1>2, <1>3 DEF Preserved

LEMMA AppendLegal ==
  ASSUME TypeOK, here \in Nas, NEW s \in ContainerStates, NEW g \in BOOLEAN, Append(s, g)
  PROVE  /\ items' \in SUBSET [of : Nas, status : ContainerStates, known : BOOLEAN]
         /\ \A x \in items' : x \in items \/ x.of = here
BY DEF Append, TypeOK

LEMMA ListReadPreserves ==
  ASSUME IInv, ListRead \/ UsageRead PROVE Preserved
<1> USE AggregationAssumption DEF IInv, envVars, reqVars, resultVars, pastVars, Backends
<1>a. /\ kind # "health" /\ pc \in {"first", "second"}
      /\ UNCHANGED <<envVars, reqVars, todo, here, components, overall, answer, failed, pastVars>>
  BY DEF ListRead, UsageRead
<1>b. /\ here \in Nas /\ here \notin todo
      /\ here \notin failed /\ \A x \in items : x.of # here
  <2>1. pc = "first" \/ kind # "backups"
    BY DEF ListRead, UsageRead
  <2>. QED
    BY <1>a, <2>1 DEF VisitInv
<1>c. pc' \in {"next", "second"} /\ seen' \in ContainerStates
  <2>1. container[here] \in ContainerStates /\ seen \in ContainerStates
    BY <1>b DEF TypeOK
  <2>. QED
    BY <2>1 DEF ListRead, UsageRead
<1>0. /\ kind # "health" /\ here \in Nas /\ here \notin failed /\ here \notin todo
      /\ pc \in {"first", "second"} /\ \A x \in items : x.of # here
      /\ pc' \in {"next", "second"} /\ seen' \in ContainerStates
      /\ UNCHANGED <<envVars, reqVars, todo, here, components, overall, answer, failed, pastVars>>
  BY <1>a, <1>b, <1>c
<1>1. /\ items' \in SUBSET [of : Nas, status : ContainerStates, known : BOOLEAN]
      /\ \A x \in items' : x \in items \/ x.of = here
      /\ pc' = "second" => items' = items
      /\ kind = "backups" => items' = items
  <2>1. CASE ListRead /\ kind \in {"containers", "backups"}
    BY <2>1 DEF ListRead, TypeOK
  <2>2. CASE ListRead /\ kind \notin {"containers", "backups"}
    <3>1. /\ Append("none", FALSE) /\ pc' = "next" /\ kind # "backups"
          /\ "none" \in ContainerStates /\ FALSE \in BOOLEAN
      BY <2>2 DEF ListRead, ContainerStates
    <3>. QED
      BY <1>0, <3>1, AppendLegal
  <2>3. CASE UsageRead
    <3>1. Append(seen, container[here] = "running") /\ pc' = "next" /\ kind # "backups"
          /\ seen \in ContainerStates /\ (container[here] = "running") \in BOOLEAN
      BY <2>3 DEF UsageRead, TypeOK
    <3>. QED
      BY <1>0, <3>1, AppendLegal
  <2>. QED
    BY <2>1, <2>2, <2>3
<1>2. TypeOK'
  BY <1>0, <1>1 DEF TypeOK
<1>3. VisitInv' /\ NoHalfBackend'
  BY <1>0, <1>1 DEF VisitInv, NoHalfBackend
<1>4. IdleInv' /\ OverallIsWorst' /\ EarnedInv'
  BY <1>0 DEF IdleInv, OverallIsWorst, EarnedInv
<1>. QED
  BY <1>2, <1>3, <1>4 DEF Preserved

\* One backup task more, its last result known or its NAS's failure noted.
LEMMA StatusReadPreserves ==
  ASSUME IInv, StatusRead PROVE Preserved
<1> USE AggregationAssumption DEF IInv, envVars, reqVars, resultVars, pastVars, Backends
<1>1. /\ kind = "backups" /\ pc = "second" /\ pc' \in {"next", "second"}
      /\ failed' = IF here \in answering THEN failed ELSE failed \cup {here}
      /\ UNCHANGED <<envVars, reqVars, todo, here, seen, components, overall, answer, pastVars>>
  BY DEF StatusRead
<1>2. here \in Nas /\ here \notin todo
  BY <1>1 DEF VisitInv
<1>3. PICK y : /\ y.of = here /\ items' = items \cup {y}
               /\ y \in [of : Nas, status : ContainerStates, known : BOOLEAN]
               /\ y.known <=> here \in answering
  <2>1. \E g \in BOOLEAN : g = (here \in answering)
    <3>. DEFINE g == here \in answering
    <3>1. g \in BOOLEAN /\ g = (here \in answering)
      OBVIOUS
    <3>. QED
      BY <3>1, Zenon
  <2>0. PICK g \in BOOLEAN : g = (here \in answering)
    BY <2>1, Zenon
  <2>. DEFINE y == [of |-> here, status |-> "none", known |-> g]
  <2>2. items' = items \cup {y} /\ "none" \in ContainerStates
    BY <2>0 DEF StatusRead, Append, ContainerStates
  <2>3. /\ y.of = here /\ y \in [of : Nas, status : ContainerStates, known : BOOLEAN]
        /\ y.known = g
    BY <1>2, <2>2
  <2> HIDE DEF y
  <2>. QED
    BY <2>0, <2>2, <2>3
<1>4. TypeOK'
  BY <1>1, <1>2, <1>3 DEF TypeOK
<1>5. VisitInv'
  <2>1. (kind = "backups" /\ here \in failed => \E x \in items : x.of = here /\ ~x.known)'
    BY <1>1, <1>3 DEF VisitInv
  <2>. QED
    BY <1>1, <1>2, <1>3, <2>1 DEF VisitInv
<1>6. NoHalfBackend'
  <2> SUFFICES ASSUME NEW x \in items'
               PROVE  x.of \in failed' <=> \E z \in items' : z.of = x.of /\ ~z.known
    BY <1>1 DEF NoHalfBackend
  <2>1. CASE x.of = here
    BY <1>1, <1>3, <2>1 DEF VisitInv, NoHalfBackend
  <2>2. CASE x.of # here
    <3>1. x \in items /\ (x.of \in failed' <=> x.of \in failed)
      BY <1>1, <1>3, <2>2
    <3>2. (\E z \in items' : z.of = x.of /\ ~z.known) <=> \E z \in items : z.of = x.of /\ ~z.known
      BY <1>3, <2>2
    <3>. QED
      BY <1>1, <3>1, <3>2 DEF NoHalfBackend
  <2>. QED
    BY <2>1, <2>2
<1>7. IdleInv' /\ OverallIsWorst' /\ EarnedInv'
  BY <1>1 DEF IdleInv, OverallIsWorst, EarnedInv
<1>. QED
  BY <1>4, <1>5, <1>6, <1>7 DEF Preserved

LEMMA ListReadFailsPreserves ==
  ASSUME IInv, ListReadFails PROVE Preserved
<1> USE AggregationAssumption
    DEF IInv, ListReadFails, DropHalf, Continue, envVars, reqVars, resultVars, pastVars, Backends
<1>1. TypeOK'
  BY DEF TypeOK, VisitInv
<1>2. VisitInv' /\ NoHalfBackend'
  BY DEF VisitInv, NoHalfBackend
<1>3. IdleInv' /\ OverallIsWorst' /\ EarnedInv'
  BY DEF IdleInv, OverallIsWorst, EarnedInv
<1>. QED
  BY <1>1, <1>2, <1>3 DEF Preserved

LEMMA EndPreserves ==
  ASSUME IInv, Finish \/ Reply PROVE Preserved
<1> USE AggregationAssumption DEF IInv, envVars, reqVars, resultVars, pastVars, Backends
<1>1. CASE Finish
  <2>1. TypeOK'
    BY <1>1 DEF Finish, TypeOK
  <2>2. VisitInv' /\ NoHalfBackend' /\ IdleInv' /\ OverallIsWorst'
    BY <1>1 DEF Finish, VisitInv, NoHalfBackend, IdleInv, OverallIsWorst
  <2>3. EarnedInv'
    BY <1>1 DEF Finish, EarnedInv, Unasked
  <2>. QED
    BY <2>1, <2>2, <2>3 DEF Preserved
<1>2. CASE Reply
  <2>1. TypeOK'
    BY <1>2 DEF Reply, TypeOK, Levels, ContainerStates, Kinds
  <2>2. VisitInv' /\ NoHalfBackend' /\ IdleInv' /\ OverallIsWorst' /\ EarnedInv'
    BY <1>2 DEF Reply, VisitInv, NoHalfBackend, IdleInv, OverallIsWorst, EarnedInv
  <2>. QED
    BY <2>1, <2>2 DEF Preserved
<1>. QED
  BY <1>1, <1>2

-----------------------------------------------------------------------------
(* The steps of the health report. *)

\* A healthy report after the step has seen the recorded parts healthy.
LEMMA HealthOfflinePreserves ==
  ASSUME IInv, NEW b \in Backends, HealthOffline(b) PROVE Preserved
<1> USE AggregationAssumption DEF IInv
<1>0. /\ pc = "next" /\ kind = "health" /\ b \in todo /\ todo' = todo \ {b}
      /\ UNCHANGED <<envVars, pc, reqVars, here, seen, items, answer, failed, pastVars>>
  BY DEF HealthOffline
<1>1. /\ OverallIsWorst' /\ overall' \in Levels
      /\ components' \in SUBSET Reports /\ \A x \in components' : <<x.of, x.part>> \in Parts
      /\ overall' # "healthy"
  <2>1. Legal(OfflineParts(b)) /\ Record(OfflineParts(b))
    BY OfflineLegal DEF HealthOffline
  <2>2. \E x \in OfflineParts(b) : x.level # "healthy"
    BY OfflineLegal
  <2> DEFINE S == OfflineParts(b)
  <2> HIDE DEF S
  <2>3. Legal(S) /\ Record(S) /\ \E x \in S : x.level # "healthy"
    BY <2>1, <2>2 DEF S
  <2>. QED
    BY <2>3, RecordKeepsWorst
<1>2. TypeOK'
  BY <1>0, <1>1 DEF TypeOK, Reports, envVars, reqVars, pastVars
<1>3. VisitInv' /\ NoHalfBackend' /\ IdleInv' /\ EarnedInv'
  BY <1>0, <1>1 DEF VisitInv, NoHalfBackend, IdleInv, EarnedInv, envVars, reqVars, pastVars
<1>. QED
  BY <1>1, <1>2, <1>3 DEF Preserved

LEMMA HealthAskPreserves ==
  ASSUME IInv, NEW b \in Backends, HealthAsk(b) PROVE Preserved
<1> USE AggregationAssumption DEF IInv, HealthAsk, envVars, reqVars, resultVars, pastVars
<1>1. TypeOK'
  BY DEF TypeOK
<1>2. VisitInv'
  BY DEF VisitInv, TypeOK
<1>3. IdleInv' /\ OverallIsWorst' /\ NoHalfBackend'
  BY DEF IdleInv, OverallIsWorst, NoHalfBackend
<1>4. EarnedInv'
  BY DEF EarnedInv, Unasked
<1>. QED
  BY <1>1, <1>2, <1>3, <1>4 DEF Preserved

\* What both reads of the report have in common.
ReadsPart(p) ==
    /\ pc \in {"first", "second"} /\ kind = "health" /\ <<here, p>> \in Parts
    /\ Record(Found(here, p))
    /\ failed' = IF here \in answering THEN failed ELSE failed \cup {here}
    /\ UNCHANGED <<envVars, reqVars, todo, here, seen, items, answer, pastVars>>

LEMMA ReadsPartKeeps ==
  ASSUME IInv, NEW p, ReadsPart(p)
  PROVE  /\ OverallIsWorst' /\ overall' \in Levels
         /\ components' \in SUBSET Reports /\ \A x \in components' : <<x.of, x.part>> \in Parts
         /\ overall' = "healthy" => overall = "healthy" /\ <<here, p>> \in sound
         /\ failed' \in SUBSET Backends /\ failed' \cap todo = {}
<1> USE DEF IInv, ReadsPart
<1>1. here \in Backends /\ here \notin todo
  BY DEF VisitInv
<1>2. /\ Legal(Found(here, p)) /\ Record(Found(here, p))
      /\ (\A x \in Found(here, p) : x.level = "healthy") =>
            <<here, p>> \in Sound(answering, volumes, container, subsystems)
  BY <1>1, FoundLegal
<1> DEFINE S == Found(here, p)
<1>3. /\ Legal(S) /\ Record(S)
      /\ (\A x \in S : x.level = "healthy") => <<here, p>> \in sound
  BY <1>2 DEF EarnedInv
<1> HIDE DEF S
<1>4. TypeOK /\ OverallIsWorst
  OBVIOUS
<1>5. /\ OverallIsWorst' /\ overall' \in Levels
      /\ components' \in SUBSET Reports /\ \A x \in components' : <<x.of, x.part>> \in Parts
      /\ overall' = "healthy" => overall = "healthy" /\ \A x \in S : x.level = "healthy"
  BY <1>3, <1>4, RecordKeepsWorst
<1>6. failed' \in SUBSET Backends /\ failed' \cap todo = {}
  BY <1>1 DEF TypeOK, VisitInv
<1>. QED
  BY <1>3, <1>5, <1>6

\* The part the next read of the report is about.
PartRead == IF pc = "second" THEN "containers"
            ELSE IF here \in UniFi THEN "network" ELSE "storage"

LEMMA ReadsItsPart ==
  ASSUME IInv, HealthRead \/ HealthContainers PROVE ReadsPart(PartRead)
<1>1. CASE HealthRead /\ here \in UniFi
  BY <1>1 DEF HealthRead, ReadsPart, PartRead, Parts
<1>2. CASE HealthRead /\ here \notin UniFi
  <2>1. here \in Nas
    BY <1>2 DEF HealthRead, IInv, VisitInv, Backends
  <2>. QED
    BY <1>2, <2>1 DEF HealthRead, ReadsPart, PartRead, Parts
<1>3. CASE HealthContainers
  BY <1>3 DEF HealthContainers, ReadsPart, PartRead, IInv, VisitInv, Parts
<1>. QED
  BY <1>1, <1>2, <1>3

\* A request for the health report lists nothing.
LEMMA HealthReadPreserves ==
  ASSUME IInv, HealthRead \/ HealthContainers PROVE Preserved
<1> USE AggregationAssumption DEF IInv
<1> DEFINE p == PartRead
<1>1. ReadsPart(p)
  BY ReadsItsPart
<1>2. pc' \in {"next", "second"} /\ (pc' = "second" => pc = "first" /\ here \in DockerEnabled)
  BY DEF HealthRead, HealthContainers
<1>3. pc' = "next" => pc = "second" \/ here \notin DockerEnabled
  BY DEF HealthRead, HealthContainers
<1>4. /\ OverallIsWorst' /\ overall' \in Levels
      /\ components' \in SUBSET Reports /\ \A x \in components' : <<x.of, x.part>> \in Parts
      /\ overall' = "healthy" => overall = "healthy" /\ <<here, p>> \in sound
      /\ failed' \in SUBSET Backends /\ failed' \cap todo = {}
  <2> HIDE DEF p
  <2>. QED
    BY <1>1, ReadsPartKeeps
<1>5. /\ pc \in {"first", "second"} /\ kind = "health"
      /\ UNCHANGED <<envVars, reqVars, todo, here, seen, items, answer, pastVars>>
  BY <1>1 DEF ReadsPart
<1>6. TypeOK'
  BY <1>2, <1>4, <1>5 DEF TypeOK, Reports, envVars, reqVars, pastVars
<1>7. VisitInv' /\ IdleInv'
  BY <1>2, <1>4, <1>5 DEF VisitInv, IdleInv, reqVars
<1>8. items = {}
  BY <1>5 DEF VisitInv
<1>9. NoHalfBackend'
  BY <1>5, <1>8 DEF NoHalfBackend
<1>10. EarnedInv'
  <2>1. ASSUME overall' = "healthy", NEW q \in Parts, q \notin sound
        PROVE  q[1] \in todo \/ (q[1] = here /\ pc' = "second" /\ q[2] = "containers")
    <3>1. Unasked(q) /\ q # <<here, p>>
      BY <1>4, <1>5, <2>1 DEF EarnedInv
    <3>2. CASE q[1] = here
      <4>1. \/ q = <<here, "storage">> /\ here \in Nas
            \/ q = <<here, "network">> /\ here \in UniFi
            \/ q = <<here, "containers">> /\ here \in DockerEnabled
        BY <2>1, <3>2 DEF Parts
      <4>. QED
        BY <1>2, <1>3, <1>5, <3>1, <3>2, <4>1 DEF Unasked, PartRead
    <3>. QED
      BY <3>1, <3>2 DEF Unasked
  <2>2. (Sound(answering, volumes, container, subsystems) \subseteq sound)'
    BY <1>5 DEF EarnedInv, envVars, pastVars
  <2>. QED
    BY <1>5, <2>1, <2>2 DEF EarnedInv, Unasked, pastVars
<1>. QED
  BY <1>4, <1>6, <1>7, <1>9, <1>10 DEF Preserved

-----------------------------------------------------------------------------
(* The changes of the backends. *)

LEMMA EnvironmentPreserves ==
  ASSUME IInv, Environment PROVE Preserved
<1> USE AggregationAssumption DEF IInv
<1>1. /\ available' \in SUBSET Backends /\ answering' \in SUBSET Backends
      /\ supported' \in SUBSET Nas /\ volumes' \in [Nas -> Levels]
      /\ container' \in [Nas -> ContainerStates]
      /\ subsystems' \in [UniFi -> SUBSET {"healthy", "unhealthy"}]
  <2>1. CASE Flip
    BY <2>1 DEF Flip, Reach, Respond, Discover, Toggle, TypeOK
  <2>2. CASE \E b \in Nas, l \in Levels : VolumesChange(b, l)
    BY <2>2 DEF VolumesChange, TypeOK
  <2>3. CASE \E b \in Nas, c \in ContainerStates : ContainerChange(b, c)
    BY <2>3 DEF ContainerChange, TypeOK
  <2>4. CASE \E u \in UniFi, S \in SUBSET {"healthy", "unhealthy"} : SubsystemsChange(u, S)
    BY <2>4 DEF SubsystemsChange, TypeOK
  <2>. QED
    BY <2>1, <2>2, <2>3, <2>4 DEF Environment
<1>2. \E T : Past(T)
  BY DEF Environment, Flip, VolumesChange, ContainerChange, SubsystemsChange
<1>3. /\ changes < MaxChanges /\ changes' = changes + 1
      /\ awake' \in SUBSET awake /\ steady' \in SUBSET steady
      /\ sound' = IF pc = "idle" THEN sound
                  ELSE sound \cup Sound(answering', volumes', container', subsystems')
      /\ UNCHANGED <<pc, reqVars, todo, here, seen, resultVars, failed>>
  BY <1>2 DEF Past
<1>4. /\ sound' \in SUBSET Parts /\ sound \subseteq sound'
      /\ pc # "idle" => Sound(answering', volumes', container', subsystems') \subseteq sound'
  <2> DEFINE now == Sound(answering', volumes', container', subsystems')
  <2>1. now \subseteq Parts
    BY DEF Sound
  <2> HIDE DEF now
  <2>2. sound' = IF pc = "idle" THEN sound ELSE sound \cup now
    BY <1>3 DEF now
  <2>3. sound \subseteq Parts
    BY DEF TypeOK
  <2>4. sound' \in SUBSET Parts /\ sound \subseteq sound' /\ (pc # "idle" => now \subseteq sound')
    BY <2>1, <2>2, <2>3
  <2>. QED
    BY <2>4 DEF now
<1>5. changes' \in 0..MaxChanges
  BY <1>3 DEF TypeOK
<1>6. TypeOK'
  BY <1>1, <1>3, <1>4, <1>5 DEF TypeOK, reqVars, resultVars
<1>7. VisitInv' /\ IdleInv' /\ OverallIsWorst' /\ NoHalfBackend'
  BY <1>3 DEF VisitInv, IdleInv, OverallIsWorst, NoHalfBackend, reqVars, resultVars
<1>8. EarnedInv'
  <2>1. pc' # "idle" => (Sound(answering, volumes, container, subsystems) \subseteq sound)'
    BY <1>3, <1>4
  <2>2. (pc # "idle" /\ kind = "health" /\ overall = "healthy" =>
            \A p \in Parts : p \in sound \/ Unasked(p))'
    BY <1>3, <1>4 DEF EarnedInv, Unasked, reqVars, resultVars
  <2>. QED
    BY <2>1, <2>2 DEF EarnedInv
<1>. QED
  BY <1>6, <1>7, <1>8 DEF Preserved

-----------------------------------------------------------------------------
(* The theorems. *)

LEMMA StepPreserves ==
  ASSUME IInv, [Next]_vars PROVE IInv'
<1>1. ASSUME NEW k \in Kinds, NEW f \in Nas \cup {None}, Begin(k, f) PROVE Preserved
  BY <1>1, BeginPreserves
<1>2. ASSUME NEW b \in Backends, PassOver(b) \/ Ask(b) \/ HealthOffline(b) \/ HealthAsk(b)
      PROVE  Preserved
  BY <1>2, PassOverPreserves, AskPreserves, HealthOfflinePreserves, HealthAskPreserves
<1>3. CASE ListRead \/ UsageRead \/ StatusRead
  BY <1>3, ListReadPreserves, StatusReadPreserves DEF Preserved, IInv
<1>4. CASE ListReadFails
  BY <1>4, ListReadFailsPreserves DEF Preserved, IInv
<1>5. CASE HealthRead \/ HealthContainers
  BY <1>5, HealthReadPreserves DEF Preserved, IInv
<1>6. CASE Finish \/ Reply
  BY <1>6, EndPreserves DEF Preserved, IInv
<1>7. CASE Environment
  BY <1>7, EnvironmentPreserves DEF Preserved, IInv
<1>8. CASE UNCHANGED vars
  BY <1>8 DEF IInv, TypeOK, VisitInv, IdleInv, OverallIsWorst, NoHalfBackend, EarnedInv, Unasked,
              vars, envVars, reqVars, resultVars, pastVars
<1>. QED
  BY <1>1, <1>2, <1>3, <1>4, <1>5, <1>6, <1>7, <1>8 DEF Next, Preserved, IInv

\* The invariant holds of every reachable state, whatever the backends.
THEOREM Inductive == Spec => []IInv
<1>1. Init => IInv
  BY InitIInv
<1>2. IInv /\ [Next]_vars => IInv'
  BY StepPreserves
<1>. QED
  BY <1>1, <1>2, PTL DEF Spec

\* Every variable of a request keeps its type.
THEOREM TypeCorrect == Spec => []TypeOK
<1>1. IInv => TypeOK
  BY DEF IInv
<1>. QED
  BY <1>1, Inductive, PTL

\* GetSystemHealth reports the worst of its components after every branch, for any
\* NAS, any controllers and any answers of theirs.
THEOREM WorstStatus == Spec => []OverallIsWorst
<1>1. IInv => OverallIsWorst
  BY DEF IInv
<1>. QED
  BY <1>1, Inductive, PTL

\* A healthy report has seen each of its parts healthy while it was made.
THEOREM HealthEarned == Spec => []HealthyIsEarned
<1>1. IInv => HealthyIsEarned
  <2> SUFFICES ASSUME IInv, pc = "done", kind = "health", overall = "healthy" PROVE sound = Parts
    BY DEF HealthyIsEarned
  <2>1. todo = {} /\ sound \in SUBSET Parts
    BY DEF IInv, VisitInv, TypeOK
  <2>2. \A p \in Parts : p \in sound
    BY <2>1 DEF IInv, EarnedInv, Unasked
  <2>. QED
    BY <2>1, <2>2
<1>. QED
  BY <1>1, Inductive, PTL

\* A NAS that fails a read adds nothing to a list, and to the list of backup tasks
\* nothing but tasks of which one at least says that its last result is unknown.
THEOREM NothingByHalves == Spec => []NoHalfBackend
<1>1. IInv => NoHalfBackend
  BY DEF IInv
<1>. QED
  BY <1>1, Inductive, PTL

-----------------------------------------------------------------------------
(* Lists are complete: an invariant relative to IInv. *)

\* What the history variables say of the backends as they are now.
PastInv ==
    /\ \A b \in awake : b \in available /\ Capable(b)
    /\ steady \subseteq awake /\ steady \subseteq answering

Pending(b) == b \in todo \/ (here = b /\ pc \in {"first", "second"})
Listed(b) ==
    \E x \in items :
        /\ x.of = b
        /\ kind = "containers" /\ container[b] = "running" => x.known
        /\ kind = "backups" => x.known

\* A NAS that has to be in the list is there already, or its turn is yet to come.
DueInv ==
    /\ pc # "done" => answer = "none"
    /\ pc = "done" /\ answer = "ok" => todo = {}
    /\ pc # "idle" /\ kind # "health" /\ answer # "error" =>
           /\ \A b \in steady : filter \in {None, b} => Pending(b) \/ Listed(b)
           /\ filter \in awake => Pending(filter) \/ \E x \in items : x.of = filter

ListInv == PastInv /\ DueInv

LEMMA InitListInv == Init => ListInv
BY DEF Init, ListInv, PastInv, DueInv

LEMMA BeginDue ==
  ASSUME IInv, ListInv, NEW k \in Kinds, NEW f \in Nas \cup {None}, Begin(k, f)
  PROVE  ListInv'
<1>1. PastInv'
  BY DEF Begin, envVars, PastInv, Capable
<1>2. DueInv'
  BY DEF Begin, envVars, resultVars, ListInv, DueInv, Pending
<1>. QED
  BY <1>1, <1>2 DEF ListInv

\* A NAS that has to be in the list is not passed over.
LEMMA PassOverDue ==
  ASSUME IInv, ListInv, NEW b \in Backends, PassOver(b) \/ Ask(b)
  PROVE  ListInv'
<1>0. /\ pc = "next" /\ kind # "health" /\ todo' = todo \ {b}
      /\ UNCHANGED <<envVars, reqVars, resultVars, pastVars>>
  BY DEF PassOver, Ask
<1>1. PastInv'
  BY <1>0 DEF ListInv, PastInv, Capable, envVars, reqVars, pastVars
<1>2. ASSUME NEW n \in awake, filter \in {None, n}, Pending(n) PROVE Pending(n)'
  <2>1. n \in available /\ Capable(n)
    BY DEF ListInv, PastInv
  <2>2. n \in todo
    BY <1>0, <1>2 DEF Pending
  <2>3. CASE n = b
    <3>1. ~PassedOver(n)
      BY <1>2, <2>1 DEF PassedOver
    <3>. QED
      BY <2>3, <3>1 DEF PassOver, Ask, Pending
  <2>. QED
    BY <1>0, <2>2, <2>3 DEF Pending
<1>3. DueInv'
  <2>1. ASSUME answer # "error", NEW n \in steady, filter \in {None, n} PROVE Pending(n)' \/ Listed(n)'
    <3>1. Pending(n) \/ Listed(n)
      BY <1>0, <2>1 DEF ListInv, DueInv
    <3>2. n \in awake
      BY DEF ListInv, PastInv
    <3>. QED
      BY <1>0, <1>2, <2>1, <3>1, <3>2 DEF Listed, envVars, reqVars, resultVars
  <2>2. ASSUME answer # "error", filter \in awake
        PROVE  Pending(filter)' \/ \E x \in items' : x.of = filter
    <3>1. Pending(filter) \/ \E x \in items : x.of = filter
      BY <1>0, <2>2 DEF ListInv, DueInv
    <3>2. Pending(filter) => Pending(filter)'
      <4>1. filter' = filter
        BY <1>0 DEF reqVars
      <4>. QED
        BY <1>2, <2>2, <4>1 DEF Pending
    <3>. QED
      BY <1>0, <3>1, <3>2 DEF resultVars
  <2>3. filter' = filter /\ answer' = answer /\ steady' = steady /\ awake' = awake /\ items' = items
    BY <1>0 DEF reqVars, resultVars, pastVars
  <2>4. answer = "none"
    BY <1>0 DEF ListInv, DueInv
  <2>5. ASSUME NEW n \in steady', filter' \in {None, n} PROVE (Pending(n) \/ Listed(n))'
    BY <2>1, <2>3, <2>4, <2>5
  <2>. QED
    BY <2>2, <2>3, <2>4, <2>5 DEF DueInv, Pending
<1>. QED
  BY <1>1, <1>3 DEF ListInv

\* A read puts its NAS on the list, with the usage it has if nothing has changed.
LEMMA ReadDue ==
  ASSUME IInv, ListInv, ListRead \/ UsageRead
  PROVE  ListInv'
<1>0. /\ pc \in {"first", "second"} /\ kind # "health" /\ answer = "none"
      /\ UNCHANGED <<envVars, reqVars, todo, here, answer, failed, pastVars>>
  BY DEF ListRead, UsageRead, ListInv, DueInv
<1>1. PastInv'
  BY <1>0 DEF ListInv, PastInv, Capable, envVars, reqVars, pastVars
<1>2. items \subseteq items'
  BY DEF ListRead, UsageRead, Append
<1>3. pc' = "second" \/ Listed(here)'
  <2>0. here' = here /\ kind' = kind /\ container' = container
    BY <1>0 DEF envVars, reqVars
  <2>a. ASSUME NEW s, NEW g, Append(s, g) PROVE \E x \in items' : x.of = here /\ x.known = g
    <3>. DEFINE x == [of |-> here, status |-> s, known |-> g]
    <3>1. x \in items' /\ x.of = here /\ x.known = g
      BY <2>a DEF Append
    <3>. QED
      BY <3>1
  <2>1. CASE ListRead /\ kind \in {"containers", "backups"}
    BY <2>1 DEF ListRead
  <2>2. CASE ListRead /\ kind \notin {"containers", "backups"}
    BY <2>0, <2>2, <2>a DEF ListRead, Listed
  <2>3. CASE UsageRead
    <3>1. kind' # "backups"
      BY <2>0, <2>3 DEF UsageRead
    <3>2. \E x \in items' : x.of = here /\ x.known = (container[here] = "running")
      BY <2>3, <2>a DEF UsageRead
    <3>. QED
      BY <2>0, <3>1, <3>2 DEF Listed
  <2>. QED
    BY <2>1, <2>2, <2>3
<1>4. ASSUME NEW n, Pending(n) PROVE Pending(n)' \/ Listed(n)'
  BY <1>0, <1>3, <1>4 DEF Pending
<1>5. ASSUME NEW n, Listed(n) PROVE Listed(n)'
  BY <1>0, <1>2, <1>5 DEF Listed, envVars, reqVars
<1>6. ASSUME NEW n, Listed(n)' PROVE \E x \in items' : x.of = n
  BY <1>6 DEF Listed
<1>7. filter' = filter /\ answer' = answer /\ steady' = steady /\ awake' = awake
  BY <1>0 DEF reqVars, pastVars
<1>8. /\ \A n \in steady : filter \in {None, n} => Pending(n) \/ Listed(n)
      /\ filter \in awake => Pending(filter) \/ \E x \in items : x.of = filter
  BY <1>0 DEF ListInv, DueInv
<1>9. ASSUME NEW n \in steady', filter' \in {None, n} PROVE (Pending(n) \/ Listed(n))'
  BY <1>4, <1>5, <1>7, <1>8, <1>9
<1>10. filter' \in awake' => (Pending(filter) \/ \E x \in items : x.of = filter)'
  <2>. DEFINE n == filter
  <2>1. Pending(n) => Pending(n)' \/ Listed(filter)'
    BY <1>0, <1>3, <1>7 DEF Pending, Listed
  <2>2. Listed(filter)' => \E x \in items' : x.of = filter'
    BY DEF Listed
  <2>. QED
    BY <1>2, <1>7, <1>8, <2>1, <2>2
<1>11. answer' = "none" /\ pc' # "done"
  BY <1>0 DEF ListRead, UsageRead
<1>. QED
  BY <1>1, <1>9, <1>10, <1>11 DEF ListInv, DueInv

\* So does the read of a task's status; what has to be listed answers it.
LEMMA StatusDue ==
  ASSUME IInv, ListInv, StatusRead
  PROVE  ListInv'
<1>0. /\ pc = "second" /\ pc' \in {"second", "next"} /\ kind = "backups" /\ answer = "none"
      /\ UNCHANGED <<envVars, reqVars, todo, here, answer, pastVars>>
  BY DEF StatusRead, ListInv, DueInv
<1>1. PastInv'
  BY <1>0 DEF ListInv, PastInv, Capable, envVars, reqVars, pastVars
<1>2. \E y : y.of = here /\ items' = items \cup {y} /\ (y.known <=> here \in answering)
  <2>. DEFINE y == [of |-> here, status |-> "none", known |-> here \in answering]
  <2>1. y.of = here /\ items' = items \cup {y} /\ (y.known <=> here \in answering)
    BY DEF StatusRead, Append
  <2>. QED
    BY <2>1
<1>3. /\ items \subseteq items' /\ \E x \in items' : x.of = here
      /\ here \in steady => \E x \in items' : x.of = here /\ x.known
  BY <1>2 DEF ListInv, PastInv
<1>4. ASSUME NEW n \in steady, Pending(n) PROVE Pending(n)' \/ Listed(n)'
  BY <1>0, <1>3, <1>4 DEF Pending, Listed, reqVars
<1>5. ASSUME NEW n, Listed(n) PROVE Listed(n)'
  BY <1>0, <1>3, <1>5 DEF Listed, envVars, reqVars
<1>6. ASSUME Pending(filter) PROVE Pending(filter)' \/ \E x \in items' : x.of = filter'
  BY <1>0, <1>3, <1>6 DEF Pending, reqVars
<1>7. filter' = filter /\ answer' = answer /\ steady' = steady /\ awake' = awake
  BY <1>0 DEF reqVars, pastVars
<1>8. /\ \A n \in steady : filter \in {None, n} => Pending(n) \/ Listed(n)
      /\ filter \in awake => Pending(filter) \/ \E x \in items : x.of = filter
  BY <1>0 DEF ListInv, DueInv
<1>9. ASSUME NEW n \in steady', filter' \in {None, n} PROVE (Pending(n) \/ Listed(n))'
  BY <1>4, <1>5, <1>7, <1>8, <1>9
<1>10. filter' \in awake' => (Pending(filter) \/ \E x \in items : x.of = filter)'
  <2>1. Listed(filter) => \E x \in items : x.of = filter
    BY DEF Listed
  <2>2. ASSUME filter \in awake, Pending(filter) PROVE Pending(filter)' \/ \E x \in items' : x.of = filter'
    BY <1>6, <2>2
  <2>3. (\E x \in items : x.of = filter) => \E x \in items' : x.of = filter'
    BY <1>3, <1>7
  <2>. QED
    BY <1>7, <1>8, <2>2, <2>3
<1>11. answer' = "none" /\ pc' # "done"
  BY <1>0
<1>. QED
  BY <1>1, <1>9, <1>10, <1>11 DEF ListInv, DueInv

\* A NAS that has to be in the list does not fail, or the request does.
LEMMA FailDue ==
  ASSUME IInv, ListInv, ListReadFails
  PROVE  ListInv'
<1>0. /\ pc \in {"first", "second"} /\ here \notin answering
      /\ UNCHANGED <<envVars, reqVars, todo, here, items, pastVars>>
      /\ \/ Propagates /\ pc' = "done" /\ answer' = "error"
         \/ ~Propagates /\ pc' = "next" /\ answer' = answer
  BY DEF ListReadFails, DropHalf, Continue
<1>1. PastInv'
  BY <1>0 DEF ListInv, PastInv, Capable, envVars, reqVars, pastVars
<1>2. DueInv'
  <2>1. CASE Propagates
    BY <1>0, <2>1 DEF DueInv
  <2>2. CASE ~Propagates
    <3>1. filter = None /\ None \notin awake
      BY <2>2, AggregationAssumption DEF Propagates, IInv, TypeOK
    <3>2. here \notin steady
      BY <1>0 DEF ListInv, PastInv
    <3>3. \A n \in steady : (Pending(n) => Pending(n)') /\ (Listed(n) => Listed(n)')
      BY <1>0, <3>2 DEF Pending, Listed, envVars, reqVars
    <3>4. answer = "none" /\ kind # "health"
      BY <1>0 DEF ListInv, DueInv, ListReadFails
    <3>5. \A n \in steady : Pending(n) \/ Listed(n)
      BY <1>0, <3>1, <3>4 DEF ListInv, DueInv
    <3>6. filter' = None /\ awake' = awake /\ steady' = steady /\ answer' = "none"
      BY <1>0, <2>2, <3>1, <3>4 DEF reqVars, pastVars
    <3>7. \A n \in steady' : (Pending(n) \/ Listed(n))'
      BY <3>3, <3>5, <3>6
    <3>. QED
      BY <3>1, <3>6, <3>7 DEF DueInv
  <2>. QED
    BY <2>1, <2>2
<1>. QED
  BY <1>1, <1>2 DEF ListInv

LEMMA EndDue ==
  ASSUME IInv, ListInv, Finish \/ Reply
  PROVE  ListInv'
<1>1. CASE Finish
  <2>1. PastInv'
    BY <1>1 DEF Finish, ListInv, PastInv, Capable, envVars, reqVars, pastVars
  <2>2. DueInv'
    BY <1>1 DEF Finish, ListInv, DueInv, Pending, Listed, envVars, reqVars, pastVars
  <2>. QED
    BY <2>1, <2>2 DEF ListInv
<1>2. CASE Reply
  BY <1>2 DEF Reply, ListInv, PastInv, DueInv
<1>. QED
  BY <1>1, <1>2

LEMMA HealthDue ==
  ASSUME IInv, ListInv,
         (\E b \in Backends : HealthOffline(b) \/ HealthAsk(b)) \/ HealthRead \/ HealthContainers
  PROVE  ListInv'
<1>1. /\ kind = "health" /\ pc # "done" /\ pc' # "done" /\ answer' = answer
      /\ UNCHANGED <<envVars, reqVars, pastVars>>
  BY DEF HealthOffline, HealthAsk, HealthRead, HealthContainers, resultVars
<1>. QED
  BY <1>1 DEF ListInv, PastInv, DueInv, Capable, envVars, reqVars, pastVars

\* Whoever changes does not have to be in the list any more.
LEMMA EnvironmentDue ==
  ASSUME IInv, ListInv, Environment
  PROVE  ListInv'
<1>1. \E T : /\ Past(T)
             /\ \A b \in Nas \ T : container'[b] = container[b]
  <2>1. CASE \E b \in Nas, c \in ContainerStates : ContainerChange(b, c)
    BY <2>1 DEF ContainerChange, IInv, TypeOK
  <2>. QED
    BY <2>1 DEF Environment, Flip, VolumesChange, SubsystemsChange
<1>2. supported \subseteq supported'
  BY DEF Environment, Flip, Reach, Respond, Discover, VolumesChange, ContainerChange, SubsystemsChange
<1>3. PICK T : Past(T) /\ \A b \in Nas \ T : container'[b] = container[b]
  BY <1>1
<1>4. /\ UNCHANGED <<pc, reqVars, todo, here, seen, resultVars, failed>>
      /\ awake' = {b \in awake : b \in available' /\ Capable(b)}
      /\ steady' = (steady \cap available' \cap answering') \ T
  BY <1>3 DEF Past
<1>5. PastInv'
  BY <1>2, <1>4 DEF ListInv, PastInv, Capable, reqVars
<1>6. \A b \in steady' : container'[b] = container[b]
  BY <1>3, <1>4 DEF IInv, TypeOK
<1>7. \A b \in steady' : b \in steady /\ (Pending(b) => Pending(b)') /\ (Listed(b) => Listed(b)')
  BY <1>4, <1>6 DEF Pending, Listed, reqVars, resultVars
<1>8. DueInv'
  BY <1>4, <1>7 DEF ListInv, DueInv, Pending, reqVars, resultVars
<1>. QED
  BY <1>5, <1>8 DEF ListInv

LEMMA StepListInv == IInv /\ ListInv /\ [Next]_vars => ListInv'
<1> SUFFICES ASSUME IInv, ListInv, [Next]_vars PROVE ListInv'
  OBVIOUS
<1>1. CASE UNCHANGED vars
  BY <1>1 DEF ListInv, PastInv, DueInv, Capable, Pending, Listed,
              vars, envVars, reqVars, resultVars, pastVars
<1>2. CASE Next
  BY <1>2, BeginDue, PassOverDue, ReadDue, StatusDue, FailDue, EndDue, HealthDue, EnvironmentDue DEF Next
<1>. QED
  BY <1>1, <1>2

\* A NAS that was there and unchanged all along is in the list, whatever the others
\* do, and the error of one asked for by name is told.
THEOREM ListsComplete == Spec => []ListComplete
<1>1. IInv /\ ListInv => ListComplete
  <2> SUFFICES ASSUME IInv, ListInv, pc = "done", answer = "ok", kind # "health"
               PROVE  ListComplete
    BY DEF ListComplete
  <2>1. todo = {} /\ answer # "error"
    BY DEF ListInv, DueInv
  <2>. QED
    BY <2>1 DEF ListInv, DueInv, Pending, Listed, ListComplete
<1>2. Init => ListInv
  BY InitListInv
<1>3. IInv /\ ListInv /\ [Next]_vars => ListInv'
  BY StepListInv
<1>4. Spec => []IInv
  BY Inductive
<1>. QED
  BY <1>1, <1>2, <1>3, <1>4, PTL DEF Spec
-----------------------------------------------------------------------------
(* Nothing is left out of the health report: an invariant relative to IInv. *)

\* A component tells of part p; a backend's failure has been told.
Told(p) == \E x \in components : x.of = p[1] /\ x.part = p[2]
FailureTold(b) == \E x \in components : x.of = b /\ x.level = "unhealthy"

\* A finished report has a component for the volumes of every NAS and for the
\* containers of every NAS that has docker, and an unhealthy one for every backend
\* that failed; a controller that answers has as many as it names subsystems.
ReportCovers ==
    pc = "done" /\ kind = "health" =>
        /\ \A p \in Parts : p[2] # "network" => Told(p)
        /\ \A b \in failed : FailureTold(b)

CoversInv ==
    pc # "idle" /\ kind = "health" =>
        /\ \A p \in Parts : p[2] # "network" => Unasked(p) \/ Told(p)
        /\ \A b \in failed : FailureTold(b)

\* A read of volumes or containers is told, whether it succeeds or fails.
LEMMA FoundTells ==
  ASSUME TypeOK, NEW b \in Backends, NEW p, <<b, p>> \in Parts
  PROVE  /\ p # "network" => \E x \in Found(b, p) : x.of = b /\ x.part = p
         /\ b \notin answering => \E x \in Found(b, p) : x.of = b /\ x.level = "unhealthy"
<1>0. "healthy" \in Levels /\ "degraded" \in Levels /\ "unhealthy" \in Levels
  BY DEF Levels
<1>1. CASE b \notin answering
  <2>1. Found(b, p) = {Component(b, p, "unhealthy")}
    BY <1>1 DEF Found
  <2>. QED
    BY <1>0, <2>1, ComponentLegal
<1>2. CASE b \in answering /\ p = "storage"
  <2>1. volumes[b] \in Levels /\ Found(b, p) = {Component(b, p, volumes[b])}
    BY <1>2, AggregationAssumption DEF TypeOK, Parts, Found
  <2>. QED
    BY <1>2, <2>1, ComponentLegal
<1>3. CASE b \in answering /\ p = "containers"
  <2> DEFINE l == IF container[b] = "stopped" THEN "degraded" ELSE "healthy"
  <2>1. l \in Levels /\ Found(b, p) = {Component(b, p, l)}
    BY <1>0, <1>3 DEF Found
  <2> HIDE DEF l
  <2>. QED
    BY <1>3, <2>1, ComponentLegal
<1>4. p \in {"network", "storage", "containers"}
  BY DEF Parts
<1>. QED
  BY <1>1, <1>2, <1>3, <1>4

\* A backend that is offline is told part by part.
LEMMA OfflineTells ==
  ASSUME NEW p \in Parts
  PROVE  \E x \in OfflineParts(p[1]) : x.of = p[1] /\ x.part = p[2]
<1>1. <<p[1], p[2]>> \in Parts /\ "unhealthy" \in Levels
  BY DEF Parts, Levels
<1>2. Component(p[1], p[2], "unhealthy").of = p[1] /\ Component(p[1], p[2], "unhealthy").part = p[2]
  BY <1>1, ComponentLegal
<1>3. Component(p[1], p[2], "unhealthy") \in OfflineParts(p[1])
  BY DEF OfflineParts
<1>. QED
  BY <1>2, <1>3

LEMMA ReadCovers ==
  ASSUME IInv, CoversInv, HealthRead \/ HealthContainers PROVE CoversInv'
<1> DEFINE p == PartRead
<1>1. ReadsPart(p)
  BY ReadsItsPart
<1>2. /\ pc' = "second" => pc = "first"
      /\ pc' = "next" => pc = "second" \/ here \notin DockerEnabled
      /\ pc' \in {"next", "second"}
  BY DEF HealthRead, HealthContainers
<1>3. /\ p # "network" => \E x \in Found(here, p) : x.of = here /\ x.part = p
      /\ here \notin answering => \E x \in Found(here, p) : x.of = here /\ x.level = "unhealthy"
  <2>1. TypeOK /\ here \in Backends /\ <<here, p>> \in Parts
    BY <1>1 DEF IInv, VisitInv, ReadsPart
  <2> HIDE DEF p
  <2>. QED
    BY <2>1, FoundTells
<1>4. /\ pc \in {"first", "second"} /\ kind = "health" /\ kind' = kind
      /\ todo' = todo /\ here' = here /\ components' = components \cup Found(here, p)
      /\ failed' = IF here \in answering THEN failed ELSE failed \cup {here}
  BY <1>1 DEF ReadsPart, Record, reqVars
<1>5. ASSUME NEW q \in Parts, q[2] # "network" PROVE Unasked(q)' \/ Told(q)'
  <2>1. Unasked(q) \/ Told(q)
    BY <1>4, <1>5 DEF CoversInv
  <2>2. CASE Told(q) \/ q[1] \in todo
    BY <1>4, <2>2 DEF Told, Unasked
  <2>3. CASE q[1] = here /\ ~Told(q) /\ q[1] \notin todo
    <3>1. \/ q[2] = "storage" /\ here \in Nas
          \/ q[2] = "containers" /\ here \in DockerEnabled
      BY <1>5, <2>3 DEF Parts
    <3>2. q[2] # p => Unasked(q)'
      BY <1>2, <1>4, <2>1, <2>3, <3>1, AggregationAssumption DEF Unasked, PartRead
    <3>3. q[2] = p => Told(q)'
      BY <1>3, <1>4, <1>5, <2>3 DEF Told
    <3>. QED
      BY <3>2, <3>3
  <2>. QED
    BY <2>1, <2>2, <2>3 DEF Unasked
<1>6. ASSUME NEW b \in failed' PROVE FailureTold(b)'
  BY <1>3, <1>4, <1>6 DEF CoversInv, FailureTold
<1>. QED
  BY <1>5, <1>6 DEF CoversInv

LEMMA OfflineCovers ==
  ASSUME IInv, CoversInv, NEW b \in Backends, HealthOffline(b) PROVE CoversInv'
<1>1. /\ pc = "next" /\ pc' = pc /\ kind = "health" /\ kind' = kind
      /\ todo' = todo \ {b} /\ here' = here /\ failed' = failed
      /\ components' = components \cup OfflineParts(b)
  BY DEF HealthOffline, Record, reqVars
<1>2. ASSUME NEW q \in Parts, q[2] # "network" PROVE Unasked(q)' \/ Told(q)'
  <2>1. Unasked(q) \/ Told(q)
    BY <1>1, <1>2 DEF CoversInv
  <2>2. q[1] = b => Told(q)'
    BY <1>1, OfflineTells DEF Told
  <2>3. Told(q) => Told(q)'
    BY <1>1 DEF Told
  <2>. QED
    BY <1>1, <2>1, <2>2, <2>3 DEF Unasked
<1>3. ASSUME NEW n \in failed' PROVE FailureTold(n)'
  BY <1>1 DEF CoversInv, FailureTold
<1>. QED
  BY <1>2, <1>3 DEF CoversInv

LEMMA StepCovers ==
  ASSUME IInv, CoversInv, [Next]_vars PROVE CoversInv'
<1>1. ASSUME NEW k \in Kinds, NEW f \in Nas \cup {None}, Begin(k, f) PROVE CoversInv'
  BY <1>1, AggregationAssumption
  DEF Begin, IInv, IdleInv, CoversInv, Unasked, Parts, Backends
<1>2. ASSUME NEW b \in Backends, PassOver(b) \/ Ask(b) PROVE CoversInv'
  BY <1>2 DEF PassOver, Ask, reqVars, CoversInv
<1>3. ASSUME NEW b \in Backends, HealthOffline(b) PROVE CoversInv'
  BY <1>3, OfflineCovers
<1>4. ASSUME NEW b \in Backends, HealthAsk(b) PROVE CoversInv'
  BY <1>4 DEF HealthAsk, reqVars, resultVars, CoversInv, Unasked, Told, FailureTold
<1>5. CASE ListRead \/ UsageRead \/ StatusRead \/ ListReadFails
  BY <1>5 DEF ListRead, UsageRead, StatusRead, ListReadFails, reqVars, CoversInv
<1>6. CASE HealthRead \/ HealthContainers
  BY <1>6, ReadCovers
<1>7. CASE Finish \/ Reply
  BY <1>7 DEF Finish, Reply, reqVars, CoversInv, Unasked, Told, FailureTold
<1>8. CASE Environment
  <2>1. UNCHANGED <<pc, reqVars, todo, here, seen, resultVars, failed>>
    BY <1>8 DEF Environment, Flip, VolumesChange, ContainerChange, SubsystemsChange, Past
  <2>. QED
    BY <2>1 DEF reqVars, resultVars, CoversInv, Unasked, Told, FailureTold
<1>9. CASE UNCHANGED vars
  BY <1>9 DEF vars, reqVars, resultVars, CoversInv, Unasked, Told, FailureTold
<1>. QED
  BY <1>1, <1>2, <1>3, <1>4, <1>5, <1>6, <1>7, <1>8, <1>9 DEF Next

\* GetSystemHealth leaves no NAS out, in no branch, and hides no failure: the error
\* of one backend costs neither its own component nor those of the others.
THEOREM HealthCovers == Spec => []ReportCovers
<1>1. Init => CoversInv
  BY DEF Init, CoversInv
<1>2. IInv /\ CoversInv /\ [Next]_vars => CoversInv'
  BY StepCovers
<1>3. IInv /\ CoversInv => ReportCovers
  <2> SUFFICES ASSUME IInv, CoversInv, pc = "done", kind = "health"
               PROVE  /\ \A p \in Parts : p[2] # "network" => Told(p)
                      /\ \A b \in failed : FailureTold(b)
    BY DEF ReportCovers
  <2>1. todo = {}
    BY DEF IInv, VisitInv
  <2>. QED
    BY <2>1 DEF CoversInv, Unasked
<1>. QED
  BY <1>1, <1>2, <1>3, Inductive, PTL DEF Spec
=============================================================================
