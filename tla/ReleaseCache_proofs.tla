------------------------ MODULE ReleaseCache_proofs ------------------------
(***************************************************************************)
(* Proofs about ReleaseCache, for any callers, devices, containers,        *)
(* repositories and TTL.                                                   *)
(***************************************************************************)
EXTENDS ReleaseCache, FiniteSets, FiniteSetTheorems, TLAPS

CallerInv(c, r) == FetchInv(c, r) /\ FloorInv(c, r) /\ AnswerInv(c, r)
CacheInv == \A r \in Repos : releases[r] <= latest[r]
Preserved ==
    /\ TypeOK' /\ LockInv' /\ RoundsInv' /\ CacheInv'
    /\ \A c \in Callers, r \in Repos : CallerInv(c, r)'

\* The invariant, one caller and one repository at a time.
LEMMA Parts ==
  CoreInv <=> /\ TypeOK /\ LockInv /\ RoundsInv /\ CacheInv
           /\ \A c \in Callers, r \in Repos : CallerInv(c, r)
  BY DEF CoreInv, CacheInv, CallerInv, AnswerInv

LEMMA InitCoreInv == Init => CoreInv
<1> SUFFICES ASSUME Init PROVE CoreInv
  OBVIOUS
<1> USE CacheAssumption DEF Init, None, Versions
<1>1. TypeOK
  <2>1. 0 \in 0..MaxVersion /\ 1 \in 0..MaxVersion /\ 0 \in 0..MaxFaults /\ 0 \in 0..TTL
    OBVIOUS
  <2>2. None \in [Repos -> Versions] /\ latest \in [Repos -> Versions]
    BY <2>1
  <2>3. releases \in [Repos -> Versions]
    BY <2>2
  <2>4. /\ fresh \in [Callers -> [Repos -> Versions]]
        /\ got \in [Callers -> [Repos -> Versions]]
        /\ floor \in [Callers -> [Repos -> Versions]]
    BY <2>2
  <2>5. [k \in Containers |-> 0] \in [Containers -> Versions]
    BY <2>1
  <2>6. running \in [Containers -> Versions] /\ tags \in [Callers -> [Containers -> Versions]]
    BY <2>1, <2>5
  <2>. QED
    BY <2>1, <2>2, <2>3, <2>4, <2>6 DEF TypeOK
<1>2. LockInv /\ RoundsInv
  BY DEF LockInv, RoundsInv
<1>3. CacheInv
  BY DEF CacheInv
<1>4. ASSUME NEW c \in Callers, NEW r \in Repos PROVE CallerInv(c, r)
  BY DEF CallerInv, FetchInv, FloorInv, AnswerInv
<1>. QED
  BY <1>1, <1>2, <1>3, <1>4, Parts

LEMMA BeginListPreserves ==
  ASSUME CoreInv, NEW c \in Callers, BeginList(c) PROVE Preserved
<1>0. TypeOK /\ LockInv /\ RoundsInv /\ CacheInv /\ \A e \in Callers, q \in Repos : CallerInv(e, q)
  BY Parts
<1> USE CacheAssumption, <1>0 DEF TypeOK, Versions, BeginList, Goto, envVars, cacheVars, scanVars, fetchVars
<1>1. TypeOK'
  OBVIOUS
<1>2. LockInv'
  BY DEF LockInv
<1>3. RoundsInv'
  BY DEF RoundsInv, LockInv
<1>4. CacheInv'
  BY DEF CacheInv
<1>5. ASSUME NEW e \in Callers, NEW q \in Repos PROVE CallerInv(e, q)'
  <2>0. /\ CallerInv(e, q) /\ releases[q] \in Int /\ latest[q] \in Int
        /\ fresh[e][q] \in Int /\ floor[e][q] \in Int /\ got[e][q] \in Int
        /\ releases[q] >= 0 /\ releases[q] <= latest[q]
    BY DEF CacheInv
  <2>1. CASE e = c
    BY <2>0, <2>1 DEF CallerInv, FetchInv, FloorInv, AnswerInv, CacheInv, LockInv
  <2>2. CASE e # c
    BY <2>0, <2>2 DEF CallerInv, FetchInv, FloorInv, AnswerInv, CacheInv, LockInv
  <2>. QED
    BY <2>1, <2>2
<1>. QED
  BY <1>1, <1>2, <1>3, <1>4, <1>5 DEF Preserved

LEMMA BeginCheckPreserves ==
  ASSUME CoreInv, NEW c \in Callers, BeginCheck(c) PROVE Preserved
<1>0. TypeOK /\ LockInv /\ RoundsInv /\ CacheInv /\ \A e \in Callers, q \in Repos : CallerInv(e, q)
  BY Parts
<1> USE CacheAssumption, <1>0 DEF TypeOK, Versions, BeginCheck, Goto, envVars, cacheVars, scanVars, fetchVars
<1>1. TypeOK'
  OBVIOUS
<1>2. LockInv'
  BY DEF LockInv
<1>3. RoundsInv'
  BY DEF RoundsInv, LockInv
<1>4. CacheInv'
  BY DEF CacheInv
<1>5. ASSUME NEW e \in Callers, NEW q \in Repos PROVE CallerInv(e, q)'
  <2>0. /\ CallerInv(e, q) /\ releases[q] \in Int /\ latest[q] \in Int
        /\ fresh[e][q] \in Int /\ floor[e][q] \in Int /\ got[e][q] \in Int
        /\ releases[q] >= 0 /\ releases[q] <= latest[q]
    BY DEF CacheInv
  <2>1. CASE e = c
    BY <2>0, <2>1 DEF CallerInv, FetchInv, FloorInv, AnswerInv, CacheInv, LockInv
  <2>2. CASE e # c
    BY <2>0, <2>2 DEF CallerInv, FetchInv, FloorInv, AnswerInv, CacheInv, LockInv
  <2>. QED
    BY <2>1, <2>2
<1>. QED
  BY <1>1, <1>2, <1>3, <1>4, <1>5 DEF Preserved

LEMMA LockForCheckPreserves ==
  ASSUME CoreInv, NEW c \in Callers, LockForCheck(c) PROVE Preserved
<1>0. TypeOK /\ LockInv /\ RoundsInv /\ CacheInv /\ \A e \in Callers, q \in Repos : CallerInv(e, q)
  BY Parts
<1> USE CacheAssumption, <1>0 DEF TypeOK, Versions, LockForCheck, Goto, envVars, cacheVars, scanVars, fetchVars
<1>1. TypeOK'
  OBVIOUS
<1>2. LockInv'
  BY DEF LockInv
<1>3. RoundsInv'
  BY DEF RoundsInv, LockInv
<1>4. CacheInv'
  BY DEF CacheInv
<1>5. ASSUME NEW e \in Callers, NEW q \in Repos PROVE CallerInv(e, q)'
  <2>0. /\ CallerInv(e, q) /\ releases[q] \in Int /\ latest[q] \in Int
        /\ fresh[e][q] \in Int /\ floor[e][q] \in Int /\ got[e][q] \in Int
        /\ releases[q] >= 0 /\ releases[q] <= latest[q]
    BY DEF CacheInv
  <2>1. CASE e = c
    BY <2>0, <2>1 DEF CallerInv, FetchInv, FloorInv, AnswerInv, CacheInv, LockInv
  <2>2. CASE e # c
    BY <2>0, <2>2 DEF CallerInv, FetchInv, FloorInv, AnswerInv, CacheInv, LockInv
  <2>. QED
    BY <2>1, <2>2
<1>. QED
  BY <1>1, <1>2, <1>3, <1>4, <1>5 DEF Preserved

LEMMA ScanPreserves ==
  ASSUME CoreInv, NEW c \in Callers, NEW d \in Devices, Scan(c, d) PROVE Preserved
<1>0. TypeOK /\ LockInv /\ RoundsInv /\ CacheInv /\ \A e \in Callers, q \in Repos : CallerInv(e, q)
  BY Parts
<1> USE CacheAssumption, <1>0 DEF TypeOK, Versions, Scan, Goto, envVars, cacheVars, scanVars, fetchVars
<1>1. TypeOK'
  <2>1. CASE ~online[d]
    BY <2>1
  <2>2. CASE online[d]
    <3>1. [k \in Containers |-> IF Host[k] = d THEN running[k] ELSE tags[c][k]] \in [Containers -> Versions]
      OBVIOUS
    <3>2. tags' \in [Callers -> [Containers -> Versions]]
      BY <2>2, <3>1
    <3>3. warned' \in SUBSET Containers /\ todo' \in [Callers -> SUBSET Devices]
      BY <2>2
    <3>. QED
      BY <2>2, <3>2, <3>3
  <2>. QED
    BY <2>1, <2>2
<1>2. LockInv'
  BY DEF LockInv
<1>3. RoundsInv'
  BY DEF RoundsInv, LockInv
<1>4. CacheInv'
  BY DEF CacheInv
<1>5. ASSUME NEW e \in Callers, NEW q \in Repos PROVE CallerInv(e, q)'
  <2>0. /\ CallerInv(e, q) /\ releases[q] \in Int /\ latest[q] \in Int
        /\ fresh[e][q] \in Int /\ floor[e][q] \in Int /\ got[e][q] \in Int
        /\ releases[q] >= 0 /\ releases[q] <= latest[q]
    BY DEF CacheInv
  <2>1. CASE e = c
    BY <2>0, <2>1 DEF CallerInv, FetchInv, FloorInv, AnswerInv, CacheInv, LockInv
  <2>2. CASE e # c
    BY <2>0, <2>2 DEF CallerInv, FetchInv, FloorInv, AnswerInv, CacheInv, LockInv
  <2>. QED
    BY <2>1, <2>2
<1>. QED
  BY <1>1, <1>2, <1>3, <1>4, <1>5 DEF Preserved

LEMMA ScanDonePreserves ==
  ASSUME CoreInv, NEW c \in Callers, ScanDone(c) PROVE Preserved
<1>0. TypeOK /\ LockInv /\ RoundsInv /\ CacheInv /\ \A e \in Callers, q \in Repos : CallerInv(e, q)
  BY Parts
<1> USE CacheAssumption, <1>0 DEF TypeOK, Versions, ScanDone, Goto, Forced, StartFetch, ReposOf, envVars, cacheVars, scanVars, fetchVars
<1>1. TypeOK'
  <2>1. ReposOf(c) \in SUBSET Repos
    OBVIOUS
  <2>2. pending' \in [Callers -> SUBSET Repos]
    <3>1. CASE kind[c] = "check"
      BY <2>1, <3>1
    <3>2. CASE kind[c] # "check"
      BY <3>2
    <3>. QED
      BY <3>1, <3>2
  <2>3. \E l \in {"fetch", "lookup"} : pc' = [pc EXCEPT ![c] = l]
    OBVIOUS
  <2>. QED
    BY <2>2, <2>3
<1>2. LockInv'
  BY DEF LockInv
<1>3. RoundsInv'
  BY DEF RoundsInv, LockInv
<1>4. CacheInv'
  BY DEF CacheInv
<1>5. ASSUME NEW e \in Callers, NEW q \in Repos PROVE CallerInv(e, q)'
  <2>0. /\ CallerInv(e, q) /\ releases[q] \in Int /\ latest[q] \in Int
        /\ fresh[e][q] \in Int /\ floor[e][q] \in Int /\ got[e][q] \in Int
        /\ releases[q] >= 0 /\ releases[q] <= latest[q]
    BY DEF CacheInv
  <2>1. CASE e = c
    BY <2>0, <2>1 DEF CallerInv, FetchInv, FloorInv, AnswerInv, CacheInv, LockInv
  <2>2. CASE e # c
    BY <2>0, <2>2 DEF CallerInv, FetchInv, FloorInv, AnswerInv, CacheInv, LockInv
  <2>. QED
    BY <2>1, <2>2
<1>. QED
  BY <1>1, <1>2, <1>3, <1>4, <1>5 DEF Preserved

LEMMA LookupPreserves ==
  ASSUME CoreInv, NEW c \in Callers, Lookup(c) PROVE Preserved
<1>0. TypeOK /\ LockInv /\ RoundsInv /\ CacheInv /\ \A e \in Callers, q \in Repos : CallerInv(e, q)
  BY Parts
<1> USE CacheAssumption, <1>0 DEF TypeOK, Versions, Lookup, Goto, Fresh, Valid, Expires, Answer, envVars, cacheVars, scanVars, fetchVars
<1>1. TypeOK'
  <2>1. got' = got \/ got' = [got EXCEPT ![c] = releases]
    OBVIOUS
  <2>2. \E l \in {"answered", "refresh"} : pc' = [pc EXCEPT ![c] = l]
    OBVIOUS
  <2>3. got' \in [Callers -> [Repos -> Versions]]
    BY <2>1
  <2>4. pc' \in [Callers -> {"idle", "force", "scan", "lookup", "refresh", "fetch", "answered"}]
    BY <2>2
  <2>. QED
    BY <2>3, <2>4
<1>2. LockInv'
  BY DEF LockInv
<1>3. RoundsInv'
  BY DEF RoundsInv, LockInv
<1>4. CacheInv'
  BY DEF CacheInv
<1>5. ASSUME NEW e \in Callers, NEW q \in Repos PROVE CallerInv(e, q)'
  <2>0. /\ CallerInv(e, q) /\ releases[q] \in Int /\ latest[q] \in Int
        /\ fresh[e][q] \in Int /\ floor[e][q] \in Int /\ got[e][q] \in Int
        /\ releases[q] >= 0 /\ releases[q] <= latest[q]
    BY DEF CacheInv
  <2>1. CASE e = c
    BY <2>0, <2>1 DEF CallerInv, FetchInv, FloorInv, AnswerInv, CacheInv, LockInv
  <2>2. CASE e # c
    BY <2>0, <2>2 DEF CallerInv, FetchInv, FloorInv, AnswerInv, CacheInv, LockInv
  <2>. QED
    BY <2>1, <2>2
<1>. QED
  BY <1>1, <1>2, <1>3, <1>4, <1>5 DEF Preserved

LEMMA LockForRefreshPreserves ==
  ASSUME CoreInv, NEW c \in Callers, LockForRefresh(c) PROVE Preserved
<1>0. TypeOK /\ LockInv /\ RoundsInv /\ CacheInv /\ \A e \in Callers, q \in Repos : CallerInv(e, q)
  BY Parts
<1> USE CacheAssumption, <1>0 DEF TypeOK, Versions, LockForRefresh, Goto, RefreshAllowed, Recheck, Fresh, Valid, Expires, StartFetch, ReposOf, Answer, envVars, cacheVars, scanVars, fetchVars
<1>1. TypeOK'
  <2>1. ReposOf(c) \in SUBSET Repos
    OBVIOUS
  <2>2. pending' = pending \/ pending' = [pending EXCEPT ![c] = ReposOf(c)]
    OBVIOUS
  <2>3. got' = got \/ got' = [got EXCEPT ![c] = releases]
    OBVIOUS
  <2>4. \E l \in {"answered", "fetch"} : pc' = [pc EXCEPT ![c] = l]
    OBVIOUS
  <2>5. rounds' \in Nat /\ refreshMu' \in Callers \cup {NoOne}
    OBVIOUS
  <2>6. pending' \in [Callers -> SUBSET Repos]
    BY <2>1, <2>2
  <2>7. got' \in [Callers -> [Repos -> Versions]]
    BY <2>3
  <2>8. pc' \in [Callers -> {"idle", "force", "scan", "lookup", "refresh", "fetch", "answered"}]
    BY <2>4
  <2>. QED
    BY <2>5, <2>6, <2>7, <2>8
<1>2. LockInv'
  BY DEF LockInv
<1>3. RoundsInv'
  BY DEF RoundsInv, LockInv
<1>4. CacheInv'
  BY DEF CacheInv
<1>5. ASSUME NEW e \in Callers, NEW q \in Repos PROVE CallerInv(e, q)'
  <2>0. /\ CallerInv(e, q) /\ releases[q] \in Int /\ latest[q] \in Int
        /\ fresh[e][q] \in Int /\ floor[e][q] \in Int /\ got[e][q] \in Int
        /\ releases[q] >= 0 /\ releases[q] <= latest[q]
    BY DEF CacheInv
  <2>1. CASE e = c
    BY <2>0, <2>1 DEF CallerInv, FetchInv, FloorInv, AnswerInv, CacheInv, LockInv
  <2>2. CASE e # c
    BY <2>0, <2>2 DEF CallerInv, FetchInv, FloorInv, AnswerInv, CacheInv, LockInv
  <2>. QED
    BY <2>1, <2>2
<1>. QED
  BY <1>1, <1>2, <1>3, <1>4, <1>5 DEF Preserved

LEMMA FetchOKPreserves ==
  ASSUME CoreInv, NEW c \in Callers, NEW r \in Repos, FetchOK(c, r) PROVE Preserved
<1>0. TypeOK /\ LockInv /\ RoundsInv /\ CacheInv /\ \A e \in Callers, q \in Repos : CallerInv(e, q)
  BY Parts
<1> USE CacheAssumption, <1>0 DEF TypeOK, Versions, FetchOK, Goto, envVars, cacheVars, scanVars, fetchVars
<1>1. TypeOK'
  OBVIOUS
<1>2. LockInv'
  BY DEF LockInv
<1>3. RoundsInv'
  BY DEF RoundsInv, LockInv
<1>4. CacheInv'
  BY DEF CacheInv
<1>5. ASSUME NEW e \in Callers, NEW q \in Repos PROVE CallerInv(e, q)'
  <2>0. /\ CallerInv(e, q) /\ releases[q] \in Int /\ latest[q] \in Int
        /\ fresh[e][q] \in Int /\ floor[e][q] \in Int /\ got[e][q] \in Int
        /\ releases[q] >= 0 /\ releases[q] <= latest[q]
    BY DEF CacheInv
  <2>1. CASE e = c
    BY <2>0, <2>1 DEF CallerInv, FetchInv, FloorInv, AnswerInv, CacheInv, LockInv
  <2>2. CASE e # c
    BY <2>0, <2>2 DEF CallerInv, FetchInv, FloorInv, AnswerInv, CacheInv, LockInv
  <2>. QED
    BY <2>1, <2>2
<1>. QED
  BY <1>1, <1>2, <1>3, <1>4, <1>5 DEF Preserved

LEMMA FetchFailsPreserves ==
  ASSUME CoreInv, NEW c \in Callers, NEW r \in Repos, FetchFails(c, r) PROVE Preserved
<1>0. TypeOK /\ LockInv /\ RoundsInv /\ CacheInv /\ \A e \in Callers, q \in Repos : CallerInv(e, q)
  BY Parts
<1> USE CacheAssumption, <1>0 DEF TypeOK, Versions, FetchFails, Goto, NoEntry, envVars, cacheVars, scanVars, fetchVars
<1>1. TypeOK'
  OBVIOUS
<1>2. LockInv'
  BY DEF LockInv
<1>3. RoundsInv'
  BY DEF RoundsInv, LockInv
<1>4. CacheInv'
  BY DEF CacheInv
<1>5. ASSUME NEW e \in Callers, NEW q \in Repos PROVE CallerInv(e, q)'
  <2>0. /\ CallerInv(e, q) /\ releases[q] \in Int /\ latest[q] \in Int
        /\ fresh[e][q] \in Int /\ floor[e][q] \in Int /\ got[e][q] \in Int
        /\ releases[q] >= 0 /\ releases[q] <= latest[q]
    BY DEF CacheInv
  <2>1. CASE e = c
    BY <2>0, <2>1 DEF CallerInv, FetchInv, FloorInv, AnswerInv, CacheInv, LockInv
  <2>2. CASE e # c
    BY <2>0, <2>2 DEF CallerInv, FetchInv, FloorInv, AnswerInv, CacheInv, LockInv
  <2>. QED
    BY <2>1, <2>2
<1>. QED
  BY <1>1, <1>2, <1>3, <1>4, <1>5 DEF Preserved

LEMMA MergePreserves ==
  ASSUME CoreInv, NEW c \in Callers, Merge(c) PROVE Preserved
<1>0. TypeOK /\ LockInv /\ RoundsInv /\ CacheInv /\ \A e \in Callers, q \in Repos : CallerInv(e, q)
  BY Parts
<1> USE CacheAssumption, <1>0 DEF TypeOK, Versions, Merge, Goto, Merged, Unlock, envVars, cacheVars, scanVars, fetchVars
<1>1. TypeOK'
  OBVIOUS
<1>2. LockInv'
  BY DEF LockInv
<1>3. RoundsInv'
  BY DEF RoundsInv, LockInv
<1>4. CacheInv'
  <2>1. ASSUME NEW q \in Repos PROVE releases'[q] <= latest'[q]
    <3>1. CallerInv(c, q) /\ releases[q] <= latest[q] /\ fresh[c][q] <= latest[q]
      BY DEF CacheInv, CallerInv, FetchInv
    <3>. QED
      BY <3>1
  <2>. QED
    BY <2>1 DEF CacheInv
<1>5. ASSUME NEW e \in Callers, NEW q \in Repos PROVE CallerInv(e, q)'
  <2>0. /\ CallerInv(e, q) /\ releases[q] \in Int /\ latest[q] \in Int
        /\ fresh[e][q] \in Int /\ floor[e][q] \in Int /\ got[e][q] \in Int
        /\ releases[q] >= 0 /\ releases[q] <= latest[q]
    BY DEF CacheInv
  <2>1. CASE e = c
    BY <2>0, <2>1 DEF CallerInv, FetchInv, FloorInv, AnswerInv, CacheInv, LockInv
  <2>2. CASE e # c
    BY <2>0, <2>2 DEF CallerInv, FetchInv, FloorInv, AnswerInv, CacheInv, LockInv
  <2>. QED
    BY <2>1, <2>2
<1>. QED
  BY <1>1, <1>2, <1>3, <1>4, <1>5 DEF Preserved

LEMMA ReturnPreserves ==
  ASSUME CoreInv, NEW c \in Callers, Return(c) PROVE Preserved
<1>0. TypeOK /\ LockInv /\ RoundsInv /\ CacheInv /\ \A e \in Callers, q \in Repos : CallerInv(e, q)
  BY Parts
<1> USE CacheAssumption, <1>0 DEF TypeOK, Versions, Return, Goto, None, envVars, cacheVars, scanVars, fetchVars
<1>1. TypeOK'
  OBVIOUS
<1>2. LockInv'
  BY DEF LockInv
<1>3. RoundsInv'
  BY DEF RoundsInv, LockInv
<1>4. CacheInv'
  BY DEF CacheInv
<1>5. ASSUME NEW e \in Callers, NEW q \in Repos PROVE CallerInv(e, q)'
  <2>0. /\ CallerInv(e, q) /\ releases[q] \in Int /\ latest[q] \in Int
        /\ fresh[e][q] \in Int /\ floor[e][q] \in Int /\ got[e][q] \in Int
        /\ releases[q] >= 0 /\ releases[q] <= latest[q]
    BY DEF CacheInv
  <2>1. CASE e = c
    BY <2>0, <2>1 DEF CallerInv, FetchInv, FloorInv, AnswerInv, CacheInv, LockInv
  <2>2. CASE e # c
    BY <2>0, <2>2 DEF CallerInv, FetchInv, FloorInv, AnswerInv, CacheInv, LockInv
  <2>. QED
    BY <2>1, <2>2
<1>. QED
  BY <1>1, <1>2, <1>3, <1>4, <1>5 DEF Preserved

LEMMA TickPreserves ==
  ASSUME CoreInv, Tick PROVE Preserved
<1>0. TypeOK /\ LockInv /\ RoundsInv /\ CacheInv /\ \A e \in Callers, q \in Repos : CallerInv(e, q)
  BY Parts
<1> USE CacheAssumption, <1>0 DEF TypeOK, Versions, Tick, Goto, envVars, cacheVars, scanVars, fetchVars
<1>1. TypeOK'
  OBVIOUS
<1>2. LockInv'
  BY DEF LockInv
<1>3. RoundsInv'
  BY DEF RoundsInv, LockInv
<1>4. CacheInv'
  BY DEF CacheInv
<1>5. ASSUME NEW e \in Callers, NEW q \in Repos PROVE CallerInv(e, q)'
  BY DEF CallerInv, FetchInv, FloorInv, AnswerInv
<1>. QED
  BY <1>1, <1>2, <1>3, <1>4, <1>5 DEF Preserved

LEMMA PublishPreserves ==
  ASSUME CoreInv, NEW r \in Repos, Publish(r) PROVE Preserved
<1>0. TypeOK /\ LockInv /\ RoundsInv /\ CacheInv /\ \A e \in Callers, q \in Repos : CallerInv(e, q)
  BY Parts
<1> USE CacheAssumption, <1>0 DEF TypeOK, Versions, Publish, Goto, envVars, cacheVars, scanVars, fetchVars
<1>1. TypeOK'
  OBVIOUS
<1>2. LockInv'
  BY DEF LockInv
<1>3. RoundsInv'
  BY DEF RoundsInv, LockInv
<1>4. CacheInv'
  BY DEF CacheInv
<1>5. ASSUME NEW e \in Callers, NEW q \in Repos PROVE CallerInv(e, q)'
  BY DEF CallerInv, FetchInv, FloorInv, AnswerInv
<1>. QED
  BY <1>1, <1>2, <1>3, <1>4, <1>5 DEF Preserved

LEMMA UpgradePreserves ==
  ASSUME CoreInv, NEW k \in Containers, Upgrade(k) PROVE Preserved
<1>0. TypeOK /\ LockInv /\ RoundsInv /\ CacheInv /\ \A e \in Callers, q \in Repos : CallerInv(e, q)
  BY Parts
<1> USE CacheAssumption, <1>0 DEF TypeOK, Versions, Upgrade, Goto, envVars, cacheVars, scanVars, fetchVars
<1>1. TypeOK'
  OBVIOUS
<1>2. LockInv'
  BY DEF LockInv
<1>3. RoundsInv'
  BY DEF RoundsInv, LockInv
<1>4. CacheInv'
  BY DEF CacheInv
<1>5. ASSUME NEW e \in Callers, NEW q \in Repos PROVE CallerInv(e, q)'
  BY DEF CallerInv, FetchInv, FloorInv, AnswerInv
<1>. QED
  BY <1>1, <1>2, <1>3, <1>4, <1>5 DEF Preserved

LEMMA FaultPreserves ==
  ASSUME CoreInv, Fault PROVE Preserved
<1>0. TypeOK /\ LockInv /\ RoundsInv /\ CacheInv /\ \A e \in Callers, q \in Repos : CallerInv(e, q)
  BY Parts
<1> USE CacheAssumption, <1>0 DEF TypeOK, Versions, Fault, Goto, envVars, cacheVars, scanVars, fetchVars
<1>1. TypeOK'
  <2>1. faults' \in 0..MaxFaults
    OBVIOUS
  <2>2. CASE UNCHANGED reachable /\ \E d \in Devices : online' = [online EXCEPT ![d] = ~@]
    <3>1. online' \in [Devices -> BOOLEAN]
      BY <2>2
    <3>. QED
      BY <2>1, <2>2, <3>1
  <2>3. CASE UNCHANGED online /\ \E r \in Repos : reachable' = [reachable EXCEPT ![r] = ~@]
    <3>1. reachable' \in [Repos -> BOOLEAN]
      BY <2>3
    <3>. QED
      BY <2>1, <2>3, <3>1
  <2>. QED
    BY <2>2, <2>3
<1>2. LockInv'
  BY DEF LockInv
<1>3. RoundsInv'
  BY DEF RoundsInv, LockInv
<1>4. CacheInv'
  BY DEF CacheInv
<1>5. ASSUME NEW e \in Callers, NEW q \in Repos PROVE CallerInv(e, q)'
  BY DEF CallerInv, FetchInv, FloorInv, AnswerInv
<1>. QED
  BY <1>1, <1>2, <1>3, <1>4, <1>5 DEF Preserved

LEMMA NextCoreInv == CoreInv /\ [Next]_vars => CoreInv'
<1> SUFFICES ASSUME CoreInv, [Next]_vars PROVE Preserved
  BY DEF Preserved, CoreInv, CacheInv, CallerInv, AnswerInv
<1>1. CASE UNCHANGED vars
  BY <1>1, Parts DEF Preserved, vars, envVars, cacheVars, scanVars, fetchVars, TypeOK, LockInv,
     RoundsInv, CacheInv, CallerInv, FetchInv, FloorInv, AnswerInv
<1>2. CASE Next
  <2>1. ASSUME NEW c \in Callers, BeginList(c) PROVE Preserved
    BY <2>1, BeginListPreserves
  <2>2. ASSUME NEW c \in Callers, BeginCheck(c) PROVE Preserved
    BY <2>2, BeginCheckPreserves
  <2>3. ASSUME NEW c \in Callers, LockForCheck(c) PROVE Preserved
    BY <2>3, LockForCheckPreserves
  <2>4. ASSUME NEW c \in Callers, NEW d \in Devices, Scan(c, d) PROVE Preserved
    BY <2>4, ScanPreserves
  <2>5. ASSUME NEW c \in Callers, ScanDone(c) PROVE Preserved
    BY <2>5, ScanDonePreserves
  <2>6. ASSUME NEW c \in Callers, Lookup(c) PROVE Preserved
    BY <2>6, LookupPreserves
  <2>7. ASSUME NEW c \in Callers, LockForRefresh(c) PROVE Preserved
    BY <2>7, LockForRefreshPreserves
  <2>8. ASSUME NEW c \in Callers, NEW r \in Repos, FetchOK(c, r) PROVE Preserved
    BY <2>8, FetchOKPreserves
  <2>9. ASSUME NEW c \in Callers, NEW r \in Repos, FetchFails(c, r) PROVE Preserved
    BY <2>9, FetchFailsPreserves
  <2>10. ASSUME NEW c \in Callers, Merge(c) PROVE Preserved
    BY <2>10, MergePreserves
  <2>11. ASSUME NEW c \in Callers, Return(c) PROVE Preserved
    BY <2>11, ReturnPreserves
  <2>12. CASE Tick
    BY <2>12, TickPreserves
  <2>13. ASSUME NEW r \in Repos, Publish(r) PROVE Preserved
    BY <2>13, PublishPreserves
  <2>14. ASSUME NEW k \in Containers, Upgrade(k) PROVE Preserved
    BY <2>14, UpgradePreserves
  <2>15. CASE Fault
    BY <2>15, FaultPreserves
  <2>. QED
    BY <1>2, <2>1, <2>2, <2>3, <2>4, <2>5, <2>6, <2>7, <2>8, <2>9, <2>10, <2>11, <2>12, <2>13, <2>14, <2>15 DEF Next, LockStep, Step, Fetch
<1>. QED
  BY <1>1, <1>2

-----------------------------------------------------------------------------
(* What a forced check brings. *)

\* The clauses of CheckedInv of a caller whose request does not move.
LEMMA OthersChecked ==
  ASSUME NEW e \in Callers, NEW q \in Repos, CheckedInv(e, q), faults' = 0 => faults = 0,
         tags'[e] = tags[e], kind'[e] = kind[e], pc'[e] = pc[e], pending'[e] = pending[e],
         fresh'[e] = fresh[e], got'[e] = got[e], floor'[e] = floor[e]
  PROVE  CheckedInv(e, q)'
BY DEF CheckedInv, ReposOf

LEMMA InitCheckInv == Init => CheckInv
BY CacheAssumption DEF Init, CheckInv, CheckedInv

\* A caller's own step: all but the fetches leave CheckedInv as it is, or begin anew.
LEMMA StepChecked ==
  ASSUME CoreInv, CheckInv, NEW c \in Callers, NEW q \in Repos,
         BeginList(c) \/ BeginCheck(c) \/ LockStep(c) \/ Step(c)
  PROVE  CheckedInv(c, q)'
<1> USE CacheAssumption DEF Goto, envVars, cacheVars, scanVars, fetchVars
<1>0. /\ TypeOK /\ LockInv /\ CheckedInv(c, q) /\ FetchInv(c, q) /\ FloorInv(c, q)
      /\ faults = 0 => reachable[q]
  BY DEF CoreInv, CheckInv
<1>1. CASE BeginList(c) \/ BeginCheck(c) \/ LockForCheck(c)
  BY <1>0, <1>1 DEF BeginList, BeginCheck, LockForCheck, CheckedInv, TypeOK
<1>2. CASE \E d \in Devices : Scan(c, d)
  BY <1>0, <1>2 DEF Scan, CheckedInv, TypeOK
<1>3. CASE ScanDone(c)
  BY <1>0, <1>3 DEF ScanDone, Forced, StartFetch, ReposOf, CheckedInv, TypeOK
<1>4. CASE Lookup(c) \/ LockForRefresh(c)
  <2>1. kind[c] = "list" /\ kind' = kind
    BY <1>0, <1>4 DEF Lookup, LockForRefresh, LockInv
  <2>. QED
    BY <2>1 DEF CheckedInv
<1>5. ASSUME NEW r \in Repos, FetchOK(c, r) PROVE CheckedInv(c, q)'
  <2>1. /\ latest[q] \in Int /\ floor[c][q] \in Int /\ floor[c][q] <= latest[q]
        /\ fresh'[c][q] = IF q = r THEN latest[q] ELSE fresh[c][q]
        /\ pending'[c] = pending[c] \ {r} /\ pc[c] = "fetch" /\ pc' = pc
        /\ UNCHANGED <<tags, kind, floor, faults>>
    BY <1>0, <1>5 DEF FetchOK, TypeOK, Versions, FloorInv
  <2>. QED
    BY <1>0, <2>1 DEF CheckedInv, ReposOf
<1>6. ASSUME NEW r \in Repos, FetchFails(c, r) PROVE CheckedInv(c, q)'
  <2>1. faults \in Nat /\ (faults = 0 => reachable[r])
    BY <1>0 DEF TypeOK, CoreInv, CheckInv
  <2>2. faults' # 0
    BY <1>6, <2>1 DEF FetchFails
  <2>. QED
    BY <2>2 DEF CheckedInv
<1>7. CASE Merge(c)
  <2>1. /\ fresh[c][q] \in Int /\ fresh[c][q] >= 0 /\ releases[q] \in Int /\ releases[q] >= 0
        /\ floor[c][q] \in Int
        /\ got'[c][q] = IF fresh[c][q] # 0 THEN fresh[c][q] ELSE releases[q]
        /\ pending[c] = {} /\ pc[c] = "fetch" /\ pc'[c] = "answered"
        /\ UNCHANGED <<tags, kind, floor, faults>>
    BY <1>0, <1>7 DEF Merge, Merged, TypeOK, Versions
  <2>. QED
    BY <1>0, <2>1 DEF CheckedInv, ReposOf
<1>8. CASE Return(c)
  BY <1>0, <1>8 DEF Return, CheckedInv, TypeOK
<1>. QED
  BY <1>1, <1>2, <1>3, <1>4, <1>5, <1>6, <1>7, <1>8 DEF LockStep, Step, Fetch

LEMMA NextCheckInv ==
  ASSUME CoreInv, CheckInv, [Next]_vars PROVE CheckInv'
<1>0. TypeOK /\ \A e \in Callers, q \in Repos : CheckedInv(e, q)
  BY DEF CoreInv, CheckInv
<1>1. (faults = 0 => \A r \in Repos : reachable[r])' /\ (faults' = 0 => faults = 0)
  <2>1. CASE UNCHANGED <<faults, reachable>>
    BY <2>1 DEF CheckInv
  <2>2. CASE faults' = faults + 1
    <3>1. faults \in Nat
      BY <1>0 DEF TypeOK
    <3>. QED
      BY <2>2, <3>1
  <2>3. UNCHANGED <<faults, reachable>> \/ faults' = faults + 1
    BY DEF Next, LockStep, Step, Fetch, BeginList, BeginCheck, LockForCheck, Scan, ScanDone, Lookup,
       LockForRefresh, FetchOK, FetchFails, Merge, Return, Tick, Publish, Upgrade, Fault, vars,
       envVars
  <2>. QED
    BY <2>1, <2>2, <2>3, <1>0 DEF TypeOK
<1>2. ASSUME NEW e \in Callers, NEW q \in Repos PROVE CheckedInv(e, q)'
  <2>1. CASE BeginList(e) \/ BeginCheck(e) \/ LockStep(e) \/ Step(e)
    BY <2>1, StepChecked
  <2>2. ASSUME NEW c \in Callers, c # e, BeginList(c) \/ BeginCheck(c) \/ LockStep(c) \/ Step(c)
        PROVE  /\ tags'[e] = tags[e] /\ kind'[e] = kind[e] /\ pc'[e] = pc[e]
               /\ pending'[e] = pending[e] /\ fresh'[e] = fresh[e] /\ got'[e] = got[e]
               /\ floor'[e] = floor[e]
    <3> USE <1>0, <2>2 DEF TypeOK, Goto, scanVars, fetchVars
    <3>1. CASE BeginList(c) \/ BeginCheck(c) \/ LockForCheck(c)
      BY <3>1 DEF BeginList, BeginCheck, LockForCheck
    <3>2. CASE LockForRefresh(c) \/ Lookup(c) \/ ScanDone(c)
      BY <3>2 DEF LockForRefresh, Lookup, ScanDone, Answer, StartFetch
    <3>3. CASE \E d \in Devices : Scan(c, d)
      BY <3>3 DEF Scan
    <3>4. CASE \E r \in Repos : FetchOK(c, r) \/ FetchFails(c, r)
      BY <3>4 DEF FetchOK, FetchFails, NoEntry
    <3>5. CASE Merge(c) \/ Return(c)
      BY <3>5 DEF Merge, Return
    <3>. QED
      BY <3>1, <3>2, <3>3, <3>4, <3>5 DEF LockStep, Step, Fetch
  <2>3. CASE Tick \/ Fault \/ (\E r \in Repos : Publish(r)) \/ (\E k \in Containers : Upgrade(k))
             \/ UNCHANGED vars
    <3>1. UNCHANGED <<pc, scanVars, fetchVars>>
      BY <2>3 DEF Tick, Fault, Publish, Upgrade, vars
    <3>. QED
      BY <1>0, <1>1, <3>1, OthersChecked DEF scanVars, fetchVars
  <2>. QED
    BY <1>0, <1>1, <2>1, <2>2, <2>3, OthersChecked DEF Next
<1>. QED
  BY <1>1, <1>2 DEF CheckInv

\* The inductive invariant of the release cache.
THEOREM Inductive == Spec => []IInv
<1>1. Init => IInv
  BY InitCoreInv, InitCheckInv DEF IInv
<1>2. IInv /\ [Next]_vars => IInv'
  BY NextCoreInv, NextCheckInv DEF IInv
<1>. QED
  BY <1>1, <1>2, PTL DEF Spec

\* Every variable keeps its type, for any constants.
THEOREM TypeCorrect == Spec => []TypeOK
<1>1. IInv => TypeOK
  BY DEF IInv, CoreInv
<1>. QED
  BY <1>1, Inductive, PTL

\* However many list requests find the cache expired, one of them refreshes it.
THEOREM NoStampede == Spec => []OneRefreshPerExpiry
<1>1. IInv => OneRefreshPerExpiry
  BY DEF IInv, CoreInv, RoundsInv, OneRefreshPerExpiry
<1>. QED
  BY <1>1, Inductive, PTL

\* Nothing a request knew, or asked upstream for, is missing from its answer.
THEOREM AnswersFresh == Spec => []AnswerNotOlder
<1>1. IInv => AnswerNotOlder
  <2> SUFFICES ASSUME IInv, NEW c \in Callers, pc[c] = "answered", NEW r \in Repos,
                      kind[c] = "list" \/ fresh[c][r] # 0 \/ (faults = 0 /\ r \in ReposOf(c))
               PROVE  got[c][r] >= floor[c][r]
    BY DEF AnswerNotOlder
  <2>1. AnswerInv(c, r) /\ CheckedInv(c, r) /\ kind[c] \in {"list", "check"}
    BY DEF IInv, CoreInv, CheckInv, TypeOK
  <2>. QED
    BY <2>1 DEF AnswerInv, CheckedInv
<1>. QED
  BY <1>1, Inductive, PTL

\* Only Merge writes the cache, and what it writes is not older.
LEMMA StepKeepsReleases ==
  ASSUME IInv, [Next]_vars, NEW r \in Repos PROVE releases'[r] >= releases[r]
<1>1. releases[r] \in Int
  BY DEF IInv, CoreInv, TypeOK, Versions
<1>2. ASSUME NEW c \in Callers, Merge(c) PROVE releases'[r] >= releases[r]
  BY <1>1, <1>2 DEF Merge, Merged, IInv, CoreInv, TypeOK, Versions, FetchInv
<1>3. CASE UNCHANGED releases
  BY <1>1, <1>3
<1>4. UNCHANGED releases \/ \E c \in Callers : Merge(c)
  BY DEF Next, LockStep, Step, Fetch, BeginList, BeginCheck, LockForCheck, Scan, ScanDone, Lookup,
     LockForRefresh, FetchOK, FetchFails, Return, Tick, Publish, Upgrade, Fault, vars, cacheVars
<1>. QED
  BY <1>2, <1>3, <1>4

\* A cached release is never lost nor replaced by an older one.
THEOREM CacheMonotone == Spec => NeverBackwards
<1>1. IInv /\ [Next]_vars => [\A r \in Repos : releases'[r] >= releases[r]]_vars
  BY StepKeepsReleases
<1>. QED
  BY <1>1, Inductive, PTL DEF Spec, NeverBackwards

-----------------------------------------------------------------------------
(* The endpoints keep the promise of ReleaseBoard. *)

\* A step that moves no request between asked and told is a stutter.
LEMMA Stutters ==
  ASSUME TypeOK, UNCHANGED <<latest, releases, got>>,
         \A c \in Callers : Stage(pc'[c]) = Stage(pc[c])
  PROVE  UNCHANGED Board!vars
  BY DEF Board!vars

\* How a step of one caller moves its request.
LEMMA StageMoves ==
  ASSUME TypeOK, NEW c \in Callers, NEW l, pc' = [pc EXCEPT ![c] = l]
  PROVE  /\ [d \in Callers |-> Stage(pc'[d])] = [[d \in Callers |-> Stage(pc[d])] EXCEPT ![c] = Stage(l)]
         /\ Stage(l) = Stage(pc[c]) => \A d \in Callers : Stage(pc'[d]) = Stage(pc[d])
  BY DEF TypeOK

\* The moment at which a request reads the board, be it the look at the cache or
\* the merge of what it has fetched.
LEMMA TellRefines ==
  ASSUME TypeOK, NEW c \in Callers, pc[c] \in {"lookup", "refresh", "fetch"},
         pc' = [pc EXCEPT ![c] = "answered"], got' = [got EXCEPT ![c] = releases'],
         latest' = latest, releases' \in [Repos -> Versions],
         \A r \in Repos : releases[r] <= releases'[r] /\ releases'[r] <= latest[r]
  PROVE  Board!Tell(c)
<1>1. releases' \in [Repos -> Nat]
  BY CacheAssumption DEF Versions
<1>2. [d \in Callers |-> Stage(pc[d])][c] = "asked" /\ Stage("answered") = "told"
  BY DEF Stage
<1>3. [d \in Callers |-> Stage(pc'[d])]
        = [[d \in Callers |-> Stage(pc[d])] EXCEPT ![c] = Stage("answered")]
  BY StageMoves
<1>. QED
  BY <1>1, <1>2, <1>3 DEF Board!Tell, Board!Learn

\* The stages of the labels a request passes through.
LEMMA Stages ==
  /\ Stage("idle") = "idle" /\ Stage("answered") = "told"
  /\ \A l \in {"force", "scan", "lookup", "refresh", "fetch"} : Stage(l) = "asked"
  BY DEF Stage

LEMMA BoardStep == IInv /\ [Next]_vars => [Board!Next]_(Board!vars)
<1> SUFFICES ASSUME IInv, [Next]_vars PROVE Board!Next \/ UNCHANGED Board!vars
  OBVIOUS
<1>0. /\ TypeOK /\ LockInv /\ CacheInv
      /\ \A c \in Callers, r \in Repos : FetchInv(c, r)
  BY DEF IInv, CoreInv, CacheInv
<1>1. ASSUME NEW c \in Callers, BeginList(c) \/ BeginCheck(c) PROVE Board!Next
  <2>1. PICK l \in {"scan", "force"} : pc' = [pc EXCEPT ![c] = l] /\ pc[c] = "idle"
    BY <1>1 DEF BeginList, BeginCheck, Goto
  <2>2. UNCHANGED <<latest, releases, got>>
    BY <1>1 DEF BeginList, BeginCheck, envVars, cacheVars, fetchVars
  <2>3. [d \in Callers |-> Stage(pc'[d])] = [[d \in Callers |-> Stage(pc[d])] EXCEPT ![c] = Stage(l)]
    BY <1>0, <2>1, StageMoves
  <2>4. Board!Ask(c)
    BY <2>1, <2>2, <2>3, Stages DEF Board!Ask
  <2>. QED
    BY <2>4 DEF Board!Next
<1>2. ASSUME NEW c \in Callers,
             LockForCheck(c) \/ (\E d \in Devices : Scan(c, d)) \/ ScanDone(c)
             \/ (\E r \in Repos : FetchOK(c, r) \/ FetchFails(c, r))
      PROVE  UNCHANGED Board!vars
  <2>1. UNCHANGED <<latest, releases, got>>
    BY <1>2 DEF LockForCheck, Scan, ScanDone, FetchOK, FetchFails, StartFetch, envVars, cacheVars,
                fetchVars
  <2>2. \/ UNCHANGED pc
        \/ \E l \in {"scan", "fetch", "lookup"} :
               pc[c] \in {"force", "scan"} /\ pc' = [pc EXCEPT ![c] = l]
    BY <1>2 DEF LockForCheck, Scan, ScanDone, FetchOK, FetchFails, StartFetch, Goto
  <2>3. \A d \in Callers : Stage(pc'[d]) = Stage(pc[d])
    <3>1. ASSUME NEW l \in {"scan", "fetch", "lookup"}, pc[c] \in {"force", "scan"},
                 pc' = [pc EXCEPT ![c] = l]
          PROVE  \A d \in Callers : Stage(pc'[d]) = Stage(pc[d])
      <4>1. Stage(l) = Stage(pc[c])
        BY <3>1, Stages
      <4>. QED
        BY <1>0, <3>1, <4>1, StageMoves
    <3>. QED
      BY <2>2, <3>1
  <2>. QED
    BY <1>0, <2>1, <2>3, Stutters
<1>3. ASSUME NEW c \in Callers, Lookup(c) \/ LockForRefresh(c)
      PROVE  Board!Next \/ UNCHANGED Board!vars
  <2>1. UNCHANGED <<latest, releases>> /\ pc[c] \in {"lookup", "refresh"}
    BY <1>3 DEF Lookup, LockForRefresh, envVars, cacheVars
  <2>2. CASE Answer(c)
    <3>1. Board!Tell(c)
      <4>1. pc' = [pc EXCEPT ![c] = "answered"] /\ got' = [got EXCEPT ![c] = releases']
        BY <2>1, <2>2 DEF Answer, Goto
      <4>2. latest' = latest /\ releases' \in [Repos -> Versions]
        BY <1>0, <2>1 DEF TypeOK
      <4>3. ASSUME NEW r \in Repos
            PROVE  releases[r] <= releases'[r] /\ releases'[r] <= latest[r]
        BY <1>0, <2>1, CacheAssumption DEF CacheInv, TypeOK, Versions
      <4>4. \A r \in Repos : releases[r] <= releases'[r] /\ releases'[r] <= latest[r]
        BY <4>3
      <4>5. pc[c] \in {"lookup", "refresh", "fetch"}
        BY <2>1
      <4>. QED
        BY <1>0, <4>1, <4>2, <4>4, <4>5, TellRefines
    <3>. QED
      BY <3>1 DEF Board!Next
  <2>3. CASE ~Answer(c)
    <3>1. UNCHANGED got /\ \E l \in {"refresh", "fetch"} : pc' = [pc EXCEPT ![c] = l]
      BY <1>3, <2>3 DEF Lookup, LockForRefresh, StartFetch, Goto
    <3>2. \A d \in Callers : Stage(pc'[d]) = Stage(pc[d])
      <4>1. PICK l \in {"refresh", "fetch"} : pc' = [pc EXCEPT ![c] = l]
        BY <3>1
      <4>2. Stage(l) = Stage(pc[c])
        BY <2>1, Stages
      <4>. QED
        BY <1>0, <4>1, <4>2, StageMoves
    <3>. QED
      BY <1>0, <2>1, <3>1, <3>2, Stutters
  <2>. QED
    BY <2>2, <2>3
<1>4. ASSUME NEW c \in Callers, Merge(c) PROVE Board!Next
  <2>1. /\ pc[c] = "fetch" /\ pc' = [pc EXCEPT ![c] = "answered"] /\ latest' = latest
        /\ got' = [got EXCEPT ![c] = releases'] /\ releases' = Merged(c)
    BY <1>4 DEF Merge, Goto, envVars
  <2>2. releases' \in [Repos -> Versions]
    BY <1>0, <2>1 DEF Merged, TypeOK
  <2>3. ASSUME NEW r \in Repos
        PROVE  releases[r] <= releases'[r] /\ releases'[r] <= latest[r]
    BY <1>0, <2>1 DEF Merged, TypeOK, Versions, FetchInv, CacheInv
  <2>4. Board!Tell(c)
    <3>1. \A r \in Repos : releases[r] <= releases'[r] /\ releases'[r] <= latest[r]
      BY <2>3
    <3>2. pc[c] \in {"lookup", "refresh", "fetch"}
      BY <2>1
    <3>. QED
      BY <1>0, <2>1, <2>2, <3>1, <3>2, TellRefines
  <2>. QED
    BY <2>4 DEF Board!Next
<1>5. ASSUME NEW c \in Callers, Return(c) PROVE Board!Next
  <2>1. /\ pc[c] = "answered" /\ pc' = [pc EXCEPT ![c] = "idle"]
        /\ got' = [got EXCEPT ![c] = None] /\ UNCHANGED <<latest, releases>>
    BY <1>5 DEF Return, Goto, envVars, cacheVars
  <2>2. [d \in Callers |-> Stage(pc'[d])] = [[d \in Callers |-> Stage(pc[d])] EXCEPT ![c] = "idle"]
    BY <1>0, <2>1, StageMoves DEF Stage
  <2>3. Board!Return(c)
    BY <2>1, <2>2 DEF Board!Return, Board!Nothing, None, Stage
  <2>. QED
    BY <2>3 DEF Board!Next
<1>6. ASSUME NEW r \in Repos, Publish(r) PROVE Board!Next
  <2>1. Board!Publish(r)
    BY <1>6 DEF Publish, Board!Publish, cacheVars, fetchVars
  <2>. QED
    BY <2>1 DEF Board!Next
<1>7. CASE Tick \/ Fault \/ (\E k \in Containers : Upgrade(k)) \/ UNCHANGED vars
  BY <1>7 DEF Tick, Fault, Upgrade, vars, envVars, cacheVars, fetchVars, Board!vars
<1>. QED
  BY <1>1, <1>2, <1>3, <1>4, <1>5, <1>6, <1>7 DEF Next, LockStep, Step, Fetch

\* updates_service.go, with its TTL, its lock and its concurrent fetches, is a board
\* that is read atomically and only ever gains newer releases.
THEOREM ImplementsBoard == Spec => KeepsPromise
<1>1. Init => Board!Init
  <2> SUFFICES ASSUME Init PROVE Board!Init
    OBVIOUS
  <2>1. [c \in Callers |-> Stage(pc[c])] = [c \in Callers |-> "idle"]
    BY DEF Init, Stage
  <2>. QED
    BY <2>1 DEF Init, Board!Init, Board!Nothing, None
<1>. QED
  BY <1>1, Inductive, BoardStep, PTL DEF Spec, KeepsPromise, Board!Spec

-----------------------------------------------------------------------------
(* What an announced update is worth. *)

\* No answer is ahead of the cache it was read from.
GotInv == \A c \in Callers, r \in Repos : got[c][r] <= releases[r]

LEMMA NextGotInv ==
  ASSUME IInv, GotInv, [Next]_vars PROVE GotInv'
<1> SUFFICES ASSUME NEW c \in Callers, NEW r \in Repos PROVE got'[c][r] <= releases'[r]
  BY DEF GotInv
<1>1. /\ releases[r] \in Nat /\ got[c][r] \in Nat /\ releases'[r] \in Nat
      /\ got[c][r] <= releases[r] /\ releases[r] <= releases'[r]
  <2>1. TypeOK /\ TypeOK'
    BY NextCoreInv DEF IInv, CoreInv
  <2>. QED
    BY <2>1, StepKeepsReleases, CacheAssumption DEF TypeOK, Versions, GotInv
<1>2. \/ got' = got \/ got' = [got EXCEPT ![c] = releases] \/ got' = [got EXCEPT ![c] = releases']
      \/ got' = [got EXCEPT ![c] = None]
      \/ \E d \in Callers \ {c} : \E new : got' = [got EXCEPT ![d] = new]
  BY DEF Next, LockStep, Step, Fetch, BeginList, BeginCheck, LockForCheck, Scan, ScanDone, Lookup,
     LockForRefresh, FetchOK, FetchFails, Merge, Return, Tick, Publish, Upgrade, Fault, Answer,
     vars, fetchVars
<1>3. got \in [Callers -> [Repos -> Versions]]
  BY DEF IInv, CoreInv, TypeOK
<1>. QED
  BY <1>1, <1>2, <1>3 DEF None

\* An update that is announced is a published release.  It is not always newer than
\* what runs (UpdateIsNewer); it is, unless the container was upgraded past what was
\* cached (forced check: past what was published) when the request arrived.
AnnouncedIsReal ==
    \A c \in Callers, k \in Containers :
        pc[c] = "answered" /\ tags[c][k] # 0 /\ Status(c, k) = "updateAvailable" =>
            LET r == Source[k] IN
            /\ got[c][r] \in 1..latest[r]
            /\ (kind[c] = "list" \/ fresh[c][r] # 0) /\ tags[c][k] <= floor[c][r]
                  => got[c][r] > tags[c][k]

\* buildUpdateItems announces published releases, and old ones only of containers
\* that have been upgraded behind the cache's back.
THEOREM AnnouncedUpdates == Spec => []AnnouncedIsReal
<1>1. Init => GotInv
  BY CacheAssumption DEF Init, GotInv, None
<1>2. IInv /\ GotInv => AnnouncedIsReal
  <2> SUFFICES ASSUME IInv, GotInv, NEW c \in Callers, NEW k \in Containers,
                      pc[c] = "answered", tags[c][k] # 0, Status(c, k) = "updateAvailable"
               PROVE  /\ got[c][Source[k]] \in 1..latest[Source[k]]
                      /\ (kind[c] = "list" \/ fresh[c][Source[k]] # 0)
                         /\ tags[c][k] <= floor[c][Source[k]] => got[c][Source[k]] > tags[c][k]
    BY DEF AnnouncedIsReal
  <2>1. Source[k] # NoRepo /\ got[c][Source[k]] # 0 /\ got[c][Source[k]] # tags[c][k]
    BY DEF Status
  <2>2. Source[k] \in Repos
    BY <2>1, CacheAssumption
  <2>3. TypeOK /\ releases[Source[k]] <= latest[Source[k]] /\ AnswerInv(c, Source[k])
    BY <2>2 DEF IInv, CoreInv
  <2>4. /\ got[c][Source[k]] \in Nat /\ latest[Source[k]] \in Nat /\ releases[Source[k]] \in Nat
        /\ tags[c][k] \in Nat /\ floor[c][Source[k]] \in Nat
        /\ got[c][Source[k]] <= releases[Source[k]]
    BY <2>2, <2>3, CacheAssumption DEF TypeOK, Versions, GotInv
  <2>. QED
    BY <2>1, <2>3, <2>4 DEF AnswerInv
<1>. QED
  BY <1>1, <1>2, Inductive, NextGotInv, PTL DEF Spec

-----------------------------------------------------------------------------
(* The safety half of RequestsReturn. *)

\* A caller that waits for nobody: it needs no lock, or the lock is free.
Moves(c) ==
    /\ pc[c] # "idle"
    /\ refreshMu = NoOne \/ pc[c] \notin {"force", "refresh"}

\* As long as a request is under way, one of them is not waiting.
SomebodyMoves == (\E c \in Callers : pc[c] # "idle") => \E c \in Callers : Moves(c)

\* No deadlock, although a forced check holds refreshMu from its scan to its merge:
\* none of what it does in between takes the lock again.
THEOREM NobodyBlocked == Spec => []SomebodyMoves
<1>1. IInv => SomebodyMoves
  <2> SUFFICES ASSUME IInv, NEW c \in Callers, pc[c] # "idle"
               PROVE  \E d \in Callers : Moves(d)
    BY DEF SomebodyMoves
  <2>1. CASE refreshMu = NoOne
    BY <2>1 DEF Moves
  <2>2. CASE refreshMu # NoOne
    <3>1. refreshMu \in Callers
      BY <2>2 DEF IInv, CoreInv, TypeOK
    <3>2. pc[refreshMu] \in {"fetch", "scan"}
      BY <3>1 DEF IInv, CoreInv, LockInv
    <3>. QED
      BY <3>1, <3>2 DEF Moves
  <2>. QED
    BY <2>1, <2>2
<1>. QED
  BY <1>1, Inductive, PTL

\* How many of its own steps a request is from its end, if none waits.
MaxSteps == 6 + Cardinality(Repos) + Cardinality(Devices)
StepsLeft(c) ==
    LET fetches == Cardinality(Repos)
    IN  CASE pc[c] = "idle"     -> 0
          [] pc[c] = "answered" -> 1
          [] pc[c] = "fetch"    -> 2 + Cardinality(pending[c])
          [] pc[c] = "refresh"  -> 3 + fetches
          [] pc[c] = "lookup"   -> 4 + fetches
          [] pc[c] = "scan"     -> 5 + fetches + Cardinality(todo[c])
          [] pc[c] = "force"    -> MaxSteps

\* Every step of a request leaves it fewer, and nobody else's step takes it back.
StepsRunOut ==
    [][\A c \in Callers :
          pc[c] # "idle" =>
              UNCHANGED <<pc[c], todo[c], pending[c]>> \/ StepsLeft(c)' < StepsLeft(c)]_vars

\* What StepsLeft counts with.
LEMMA Counts ==
  ASSUME IsFiniteSet(Repos), IsFiniteSet(Devices), TypeOK, NEW c \in Callers
  PROVE  /\ Cardinality(Repos) \in Nat /\ Cardinality(Devices) \in Nat
         /\ IsFiniteSet(pending[c]) /\ IsFiniteSet(todo[c])
         /\ Cardinality(pending[c]) \in 0..Cardinality(Repos)
         /\ Cardinality(todo[c]) \in 0..Cardinality(Devices)
<1>1. pending[c] \subseteq Repos /\ todo[c] \subseteq Devices
  BY DEF TypeOK
<1>2. /\ IsFiniteSet(pending[c]) /\ Cardinality(pending[c]) <= Cardinality(Repos)
      /\ IsFiniteSet(todo[c]) /\ Cardinality(todo[c]) <= Cardinality(Devices)
  BY <1>1, FS_Subset
<1>3. /\ Cardinality(Repos) \in Nat /\ Cardinality(Devices) \in Nat
      /\ Cardinality(pending[c]) \in Nat /\ Cardinality(todo[c]) \in Nat
  BY <1>2, FS_CardinalityType
<1>. QED
  BY <1>2, <1>3

\* A device scanned, or a fetch that is in, is one step less.
LEMMA OneLess ==
  ASSUME NEW S, IsFiniteSet(S), NEW x \in S
  PROVE  Cardinality(S \ {x}) = Cardinality(S) - 1 /\ Cardinality(S) \in Nat \ {0}
<1>1. Cardinality(S \ {x}) = Cardinality(S) - 1 /\ IsFiniteSet(S \ {x})
  BY FS_RemoveElement
<1>2. Cardinality(S) \in Nat /\ Cardinality(S \ {x}) \in Nat
  BY <1>1, FS_CardinalityType
<1>. QED
  BY <1>1, <1>2

LEMMA StepIsOneLess ==
  ASSUME IsFiniteSet(Repos), IsFiniteSet(Devices), IInv, NEW c \in Callers, pc[c] # "idle",
         LockStep(c) \/ Step(c)
  PROVE  StepsLeft(c)' < StepsLeft(c)
<1>0. TypeOK
  BY DEF IInv, CoreInv
<1>1. TypeOK'
  <2>1. [Next]_vars
    BY DEF Next
  <2>. QED
    BY <2>1, NextCoreInv DEF IInv, CoreInv
<1>2. /\ Cardinality(Repos) \in Nat /\ Cardinality(Devices) \in Nat
      /\ IsFiniteSet(pending[c]) /\ IsFiniteSet(todo[c])
      /\ Cardinality(pending[c]) \in Nat /\ Cardinality(todo[c]) \in Nat
  BY <1>0, Counts
<1>3. Cardinality(pending'[c]) \in 0..Cardinality(Repos)
  <2>1. pending'[c] \subseteq Repos
    BY <1>1 DEF TypeOK
  <2>2. IsFiniteSet(pending'[c]) /\ Cardinality(pending'[c]) <= Cardinality(Repos)
    BY <2>1, FS_Subset
  <2>. QED
    BY <1>2, <2>2, FS_CardinalityType
<1> USE DEF StepsLeft, MaxSteps
<1>4. CASE LockForCheck(c)
  <2>1. pc[c] = "force" /\ pc'[c] = "scan" /\ todo'[c] = Devices
    BY <1>0, <1>4 DEF LockForCheck, Goto, TypeOK
  <2>. QED
    BY <1>2, <2>1
<1>5. CASE LockForRefresh(c)
  <2>1. pc[c] = "refresh" /\ pc'[c] \in {"answered", "fetch"}
    BY <1>0, <1>5 DEF LockForRefresh, Answer, StartFetch, Goto, TypeOK
  <2>. QED
    BY <1>2, <1>3, <2>1
<1>6. ASSUME NEW d \in Devices, Scan(c, d) PROVE StepsLeft(c)' < StepsLeft(c)
  <2>1. pc[c] = "scan" /\ pc' = pc /\ d \in todo[c] /\ todo'[c] = todo[c] \ {d}
    BY <1>0, <1>6 DEF Scan, TypeOK
  <2>2. Cardinality(todo'[c]) = Cardinality(todo[c]) - 1
    BY <1>2, <2>1, OneLess
  <2>. QED
    BY <1>2, <2>1, <2>2
<1>7. CASE ScanDone(c)
  <2>1. pc[c] = "scan" /\ pc'[c] \in {"fetch", "lookup"}
    BY <1>0, <1>7 DEF ScanDone, StartFetch, Goto, TypeOK
  <2>. QED
    BY <1>2, <1>3, <2>1
<1>8. CASE Lookup(c)
  <2>1. pc[c] = "lookup" /\ pc'[c] \in {"answered", "refresh"}
    BY <1>0, <1>8 DEF Lookup, Answer, Goto, TypeOK
  <2>. QED
    BY <1>2, <2>1
<1>9. ASSUME NEW r \in Repos, FetchOK(c, r) \/ FetchFails(c, r)
      PROVE  StepsLeft(c)' < StepsLeft(c)
  <2>1. pc[c] = "fetch" /\ pc' = pc /\ r \in pending[c] /\ pending'[c] = pending[c] \ {r}
    BY <1>0, <1>9 DEF FetchOK, FetchFails, TypeOK
  <2>2. Cardinality(pending'[c]) = Cardinality(pending[c]) - 1
    BY <1>2, <2>1, OneLess
  <2>. QED
    BY <1>2, <2>1, <2>2
<1>10. CASE Merge(c) \/ Return(c)
  <2>1. \/ pc[c] = "fetch" /\ pc'[c] = "answered"
        \/ pc[c] = "answered" /\ pc'[c] = "idle"
    BY <1>0, <1>10 DEF Merge, Return, Goto, TypeOK
  <2>. QED
    BY <1>2, <2>1
<1>. QED
  BY <1>4, <1>5, <1>6, <1>7, <1>8, <1>9, <1>10 DEF LockStep, Step, Fetch

\* A step of another caller, or of the world, leaves a request where it is.
LEMMA OthersWait ==
  ASSUME IInv, [Next]_vars, NEW c \in Callers, pc[c] # "idle", ~LockStep(c), ~Step(c)
  PROVE  UNCHANGED <<pc[c], todo[c], pending[c]>>
<1>0. TypeOK
  BY DEF IInv, CoreInv
<1>1. ASSUME NEW d \in Callers, d # c, BeginList(d) \/ BeginCheck(d) \/ LockStep(d) \/ Step(d)
      PROVE  UNCHANGED <<pc[c], todo[c], pending[c]>>
  <2> USE <1>0, <1>1 DEF TypeOK, Goto, scanVars, fetchVars
  <2>1. CASE BeginList(d) \/ BeginCheck(d) \/ LockForCheck(d)
    BY <2>1 DEF BeginList, BeginCheck, LockForCheck
  <2>2. CASE LockForRefresh(d) \/ Lookup(d) \/ ScanDone(d)
    BY <2>2 DEF LockForRefresh, Lookup, ScanDone, Answer, StartFetch
  <2>3. CASE \E x \in Devices : Scan(d, x)
    BY <2>3 DEF Scan
  <2>4. CASE \E r \in Repos : FetchOK(d, r) \/ FetchFails(d, r)
    BY <2>4 DEF FetchOK, FetchFails
  <2>5. CASE Merge(d) \/ Return(d)
    BY <2>5 DEF Merge, Return
  <2>. QED
    BY <2>1, <2>2, <2>3, <2>4, <2>5 DEF LockStep, Step, Fetch
<1>2. ~BeginList(c) /\ ~BeginCheck(c)
  BY DEF BeginList, BeginCheck
<1>3. CASE Tick \/ Fault \/ (\E r \in Repos : Publish(r)) \/ (\E k \in Containers : Upgrade(k))
           \/ UNCHANGED vars
  BY <1>3 DEF Tick, Fault, Publish, Upgrade, vars, scanVars, fetchVars
<1>. QED
  BY <1>1, <1>2, <1>3 DEF Next

\* A request ends after as many steps of its own as there are devices to scan and
\* repositories to ask, and six more, whatever the others do meanwhile.
THEOREM RequestsAreBounded ==
  ASSUME IsFiniteSet(Repos), IsFiniteSet(Devices)
  PROVE  Spec => StepsRunOut /\ [](\A c \in Callers : StepsLeft(c) \in 0..MaxSteps)
<1>1. IInv /\ [Next]_vars =>
        [\A c \in Callers : pc[c] # "idle" =>
            UNCHANGED <<pc[c], todo[c], pending[c]>> \/ StepsLeft(c)' < StepsLeft(c)]_vars
  BY StepIsOneLess, OthersWait
<1>2. ASSUME IInv, NEW c \in Callers PROVE StepsLeft(c) \in 0..MaxSteps
  <2>1. TypeOK
    BY <1>2 DEF IInv, CoreInv
  <2>2. /\ Cardinality(Repos) \in Nat /\ Cardinality(Devices) \in Nat
        /\ Cardinality(pending[c]) \in 0..Cardinality(Repos)
        /\ Cardinality(todo[c]) \in 0..Cardinality(Devices)
    BY <2>1, Counts
  <2>3. pc[c] \in {"idle", "force", "scan", "lookup", "refresh", "fetch", "answered"}
    BY <2>1 DEF TypeOK
  <2>. QED
    BY <2>2, <2>3 DEF StepsLeft, MaxSteps
<1>3. IInv => \A c \in Callers : StepsLeft(c) \in 0..MaxSteps
  BY <1>2
<1>. QED
  BY <1>1, <1>3, Inductive, PTL DEF Spec, StepsRunOut
=============================================================================
