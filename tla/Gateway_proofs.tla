--------------------------- MODULE Gateway_proofs ---------------------------
(***************************************************************************)
(* Proofs about Gateway, for any backends, things and clients: nobody gets *)
(* to a backend without the token and the scopes that are required, and,   *)
(* as long as no backend has a dot in its name, an ID leads to its thing   *)
(* and a 404 is earned.                                                    *)
(***************************************************************************)
EXTENDS Gateway, SequenceTheorems, TLAPS

-----------------------------------------------------------------------------
(* The inductive invariant behind Authorised. *)

Calling == {"call", "usage", "status", "detail", "target"}

\* What has been checked by the time the request has got where it is.
CheckedInv ==
    /\ pc \in {"idle", "token", "bind", "scope", "service", "call"} => touched = {}
    /\ pc \notin {"idle", "token", "done"} /\ auth.enabled => Valid(credential)
    /\ pc \in Calling \cup {"service"} /\ auth.enabled /\ auth.scopesEnabled =>
           HasScopes(op, credential)
    /\ pc \in Calling => Device \in Backends

AccessInv == TypeOK /\ CheckedInv /\ Authorised

LEMMA InitAccess == Init => AccessInv
<1> SUFFICES ASSUME Init PROVE AccessInv
  OBVIOUS
<1>1. TypeOK
  <2>1. 0 \in 0..MaxChanges
    BY Validated DEF GatewayAssumption
  <2>2. supports \in [Backends -> SUBSET {"docker", "backup"}] /\ up \in [Backends -> BOOLEAN]
    BY DEF Init
  <2>. QED
    BY <2>1, <2>2 DEF Init, TypeOK
<1>2. CheckedInv /\ Authorised
  BY DEF Init, CheckedInv, Authorised, Calling
<1>. QED
  BY <1>1, <1>2 DEF AccessInv

LEMMA ArriveAccess ==
  ASSUME AccessInv, NEW o \in Operations \cup {"meta"}, NEW i, NEW x \in Things \cup {None},
         NEW c \in Credentials, Arrive(o, i, x, c)
  PROVE  AccessInv'
<1> USE DEF AccessInv, Arrive, world
<1>1. TypeOK'
  <2>1. kept' \in SUBSET Things /\ steady' \in SUBSET Backends
    BY DEF TypeOK
  <2>. QED
    BY <2>1 DEF TypeOK
<1>2. CheckedInv' /\ Authorised'
  BY DEF CheckedInv, Authorised, Calling, TypeOK
<1>. QED
  BY <1>1, <1>2

\* An answer without a call.
LEMMA AnswerAccess ==
  ASSUME AccessInv, NEW s \in {200, 401, 400, 403, 404}, Answer(s),
         pc \in {"token", "bind", "scope", "service"}
  PROVE  AccessInv'
<1> USE DEF AccessInv, Answer, world, request
<1>1. TypeOK'
  BY DEF TypeOK
<1>2. CheckedInv' /\ Authorised'
  BY DEF CheckedInv, Authorised, Calling
<1>. QED
  BY <1>1, <1>2

LEMMA PassAccess ==
  ASSUME AccessInv, NEW where \in {"bind", "scope", "service", "call"}, Pass(where),
         pc \in {"token", "bind", "scope", "service"}, CheckedInv'
  PROVE  AccessInv'
<1> USE DEF AccessInv, Pass, world, request
<1>1. TypeOK'
  BY DEF TypeOK
<1>2. Authorised'
  BY DEF CheckedInv, Authorised
<1>. QED
  BY <1>1, <1>2

\* JWTMiddleware and ScopeMiddleware: whoever gets past has what is required.
LEMMA MiddlewareAccess ==
  ASSUME AccessInv, Public \/ JWTMiddleware \/ Bind \/ ScopeMiddleware \/ FindBackend
  PROVE  AccessInv'
<1>1. CASE Public
  BY <1>1, AnswerAccess DEF Public
<1>2. CASE JWTMiddleware
  <2>1. CASE Answer(401)
    BY <1>2, <2>1, AnswerAccess DEF JWTMiddleware
  <2>2. CASE Pass("bind") /\ (auth.enabled => Valid(credential))
    <3>1. CheckedInv'
      BY <1>2, <2>2 DEF AccessInv, CheckedInv, JWTMiddleware, Pass, Calling, Valid, world, request
    <3>. QED
      BY <1>2, <2>2, <3>1, PassAccess DEF JWTMiddleware
  <2>. QED
    BY <1>2, <2>1, <2>2 DEF JWTMiddleware
<1>3. CASE Bind
  <2>1. CASE Answer(400)
    BY <1>3, <2>1, AnswerAccess DEF Bind
  <2>2. CASE Pass("scope")
    <3>1. CheckedInv'
      BY <1>3, <2>2 DEF AccessInv, CheckedInv, Bind, Pass, Calling, Valid, world, request
    <3>. QED
      BY <1>3, <2>2, <3>1, PassAccess DEF Bind
  <2>. QED
    BY <1>3, <2>1, <2>2 DEF Bind
<1>4. CASE ScopeMiddleware
  <2>1. CASE Answer(403)
    BY <1>4, <2>1, AnswerAccess DEF ScopeMiddleware
  <2>2. CASE Pass("service") /\ (auth.enabled /\ auth.scopesEnabled => HasScopes(op, credential))
    <3>1. CheckedInv'
      BY <1>4, <2>2 DEF AccessInv, CheckedInv, ScopeMiddleware, Pass, Calling, Valid, HasScopes,
         world, request
    <3>. QED
      BY <1>4, <2>2, <3>1, PassAccess DEF ScopeMiddleware
  <2>. QED
    BY <1>4, <2>1, <2>2 DEF ScopeMiddleware
<1>5. CASE FindBackend
  <2>1. CASE Answer(404)
    BY <1>5, <2>1, AnswerAccess DEF FindBackend
  <2>2. CASE Pass("call") /\ Device \in Backends
    <3>1. CheckedInv'
      BY <1>5, <2>2 DEF AccessInv, CheckedInv, FindBackend, Find, Pass, Calling, Valid, HasScopes,
         Device, world, request
    <3>. QED
      BY <1>5, <2>2, <3>1, PassAccess DEF FindBackend
  <2>. QED
    BY <1>5, <2>1, <2>2 DEF FindBackend, Find
<1>. QED
  BY <1>1, <1>2, <1>3, <1>4, <1>5

LEMMA MatchingExists == TypeOK => Matching \in SUBSET Things
  BY DEF TypeOK, Matching

\* What the steps of the endpoints share: they come after all checks, and call
\* no backend but the one that has been found.
AfterChecks ==
    /\ UNCHANGED <<world, request, kept>>
    /\ \/ pc' \in Calling \ {"call"} /\ status' = 0
       \/ pc' = "done" /\ status' \in {200, 204, 404, 500}
    /\ touched' \in {touched, touched \cup {Device}}
    /\ found' \in Things \cup {None} /\ extras' \in SUBSET {"status", "detail", "target"}
    /\ ran' \in SUBSET Things /\ steady' \in SUBSET Backends

LEMMA ReadThingAfter ==
  ASSUME TypeOK, NEW next \in {"usage", "status", "done"}, NEW answer \in {0, 200},
         ReadThing(next, answer), answer = 200 <=> next = "done"
  PROVE  AfterChecks
<1>1. /\ UNCHANGED <<world, request, kept, ran, steady>> /\ touched' = touched \cup {Device}
  BY DEF ReadThing
<1>2. CASE End(404) \/ Failed
  <2>1. pc' = "done" /\ status' \in {404, 500} /\ UNCHANGED <<found, extras>>
    BY <1>2 DEF End, Failed
  <2>. QED
    BY <1>1, <2>1 DEF AfterChecks, TypeOK
<1>3. CASE pc' = next /\ status' = answer /\ found' \in Matching /\ UNCHANGED extras
  <2>1. found' \in Things /\ extras' \in SUBSET {"status", "detail", "target"}
    BY <1>3, MatchingExists DEF TypeOK
  <2>2. \/ pc' \in Calling \ {"call"} /\ status' = 0
        \/ pc' = "done" /\ status' \in {200, 204, 404, 500}
    BY <1>3 DEF Calling
  <2>3. ran' \in SUBSET Things /\ steady' \in SUBSET Backends
    BY <1>1 DEF TypeOK
  <2>. QED
    BY <1>1, <2>1, <2>2, <2>3 DEF AfterChecks
<1>. QED
  BY <1>2, <1>3 DEF ReadThing

LEMMA ReadExtraAfter ==
  ASSUME TypeOK, NEW what \in {"status", "detail", "target"}, NEW next \in {"detail", "target", "done"},
         ReadExtra(what, next)
  PROVE  AfterChecks
<1>1. extras' \in SUBSET {"status", "detail", "target"}
  BY DEF ReadExtra, TypeOK
<1>2. pc' = next /\ (next # "done" => status' = 0) /\ (next = "done" => status' = 200)
  BY DEF ReadExtra
<1>. QED
  BY <1>1, <1>2 DEF AfterChecks, ReadExtra, TypeOK, Calling

LEMMA UsageAfter ==
  ASSUME TypeOK, GetContainerResources PROVE AfterChecks
<1>1. End(200) \/ End(500)
  BY DEF GetContainerResources, Failed
<1>. QED
  BY <1>1 DEF AfterChecks, GetContainerResources, End, TypeOK

LEMMA OperateAfter ==
  ASSUME TypeOK, Operate PROVE AfterChecks
<1>1. /\ UNCHANGED <<world, request, kept>> /\ touched' = touched \cup {Device}
      /\ End(404) \/ End(204) \/ End(500)
  BY DEF Operate, Failed
<1>2. ran' \in {ran, Matching} /\ steady' \in {steady, steady \ {Device}}
  BY DEF Operate
<1>3. ran' \in SUBSET Things /\ steady' \in SUBSET Backends
  BY <1>2, MatchingExists DEF TypeOK
<1>. QED
  BY <1>1, <1>3 DEF AfterChecks, End, TypeOK

LEMMA AfterAccess ==
  ASSUME AccessInv, pc \in Calling, AfterChecks PROVE AccessInv'
<1> USE DEF AccessInv
<1>1. touched' \in SUBSET Backends
  BY DEF AfterChecks, TypeOK, CheckedInv
<1>2. TypeOK'
  BY <1>1 DEF AfterChecks, TypeOK, Calling, world, request
<1>3. UNCHANGED <<auth, op, credential, id>>
  BY DEF AfterChecks, world, request
<1>4. (auth.enabled => Valid(credential))
      /\ (auth.enabled /\ auth.scopesEnabled => HasScopes(op, credential)) /\ Device \in Backends
  BY DEF CheckedInv, Calling
<1>5. CheckedInv'
  BY <1>3, <1>4 DEF AfterChecks, CheckedInv, Calling, Valid, HasScopes, Device
<1>6. Authorised'
  BY <1>3, <1>4 DEF AfterChecks, Calling, Authorised, Valid, HasScopes
<1>. QED
  BY <1>2, <1>5, <1>6

LEMMA CallsAfter ==
  ASSUME TypeOK,
         GetContainer \/ GetContainerResources \/ GetImage \/ GetNetwork \/ GetStorageVolume
           \/ GetBackupTask \/ Operate
         \/ ReadExtra("status", "detail") \/ ReadExtra("detail", "target")
         \/ ReadExtra("target", "done")
  PROVE  pc \in Calling /\ AfterChecks
<1>1. pc \in Calling
  BY DEF GetContainer, GetContainerResources, GetImage, GetNetwork, GetStorageVolume,
     GetBackupTask, Operate, ReadExtra,
     ReadThing, Calling
<1>2. CASE GetContainer \/ GetImage \/ GetNetwork \/ GetStorageVolume \/ GetBackupTask
  <2>1. CASE ReadThing("usage", 0)
    BY <1>1, <2>1, ReadThingAfter
  <2>2. CASE ReadThing("status", 0)
    BY <1>1, <2>2, ReadThingAfter
  <2>3. CASE ReadThing("done", 200)
    BY <1>1, <2>3, ReadThingAfter
  <2>. QED
    BY <1>2, <2>1, <2>2, <2>3 DEF GetContainer, GetImage, GetNetwork,
       GetStorageVolume, GetBackupTask
<1>3. CASE ReadExtra("status", "detail") \/ ReadExtra("detail", "target") \/ ReadExtra("target", "done")
  BY <1>1, <1>3, ReadExtraAfter
<1>. QED
  BY <1>1, <1>2, <1>3, UsageAfter, OperateAfter

LEMMA WriteAnswerAccess ==
  ASSUME AccessInv, WriteAnswer PROVE AccessInv'
<1> USE DEF AccessInv, WriteAnswer, world
<1>1. TypeOK'
  BY DEF TypeOK
<1>2. CheckedInv' /\ Authorised'
  BY DEF CheckedInv, Authorised, Calling
<1>. QED
  BY <1>1, <1>2

\* Things and backends come and go; discovery is repaired.
LEMMA WorldAccess ==
  ASSUME AccessInv,
         (\E x \in Things : Create(x) \/ Remove(x))
         \/ \E b \in Backends : GoAway(b) \/ ComeBack(b) \/ Discover(b)
  PROVE  AccessInv'
<1> USE DEF AccessInv
<1>1. Elsewhere
  BY DEF Create, Remove, GoAway, ComeBack, Discover
<1>2. exists' \in SUBSET Things /\ kept' \in SUBSET Things /\ steady' \in SUBSET Backends
  BY DEF Create, Remove, GoAway, ComeBack, Discover, TypeOK
<1>3. /\ up' \in [Backends -> BOOLEAN]
      /\ supports' \in [Backends -> SUBSET {"docker", "backup"}]
  <2>0. Capabilities \in [Backends -> SUBSET {"docker", "backup"}]
    BY Validated DEF GatewayAssumption
  <2>1. ASSUME NEW x \in Things, Create(x) \/ Remove(x)
        PROVE  up' = up /\ supports' = supports
    BY <2>1 DEF Create, Remove
  <2>2. ASSUME NEW b \in Backends, GoAway(b) \/ ComeBack(b)
        PROVE  up' \in [Backends -> BOOLEAN] /\ supports' = supports
    <3>1. CASE GoAway(b)
      BY <3>1 DEF GoAway, TypeOK
    <3>2. CASE ComeBack(b)
      BY <3>2 DEF ComeBack, TypeOK
    <3>. QED
      BY <2>2, <3>1, <3>2
  <2>3. ASSUME NEW b \in Backends, Discover(b)
        PROVE  up' = up /\ supports' \in [Backends -> SUBSET {"docker", "backup"}]
    BY <2>0, <2>3 DEF Discover, TypeOK
  <2>4. up \in [Backends -> BOOLEAN] /\ supports \in [Backends -> SUBSET {"docker", "backup"}]
    BY DEF TypeOK
  <2>. QED
    BY <2>1, <2>2, <2>3, <2>4
<1>4. changes' \in 0..MaxChanges
  BY Validated DEF GatewayAssumption, Create, Remove, GoAway, ComeBack, Discover, Change, TypeOK
<1>5. TypeOK'
  BY <1>1, <1>2, <1>3, <1>4 DEF TypeOK, Elsewhere, request
<1>6. CheckedInv' /\ Authorised'
  BY <1>1 DEF CheckedInv, Authorised, Calling, Valid, HasScopes, Device, Elsewhere, request
<1>. QED
  BY <1>5, <1>6

LEMMA StepAccess == AccessInv /\ [Next]_vars => AccessInv'
<1> SUFFICES ASSUME AccessInv, [Next]_vars PROVE AccessInv'
  OBVIOUS
<1>2. CASE Public \/ JWTMiddleware \/ Bind \/ ScopeMiddleware \/ FindBackend
  BY <1>2, MiddlewareAccess
<1>3. CASE GetContainer \/ GetContainerResources \/ GetImage \/ GetNetwork \/ GetStorageVolume
           \/ GetBackupTask \/ Operate
           \/ ReadExtra("status", "detail") \/ ReadExtra("detail", "target")
           \/ ReadExtra("target", "done")
  BY <1>3, CallsAfter, AfterAccess DEF AccessInv
<1>4. CASE WriteAnswer
  BY <1>4, WriteAnswerAccess
<1>5. CASE (\E x \in Things : Create(x) \/ Remove(x))
           \/ \E b \in Backends : GoAway(b) \/ ComeBack(b) \/ Discover(b)
  BY <1>5, WorldAccess
<1>6. CASE UNCHANGED vars
  BY <1>6 DEF AccessInv, TypeOK, CheckedInv, Authorised, Calling, Valid, HasScopes, Device, vars,
     world, request
<1>7. CASE \E o \in Operations, x \in Things, c \in Credentials :
             Kind[x] = Target(o) /\ Arrive(o, CompositeId(x), x, c)
  BY <1>7, ArriveAccess
<1>8. CASE \E o \in Operations, i \in Strange, c \in Credentials : Arrive(o, i, None, c)
  BY <1>8, ArriveAccess
<1>9. CASE \E c \in Credentials : Arrive("meta", <<>>, None, c)
  BY <1>9, ArriveAccess
<1>10. CASE \E x \in Images, c \in Credentials :
              \E p \in Begins[Digest(x)] \ {Short[Digest(x)]} :
                  Arrive("image", Home[x] \o <<p>>, None, c)
  <2>1. "image" \in Operations
    BY DEF Operations, Kinds
  <2>. QED
    BY <1>10, <2>1, ArriveAccess
<1>. QED
  BY <1>2, <1>3, <1>4, <1>5, <1>6, <1>7, <1>8, <1>9, <1>10 DEF Next

\* Every variable keeps its type, for any backends and things.
THEOREM TypeCorrect == Spec => []TypeOK
<1>1. AccessInv => TypeOK
  BY DEF AccessInv
<1>. QED
  BY <1>1, InitAccess, StepAccess, PTL DEF Spec

\* JWTMiddleware and ScopeMiddleware come before every call of every endpoint.
THEOREM NobodyUnauthorised == Spec => []Authorised
<1>1. AccessInv => Authorised
  BY DEF AccessInv
<1>. QED
  BY <1>1, InitAccess, StepAccess, PTL DEF Spec

-----------------------------------------------------------------------------
(* IDs lead to their things, as long as no backend has a dot in its name.  *)

\* One word between the dots.  The configuration does not ask for it.
SimpleNames == \A b \in Backends : Len(b) = 1

\* The first word of a sequence of two or more, and the others.
LEMMA FirstAndRest ==
  ASSUME NEW S, NEW u \in Seq(S), Len(u) = 1, NEW v \in Seq(S), Len(v) >= 1
  PROVE  /\ Len(u \o v) = 1 + Len(v) /\ (u \o v)[1] = u[1]
         /\ Tail(u \o v) = v
<1> DEFINE i == u \o v
<1>1. i \in Seq(S) /\ Len(i) = Len(u) + Len(v)
  BY ConcatProperties
<1>2. \A k \in 1..Len(u) + Len(v) : i[k] = IF k <= Len(u) THEN u[k] ELSE v[k - Len(u)]
  BY ConcatProperties
<1> HIDE DEF i
<1>3. Len(u) \in Nat /\ Len(v) \in Nat
  OBVIOUS
<1>4. i[1] = u[1]
  <2>1. 1 \in 1..Len(u) + Len(v) /\ 1 <= Len(u)
    BY <1>3
  <2>. QED
    BY <1>2, <2>1
<1>5. ASSUME NEW k \in 1..Len(v) PROVE i[k + 1] = v[k]
  <2>1. k + 1 \in 1..Len(u) + Len(v) /\ ~(k + 1 <= Len(u)) /\ (k + 1) - Len(u) = k
    BY <1>3
  <2>. QED
    BY <1>2, <2>1
<1>6. i # <<>>
  BY <1>1, <1>3
<1>7. /\ Tail(i) \in Seq(S) /\ Len(Tail(i)) = Len(v)
      /\ \A k \in 1..Len(v) : Tail(i)[k] = i[k + 1]
  BY <1>1, <1>3, <1>6, HeadTailProperties
<1>8. Tail(i) = v
  BY <1>5, <1>7, SeqEqual
<1>. QED
  BY <1>1, <1>4, <1>8 DEF i

\* The only word of a sequence of one.
LEMMA OneWord ==
  ASSUME NEW S, NEW u \in Seq(S), Len(u) = 1
  PROVE  u[1] \in S /\ u = <<u[1]>>
<1>1. u[1] \in S
  OBVIOUS
<1>2. <<u[1]>> \in Seq(S) /\ Len(<<u[1]>>) = 1 /\ <<u[1]>>[1] = u[1]
  BY <1>1
<1>. QED
  BY <1>1, <1>2, SeqEqual

LEMMA SingleWord ==
  ASSUME NEW S, NEW w \in S
  PROVE  <<w>> \in Seq(S) /\ Len(<<w>>) = 1 /\ <<w>>[1] = w
  OBVIOUS

\* An ID that is put together of a backend and a name is taken apart into the two.
LEMMA PartsOfId ==
  ASSUME SimpleNames, NEW b \in Backends,
         NEW n \in Seq(STRING), n # <<>>, n # <<Empty>>, id = b \o n
  PROVE  IsCompositeID /\ Device = b /\ Suffix = n
<1>1. b \in Seq(STRING) /\ b # <<Empty>> /\ Len(b) = 1
  BY Validated DEF GatewayAssumption, SimpleNames
<1>2. Len(n) \in Nat /\ Len(n) >= 1
  OBVIOUS
<1>3. Len(b \o n) = 1 + Len(n) /\ (b \o n)[1] = b[1] /\ Tail(b \o n) = n
  BY <1>1, <1>2, FirstAndRest
<1>4. b = <<b[1]>>
  BY <1>1, OneWord
<1>5. Len(b \o n) >= 2
  BY <1>2, <1>3
<1>6. b[1] # Empty
  BY <1>1, <1>4
<1>. QED
  BY <1>3, <1>4, <1>5, <1>6 DEF IsCompositeID, Device, Suffix

\* The part of an ID that is the thing's own.
OwnPart(x) == IF x \in Images THEN imageShortID(x) ELSE Name[x]

\* The words a digest begins with are words.
LEMMA Beginning ==
  ASSUME NEW x \in Images, NEW p \in Begins[Digest(x)]
  PROVE  <<p>> \in Seq(STRING) /\ <<p>> # <<>> /\ <<p>> # <<Empty>>
<1>1. Digest(x) \in Digests
  BY DEF Digests
<1>2. p \in STRING /\ p # Empty /\ Empty \in STRING
  BY <1>1, Validated DEF GatewayAssumption
<1>3. <<p>>[1] = p /\ <<Empty>>[1] = Empty /\ Len(<<p>>) = 1 /\ <<p>> \in Seq(STRING)
  BY <1>2, SingleWord
<1>. QED
  BY <1>2, <1>3

LEMMA OwnPartIsName ==
  ASSUME NEW x \in Things
  PROVE  OwnPart(x) \in Seq(STRING) /\ OwnPart(x) # <<>> /\ OwnPart(x) # <<Empty>>
<1>1. CASE x \in Images
  <2>1. Short[Digest(x)] \in Begins[Digest(x)]
    BY <1>1, Validated DEF GatewayAssumption, Digests
  <2>. QED
    BY <1>1, <2>1, Beginning DEF OwnPart, imageShortID
<1>2. CASE x \notin Images
  <2>1. Name[x] \in Seq(STRING) /\ Name[x] # <<>> /\ Name[x] # <<Empty>>
    BY Validated DEF GatewayAssumption
  <2>. QED
    BY <1>2, <2>1 DEF OwnPart
<1>. QED
  BY <1>1, <1>2

LEMMA StrangeIsNone ==
  ASSUME SimpleNames, NEW i \in Strange
  PROVE  ~(Len(i) >= 2 /\ i[1] # Empty /\ Tail(i) # <<Empty>>)
<1>1. CASE i \in {<<>>, <<Empty>>}
  BY <1>1
<1>2. ASSUME NEW b \in Backends, i \in {b, b \o <<Empty>>, <<Empty>> \o b}
      PROVE  ~(Len(i) >= 2 /\ i[1] # Empty /\ Tail(i) # <<Empty>>)
  <2>1. b \in Seq(STRING) /\ Len(b) = 1 /\ Empty \in STRING
    BY Validated DEF GatewayAssumption, SimpleNames
  <2>2. <<Empty>> \in Seq(STRING) /\ Len(<<Empty>>) = 1 /\ <<Empty>>[1] = Empty
    BY <2>1, SingleWord
  <2>3. CASE i = b
    <3>1. ~(Len(b) >= 2)
      BY <2>1
    <3>. QED
      BY <2>3, <3>1
  <2>4. CASE i = b \o <<Empty>>
    <3>1. Len(<<Empty>>) >= 1
      BY <2>2
    <3>2. Tail(b \o <<Empty>>) = <<Empty>>
      BY <2>1, <2>2, <3>1, FirstAndRest
    <3>. QED
      BY <2>4, <3>2
  <2>5. CASE i = <<Empty>> \o b
    <3>1. Len(b) >= 1
      BY <2>1
    <3>2. (<<Empty>> \o b)[1] = Empty
      BY <2>1, <2>2, <3>1, FirstAndRest
    <3>. QED
      BY <2>5, <3>2
  <2>. QED
    BY <1>2, <2>3, <2>4, <2>5
<1>. QED
  BY <1>1, <1>2 DEF Strange

\* A few digits of an image.
IsBeginning(i) == \E x \in Images : \E p \in Begins[Digest(x)] : i = Home[x] \o <<p>>

\* The ID is the one of the thing that was asked for, or of none.
IdInv ==
    \/ op = "meta" /\ pc \in {"idle", "token", "done"} /\ asked = None
    \/ op \in Operations /\ asked = None /\ id \in Strange
    \/ op = "image" /\ asked = None /\ IsBeginning(id)
    \/ op \in Operations /\ asked \in Things /\ id = CompositeId(asked) /\ Kind[asked] = Target(op)

\* What has been there all the time is there, on a capable backend.
KeptInv ==
    /\ \A b \in Backends : supports[b] \in {{}, Capabilities[b]}
    /\ kept \subseteq exists /\ \A x \in kept : Able(x)
    /\ \A b \in steady : up[b]

\* How far the calls have got.
CallInv ==
    /\ pc \in Calling => asked \in Things \/ (op = "image" /\ IsBeginning(id))
    /\ pc \in Calling \ {"call"} =>
           asked \in Things /\ found = asked /\ op \notin {"operate", "image"}
    /\ pc \notin Calling \cup {"done"} => found = None
    /\ pc = "call" => found = None
    /\ pc # "done" => ran = {}

LeadInv == AccessInv /\ IdInv /\ KeptInv /\ CallInv /\ NotFoundEarned /\ LeadsToAsked

LEMMA NoneIsNoThing == None \notin Things
  BY Validated DEF GatewayAssumption

LEMMA NoAnswerYet == TypeOK /\ pc # "done" => status = 0
  BY DEF TypeOK

LEMMA NoMetaOperation == "meta" \notin Operations
  BY DEF Operations, Kinds

LEMMA ImageIsOperation == "image" \in Operations \ {"operate", "meta"} /\ Target("image") = "image"
  BY DEF Operations, Kinds, Target

LEMMA InitLead == Init => LeadInv
<1> SUFFICES ASSUME Init PROVE LeadInv
  OBVIOUS
<1>1. AccessInv
  BY InitAccess
<1>2. IdInv
  BY DEF Init, IdInv
<1>3. KeptInv
  BY DEF Init, KeptInv
<1>4. CallInv /\ NotFoundEarned /\ LeadsToAsked
  BY DEF Init, CallInv, NotFoundEarned, LeadsToAsked, Calling
<1>. QED
  BY <1>1, <1>2, <1>3, <1>4 DEF LeadInv

\* The answer may be about it.
Fits(x) ==
    \/ x = asked
    \/ /\ op = "image" /\ x \in Images
       /\ asked # None => CompositeId(x) = CompositeId(asked)
       /\ \E p \in Begins[Digest(x)] : id = Home[x] \o <<p>>

\* The ID of a thing leads to the backend that holds it, where the thing matches,
\* and nothing else, unless it is an image with the same ID.
LEMMA AskedMatches ==
  ASSUME SimpleNames, TypeOK, asked \in Things, id = CompositeId(asked), Kind[asked] = Target(op)
  PROVE  /\ IsCompositeID /\ Device = Home[asked]
         /\ (asked \in exists => asked \in Matching)
         /\ asked \notin Images => Matching \subseteq {asked}
         /\ \A x \in Matching : Target(op) = "image" =>
               x \in Images /\ CompositeId(x) = CompositeId(asked)
                 /\ \E p \in Begins[Digest(x)] : id = Home[x] \o <<p>>
<1>1. IsCompositeID /\ Device = Home[asked] /\ Suffix = OwnPart(asked)
  <2>1. id = Home[asked] \o OwnPart(asked)
    BY DEF CompositeId, OwnPart
  <2>2. Home[asked] \in Backends
    BY Validated DEF GatewayAssumption
  <2>. QED
    BY <2>1, <2>2, OwnPartIsName, PartsOfId
<1>2. ASSUME NEW x \in Matching, asked \notin Images PROVE x = asked
  <2>1. x \in Things /\ Home[x] = Home[asked] /\ Kind[x] = Kind[asked] /\ Matches(x)
    BY <1>1, <1>2 DEF Matching, TypeOK
  <2>2. x \notin Images /\ Name[x] = Name[asked]
    BY <1>1, <1>2, <2>1 DEF Images, Matches, OwnPart
  <2>. QED
    BY <2>1, <2>2, Validated DEF GatewayAssumption
<1>3. asked \in exists => Matches(asked)
  <2>1. CASE asked \in Images
    <3>1. Short[Digest(asked)] \in Begins[Digest(asked)]
      BY <2>1, Validated DEF GatewayAssumption, Digests
    <3>. QED
      BY <1>1, <2>1, <3>1 DEF Matches, OwnPart, imageShortID
  <2>2. CASE asked \notin Images
    BY <1>1, <2>2 DEF Matches, OwnPart
  <2>. QED
    BY <2>1, <2>2
<1>4. ASSUME NEW x \in Matching, Target(op) = "image"
      PROVE  x \in Images /\ CompositeId(x) = CompositeId(asked)
               /\ \E p \in Begins[Digest(x)] : id = Home[x] \o <<p>>
  <2>1. x \in Images /\ asked \in Images /\ Home[x] = Home[asked] /\ Matches(x)
    BY <1>1, <1>4 DEF Matching, TypeOK, Images
  <2>2. PICK p \in Begins[Digest(x)] : Suffix = <<p>>
    BY <2>1 DEF Matches
  <2>3. <<p>> = <<Short[Digest(asked)]>>
    BY <1>1, <2>1, <2>2 DEF OwnPart, imageShortID
  <2>4. p = Short[Digest(asked)]
    <3>1. <<p>>[1] = p /\ <<Short[Digest(asked)]>>[1] = Short[Digest(asked)]
      OBVIOUS
    <3>. QED
      BY <2>3, <3>1
  <2>5. Digest(x) \in Digests /\ Digest(asked) \in Digests
    BY <2>1 DEF Digests
  <2>6. Short[Digest(x)] = Short[Digest(asked)]
    BY <2>2, <2>4, <2>5, Validated DEF GatewayAssumption
  <2>7. CompositeId(x) = CompositeId(asked)
    BY <2>1, <2>6 DEF CompositeId, imageShortID
  <2>8. id = Home[x] \o <<p>>
    BY <2>1, <2>4 DEF CompositeId, imageShortID
  <2>. QED
    BY <2>1, <2>2, <2>7, <2>8
<1>. QED
  BY <1>1, <1>2, <1>3, <1>4 DEF Matching

\* A few digits lead to an image that begins with them.
LEMMA BeginningMatches ==
  ASSUME SimpleNames, TypeOK, IsBeginning(id), op = "image", NEW x \in Matching
  PROVE  x \in Images /\ \E p \in Begins[Digest(x)] : id = Home[x] \o <<p>>
<1>1. PICK y \in Images : \E p \in Begins[Digest(y)] : id = Home[y] \o <<p>>
  BY DEF IsBeginning
<1>2. PICK p \in Begins[Digest(y)] : id = Home[y] \o <<p>>
  BY <1>1
<1>3. Home[y] \in Backends
  BY Validated DEF GatewayAssumption, Images
<1>4. Device = Home[y] /\ Suffix = <<p>>
  BY <1>2, <1>3, Beginning, PartsOfId
<1>5. x \in Images /\ Home[x] = Device /\ Matches(x)
  BY ImageIsOperation DEF Matching, TypeOK, Images
<1>6. PICK q \in Begins[Digest(x)] : Suffix = <<q>>
  BY <1>5 DEF Matches
<1>7. id = Home[x] \o <<q>>
  BY <1>2, <1>4, <1>5, <1>6
<1>. QED
  BY <1>5, <1>7

\* What the steps before the calls leave alone.
Waiting ==
    /\ UNCHANGED <<auth, supports, up, exists, op, credential, id, asked, found, ran, kept, steady>>
    /\ pc \notin Calling \cup {"done"}

LEMMA WaitingLead ==
  ASSUME LeadInv, Waiting, AccessInv', op \in Operations,
         pc' \in {"bind", "scope", "service", "done"}, pc' # "done" => status' = 0,
         pc' = "done" => status' \in {401, 403} \/ (status' = 404 /\ asked \notin kept)
  PROVE  LeadInv'
<1> USE DEF LeadInv, Waiting
<1>1. IdInv'
  BY NoMetaOperation DEF IdInv
<1>2. KeptInv'
  BY DEF KeptInv, Able, Supported
<1>3. CallInv'
  BY DEF CallInv, Calling
<1>4. ran' = {} /\ found' = None
  BY DEF CallInv, Calling
<1>5. NotFoundEarned'
  BY <1>4 DEF NotFoundEarned
<1>6. LeadsToAsked'
  BY <1>4 DEF LeadsToAsked
<1>. QED
  BY <1>1, <1>2, <1>3, <1>5, <1>6

\* A refusal comes before the calls, and a 404 only when there is no such thing.
LEMMA ChecksLead ==
  ASSUME SimpleNames, LeadInv, AccessInv',
         Public \/ JWTMiddleware \/ Bind \/ ScopeMiddleware \/ FindBackend
  PROVE  LeadInv'
<1> USE DEF LeadInv
<1>1. Waiting
  BY DEF Public, JWTMiddleware, Bind, ScopeMiddleware, FindBackend, Answer, Pass, world, request,
     Calling, Waiting
<1>2. CASE Public
  <2>1. IdInv'
    BY <1>2, <1>1 DEF Public, Answer, Waiting, IdInv, request
  <2>2. KeptInv'
    BY <1>1 DEF KeptInv, Able, Supported, Waiting
  <2>3. /\ pc' = "done" /\ status' = 200 /\ op' = "meta" /\ ran' = {} /\ found' = None
    BY <1>1, <1>2 DEF Public, Answer, Waiting, CallInv, Calling, request
  <2>4. CallInv' /\ NotFoundEarned' /\ LeadsToAsked'
    BY <2>3, NoMetaOperation DEF CallInv, Calling, NotFoundEarned, LeadsToAsked
  <2>. QED
    BY <2>1, <2>2, <2>4
<1>3. CASE JWTMiddleware \/ Bind \/ ScopeMiddleware
  <2>1. op \in Operations
    BY <1>3, ImageIsOperation DEF JWTMiddleware, Bind, ScopeMiddleware, IdInv
  <2>2. CASE JWTMiddleware
    <3>1. pc # "done" /\ (Answer(401) \/ Pass("bind"))
      BY <2>2 DEF JWTMiddleware
    <3>2. CASE Answer(401)
      <4>1. pc' = "done" /\ status' = 401
        BY <3>2 DEF Answer
      <4>. QED
        BY <1>1, <2>1, <4>1, WaitingLead
    <3>3. CASE Pass("bind")
      <4>1. pc' = "bind" /\ status' = 0
        BY <3>1, <3>3, NoAnswerYet DEF Pass, AccessInv
      <4>. QED
        BY <1>1, <2>1, <4>1, WaitingLead
    <3>. QED
      BY <3>1, <3>2, <3>3
  <2>3. CASE Bind
    <3>1. EscapedPathRouting(1) # 0
      BY DEF EscapedPathRouting, EscapedPath
    <3>2. Pass("scope")
      BY <2>3, <3>1 DEF Bind
    <3>3. status' = 0
      BY <2>3, <3>2 DEF Bind, Pass, AccessInv, TypeOK
    <3>. QED
      BY <1>1, <2>1, <3>2, <3>3, WaitingLead DEF Pass
  <2>4. CASE ScopeMiddleware
    <3>1. pc # "done" /\ (Answer(403) \/ Pass("service"))
      BY <2>4 DEF ScopeMiddleware
    <3>2. CASE Answer(403)
      <4>1. pc' = "done" /\ status' = 403
        BY <3>2 DEF Answer
      <4>. QED
        BY <1>1, <2>1, <4>1, WaitingLead
    <3>3. CASE Pass("service")
      <4>1. pc' = "service" /\ status' = 0
        BY <3>1, <3>3, NoAnswerYet DEF Pass, AccessInv
      <4>. QED
        BY <1>1, <2>1, <4>1, WaitingLead
    <3>. QED
      BY <3>1, <3>2, <3>3
  <2>. QED
    BY <1>3, <2>2, <2>3, <2>4
<1>4. CASE FindBackend
  <2>1. op \in Operations /\ TypeOK
    BY <1>4, ImageIsOperation DEF FindBackend, IdInv, AccessInv
  <2>2. CASE ~(IsCompositeID /\ Find(Device) /\ Supported(Device, Target(op)))
    <3>1. ASSUME asked \in kept PROVE FALSE
      <4>1. asked \in Things /\ id = CompositeId(asked) /\ Kind[asked] = Target(op) /\ Able(asked)
        BY <2>1, <3>1, NoneIsNoThing, NoMetaOperation DEF TypeOK, IdInv, KeptInv
      <4>2. IsCompositeID /\ Device = Home[asked]
        BY <2>1, <4>1, AskedMatches
      <4>3. Home[asked] \in Backends
        BY <4>1, Validated DEF GatewayAssumption
      <4>. QED
        BY <2>2, <4>1, <4>2, <4>3 DEF Able, Find
    <3>2. pc' = "done" /\ status' = 404
      BY <1>4, <2>2 DEF FindBackend, Answer
    <3>. QED
      BY <1>1, <2>1, <3>1, <3>2, WaitingLead
  <2>3. CASE IsCompositeID /\ Find(Device) /\ Supported(Device, Target(op))
    <3>1. pc' = "call" /\ pc = "service"
      BY <1>4, <2>3 DEF FindBackend, Pass
    <3>2. asked \in Things \/ (op = "image" /\ IsBeginning(id))
      BY <2>1, <2>3, StrangeIsNone, NoMetaOperation DEF IdInv, IsCompositeID, Suffix
    <3>3. IdInv' /\ KeptInv'
      BY <1>1, <2>1, NoMetaOperation DEF IdInv, KeptInv, Able, Supported, Waiting
    <3>4. CallInv'
      BY <1>1, <3>1, <3>2 DEF CallInv, Calling, Waiting
    <3>5. /\ ran' = {} /\ found' = None /\ status' = 0
      BY <1>1, <1>4, <2>3, <3>1 DEF CallInv, Calling, Waiting, FindBackend, Pass, AccessInv, TypeOK
    <3>6. NotFoundEarned' /\ LeadsToAsked'
      BY <3>1, <3>5 DEF NotFoundEarned, LeadsToAsked
    <3>. QED
      BY <3>3, <3>4, <3>6
  <2>. QED
    BY <2>2, <2>3
<1>. QED
  BY <1>2, <1>3, <1>4

\* The calls: the thing, or a backend that has not been steady, or nothing.
LEMMA ReadThingLead ==
  ASSUME SimpleNames, LeadInv, AccessInv', op \in Operations \ {"operate"},
         NEW next \in {"usage", "status", "done"}, NEW answer \in {0, 200},
         ReadThing(next, answer), answer = 200 <=> next = "done",
         op = "image" => next = "done"
  PROVE  LeadInv'
<1> USE DEF LeadInv
<1>1. /\ pc = "call" /\ found = None /\ ran = {} /\ TypeOK
      /\ UNCHANGED <<world, request, ran, kept, steady>>
  BY DEF ReadThing, CallInv, Calling, AccessInv
<1>2. \/ asked = None /\ op = "image" /\ IsBeginning(id)
      \/ asked \in Things /\ id = CompositeId(asked) /\ Kind[asked] = Target(op)
  <2>1. asked \in Things \/ (op = "image" /\ IsBeginning(id))
    BY <1>1 DEF CallInv, Calling
  <2>2. asked \in Things \cup {None}
    BY <1>1 DEF TypeOK
  <2>. QED
    BY <2>1, <2>2, NoneIsNoThing, NoMetaOperation DEF IdInv
<1>3. asked \in Things => Device = Home[asked] /\ (asked \in exists => asked \in Matching)
  BY <1>1, <1>2, NoneIsNoThing, AskedMatches
<1>4. IdInv' /\ KeptInv'
  <2>1. UNCHANGED <<op, asked, id, supports, up, exists>> /\ op # "meta"
    BY <1>1, NoMetaOperation DEF world, request
  <2>2. IdInv'
    <3>1. UNCHANGED IsBeginning(id)
      BY <2>1 DEF IsBeginning
    <3>. QED
      BY <2>1, <3>1 DEF IdInv
  <2>3. KeptInv'
    BY <1>1, <2>1 DEF KeptInv, Able, Supported
  <2>. QED
    BY <2>2, <2>3
<1>5. CASE ~up[Device]
  <2>1. /\ pc' = "done" /\ status' = 500 /\ found' = None /\ ran' = {}
        /\ asked \in Things => Home[asked] \notin steady'
    BY <1>1, <1>3, <1>5 DEF ReadThing, Failed, End, KeptInv, TypeOK
  <2>2. asked \in kept => asked \in Things
    BY <1>1 DEF TypeOK
  <2>. QED
    BY <1>1, <1>4, <2>1, <2>2 DEF CallInv, Calling, NotFoundEarned, LeadsToAsked, request
<1>6. CASE up[Device] /\ Matching = {}
  <2>1. pc' = "done" /\ status' = 404 /\ found' = None /\ ran' = {}
    BY <1>1, <1>6 DEF ReadThing, End
  <2>2. asked' \notin kept'
    BY <1>1, <1>3, <1>6 DEF KeptInv, TypeOK, request
  <2>. QED
    BY <1>1, <1>4, <2>1, <2>2 DEF CallInv, Calling, NotFoundEarned, LeadsToAsked
<1>7. CASE up[Device] /\ Matching # {}
  <2>1. pc' = next /\ status' = answer /\ found' \in Matching /\ ran' = {}
    BY <1>1, <1>7 DEF ReadThing
  <2>2. Fits(found')
    <3>1. CASE asked = None
      BY <1>1, <1>2, <2>1, <3>1, NoneIsNoThing, BeginningMatches DEF Fits
    <3>2. CASE asked \in Images
      <4>1. op = "image" /\ Target(op) = "image"
        BY <1>2, <3>2, NoneIsNoThing DEF Images, Target, Operations, Kinds
      <4>2. asked \in Things /\ id = CompositeId(asked) /\ Kind[asked] = Target(op)
        BY <1>2, <3>2, NoneIsNoThing DEF Images
      <4>3. \A x \in Matching :
               /\ x \in Images /\ CompositeId(x) = CompositeId(asked)
               /\ \E p \in Begins[Digest(x)] : id = Home[x] \o <<p>>
        BY <1>1, <4>1, <4>2, AskedMatches
      <4>. QED
        BY <2>1, <4>1, <4>3 DEF Fits
    <3>3. CASE asked \in Things \ Images
      BY <1>1, <1>2, <2>1, <3>3, NoneIsNoThing, AskedMatches DEF Fits
    <3>. QED
      BY <1>2, <3>1, <3>2, <3>3
  <2>3. next # "done" => asked \in Things /\ found' = asked /\ op # "image"
    <3>1. ASSUME next # "done" PROVE op # "image" /\ asked \in Things
      BY <1>2, <3>1
    <3>. QED
      BY <2>2, <3>1 DEF Fits
  <2>4. found' # None
    BY <1>1, <2>1, NoneIsNoThing DEF Matching, TypeOK
  <2>5. CallInv'
    BY <1>1, <2>1, <2>3 DEF CallInv, Calling, request, ReadThing
  <2>6. NotFoundEarned'
    BY <2>1 DEF NotFoundEarned
  <2>7. LeadsToAsked'
    BY <1>1, <2>1, <2>2, <2>4 DEF LeadsToAsked, Fits, CompositeId, request
  <2>. QED
    BY <1>4, <2>5, <2>6, <2>7
<1>. QED
  BY <1>5, <1>6, <1>7

\* What comes after the thing has been read.
LEMMA AfterReadLead ==
  ASSUME SimpleNames, LeadInv, AccessInv',
         GetContainerResources \/ ReadExtra("status", "detail")
         \/ ReadExtra("detail", "target") \/ ReadExtra("target", "done")
  PROVE  LeadInv'
<1> USE DEF LeadInv
<1>1. /\ pc \in Calling \ {"call"} /\ UNCHANGED <<world, request, found, ran, kept, steady>>
  BY DEF GetContainerResources, ReadExtra, Calling, End, Failed
<1>2. asked \in Things /\ found = asked /\ op \notin {"operate", "image"} /\ ran = {}
  BY <1>1 DEF CallInv, Calling
<1>3. op \in Operations /\ id = CompositeId(asked) /\ Kind[asked] = Target(op)
  BY <1>2, NoneIsNoThing DEF IdInv
<1>4. IdInv' /\ KeptInv'
  BY <1>1, <1>2, <1>3, NoMetaOperation, NoneIsNoThing DEF IdInv, KeptInv, Able, Supported, world, request
<1>5. \/ pc' \in {"detail", "target"} /\ status' = 0
      \/ pc' = "done" /\ status' = 200
      \/ pc' = "done" /\ status' = 500 /\ ~up[Device]
  BY DEF GetContainerResources, ReadExtra, End, Failed
<1>6. /\ found' = asked' /\ ran' = {} /\ asked' \in Things /\ found' # None
      /\ op' \notin {"operate", "image"}
  BY <1>1, <1>2, NoneIsNoThing DEF request
<1>7. CallInv' /\ NotFoundEarned'
  BY <1>5, <1>6 DEF CallInv, Calling, NotFoundEarned
<1>8. LeadsToAsked'
  <2>1. CASE pc' \in {"detail", "target"} \/ (pc' = "done" /\ status' = 200)
    BY <1>6, <2>1 DEF LeadsToAsked
  <2>2. CASE ~up[Device]
    <3>1. Device = Home[asked]
      BY <1>2, <1>3, AskedMatches DEF AccessInv, IdInv
    <3>2. Home[asked'] \notin steady'
      BY <1>1, <2>2, <3>1 DEF KeptInv, AccessInv, TypeOK, request
    <3>. QED
      BY <1>6, <3>2 DEF LeadsToAsked
  <2>. QED
    BY <1>5, <2>1, <2>2
<1>. QED
  BY <1>4, <1>7, <1>8

LEMMA OperateLead ==
  ASSUME SimpleNames, LeadInv, AccessInv', Operate
  PROVE  LeadInv'
<1> USE DEF LeadInv
<1>1. /\ pc = "call" /\ op = "operate" /\ asked \in Things /\ found = None /\ ran = {} /\ TypeOK
      /\ UNCHANGED <<world, request, kept>> /\ steady' \subseteq steady
  BY DEF Operate, CallInv, Calling, AccessInv
<1>2. op \in Operations /\ id = CompositeId(asked) /\ Kind[asked] = Target(op)
  BY <1>1, NoneIsNoThing DEF IdInv, Operations
<1>3. /\ Device = Home[asked] /\ Matching \subseteq {asked}
      /\ asked \in exists => asked \in Matching
  <2>1. asked \notin Images
    BY <1>1, <1>2 DEF Images, Target
  <2>. QED
    BY <1>1, <1>2, <2>1, AskedMatches
<1>4. IdInv' /\ KeptInv'
  BY <1>1, <1>2, NoMetaOperation, NoneIsNoThing DEF IdInv, KeptInv, Able, Supported, world, request
<1>5. pc' = "done" /\ found' = None /\ asked' = asked /\ op' = "operate"
  BY <1>1 DEF Operate, Failed, End, request
<1>6. CASE ~up[Device] /\ Failed /\ UNCHANGED <<ran, steady>>
  <2>1. status' = 500 /\ ran' = {} /\ Home[asked] \notin steady'
    BY <1>1, <1>3, <1>6 DEF Failed, End, KeptInv, TypeOK
  <2>. QED
    BY <1>4, <1>5, <2>1 DEF CallInv, Calling, NotFoundEarned, LeadsToAsked
<1>7. CASE up[Device] /\ Matching = {} /\ End(404) /\ UNCHANGED <<ran, steady>>
  <2>1. status' = 404 /\ ran' = {} /\ asked \notin kept'
    BY <1>1, <1>3, <1>7 DEF End, KeptInv
  <2>. QED
    BY <1>4, <1>5, <2>1 DEF CallInv, Calling, NotFoundEarned, LeadsToAsked
<1>8. CASE Matching # {} /\ End(204) /\ ran' = Matching
  <2>1. status' = 204 /\ ran' = {asked}
    BY <1>3, <1>8 DEF End
  <2>. QED
    BY <1>4, <1>5, <2>1 DEF CallInv, Calling, NotFoundEarned, LeadsToAsked
<1>9. CASE Failed /\ ran' = Matching /\ steady' = steady \ {Device}
  <2>1. status' = 500 /\ ran' \subseteq {asked} /\ Home[asked] \notin steady'
    BY <1>3, <1>9 DEF Failed, End
  <2>. QED
    BY <1>4, <1>5, <2>1 DEF CallInv, Calling, NotFoundEarned, LeadsToAsked
<1>. QED
  BY <1>6, <1>7, <1>8, <1>9 DEF Operate

\* A request comes with the ID of a thing, or of nothing.
LEMMA ArriveLead ==
  ASSUME LeadInv, AccessInv', NEW o \in Operations \cup {"meta"}, NEW i,
         NEW x \in Things \cup {None}, NEW c \in Credentials, Arrive(o, i, x, c),
         \/ o = "meta" /\ x = None
         \/ o \in Operations /\ x = None /\ i \in Strange
         \/ o = "image" /\ x = None /\ IsBeginning(i)
         \/ o \in Operations /\ x \in Things /\ i = CompositeId(x) /\ Kind[x] = Target(o)
  PROVE  LeadInv'
<1> USE DEF LeadInv
<1>1. /\ pc = "idle" /\ pc' = "token" /\ op' = o /\ id' = i /\ asked' = x
      /\ kept' = {y \in exists : Able(y)} /\ steady' = {b \in Backends : up[b]}
      /\ UNCHANGED <<supports, up, exists, found, status, ran>>
  BY DEF Arrive, world
<1>2. IdInv'
  BY <1>1 DEF IdInv
<1>3. KeptInv'
  BY <1>1 DEF KeptInv, Able, Supported
<1>4. found' = None /\ ran' = {} /\ status' = 0
  BY <1>1, NoAnswerYet DEF CallInv, Calling, AccessInv
<1>5. CallInv' /\ NotFoundEarned' /\ LeadsToAsked'
  BY <1>1, <1>4 DEF CallInv, Calling, NotFoundEarned, LeadsToAsked
<1>. QED
  BY <1>2, <1>3, <1>5

LEMMA WriteAnswerLead ==
  ASSUME LeadInv, AccessInv', WriteAnswer PROVE LeadInv'
<1> USE DEF LeadInv, WriteAnswer
<1>1. IdInv'
  BY DEF IdInv
<1>2. KeptInv'
  BY DEF KeptInv, world
<1>3. CallInv' /\ NotFoundEarned' /\ LeadsToAsked'
  BY DEF CallInv, Calling, NotFoundEarned, LeadsToAsked
<1>. QED
  BY <1>1, <1>2, <1>3

\* Whatever comes and goes was not there all the time; discovery only adds.
LEMMA WorldLead ==
  ASSUME LeadInv, AccessInv',
         (\E x \in Things : Create(x) \/ Remove(x))
         \/ \E b \in Backends : GoAway(b) \/ ComeBack(b) \/ Discover(b)
  PROVE  LeadInv'
<1> USE DEF LeadInv
<1>1. /\ UNCHANGED <<pc, op, id, asked, found, status, ran>>
      /\ kept' \subseteq kept /\ steady' \subseteq steady
  BY DEF Create, Remove, GoAway, ComeBack, Discover, Elsewhere, request
<1>2. IdInv' /\ CallInv' /\ NotFoundEarned' /\ LeadsToAsked'
  <2>1. UNCHANGED IsBeginning(id)
    BY <1>1 DEF IsBeginning
  <2>2. IdInv' /\ CallInv'
    BY <1>1, <2>1 DEF IdInv, CallInv
  <2>3. NotFoundEarned'
    BY <1>1 DEF NotFoundEarned
  <2>4. LeadsToAsked'
    BY <1>1 DEF LeadsToAsked
  <2>. QED
    BY <2>2, <2>3, <2>4
<1>3. KeptInv'
  <2>1. ASSUME NEW x \in Things, Create(x) \/ Remove(x) PROVE KeptInv'
    BY <2>1 DEF Create, Remove, KeptInv, Able, Supported
  <2>2. ASSUME NEW b \in Backends, GoAway(b) \/ ComeBack(b) PROVE KeptInv'
    <3>1. up \in [Backends -> BOOLEAN] /\ steady \subseteq Backends
      BY DEF AccessInv, TypeOK
    <3>2. UNCHANGED <<supports, exists, kept>>
      BY <2>2 DEF GoAway, ComeBack
    <3>3. \A d \in steady' : d \in steady /\ up'[d]
      BY <2>2, <3>1 DEF GoAway, ComeBack, KeptInv
    <3>. QED
      BY <3>2, <3>3 DEF KeptInv, Able, Supported
  <2>3. ASSUME NEW b \in Backends, Discover(b) PROVE KeptInv'
    <3>1. /\ supports[b] = {} /\ supports' = [supports EXCEPT ![b] = Capabilities[b]]
          /\ UNCHANGED <<up, exists, kept, steady>>
      BY <2>3 DEF Discover, KeptInv
    <3>2. supports \in [Backends -> SUBSET {"docker", "backup"}]
      BY DEF AccessInv, TypeOK
    <3>3. \A d \in Backends : supports'[d] \in {{}, Capabilities[d]} /\ supports[d] \subseteq supports'[d]
      BY <3>1, <3>2 DEF KeptInv
    <3>4. ASSUME NEW x \in kept PROVE Able(x)'
      <4>1. x \in Things /\ Able(x)
        BY DEF KeptInv, AccessInv, TypeOK
      <4>2. Home[x] \in Backends /\ Kind[x] \in Kinds
        BY <4>1, Validated DEF GatewayAssumption
      <4>3. supports[Home[x]] \subseteq supports'[Home[x]]
        BY <3>3, <4>2
      <4>4. CASE Kind[x] \in {"container", "image", "network"}
        BY <4>1, <4>3, <4>4 DEF Able, Supported
      <4>5. CASE Kind[x] = "task"
        BY <4>1, <4>3, <4>5 DEF Able, Supported
      <4>6. CASE Kind[x] = "volume"
        BY <4>6 DEF Able, Supported
      <4>. QED
        BY <4>2, <4>4, <4>5, <4>6 DEF Kinds
    <3>. QED
      BY <3>1, <3>3, <3>4 DEF KeptInv
  <2>. QED
    BY <2>1, <2>2, <2>3
<1>. QED
  BY <1>2, <1>3

LEMMA StepLead ==
  ASSUME SimpleNames PROVE LeadInv /\ [Next]_vars => LeadInv'
<1> SUFFICES ASSUME LeadInv, [Next]_vars PROVE LeadInv'
  OBVIOUS
<1>1. AccessInv'
  BY StepAccess DEF LeadInv
<1>2. CASE Public \/ JWTMiddleware \/ Bind \/ ScopeMiddleware \/ FindBackend
  BY <1>1, <1>2, ChecksLead
<1>3. CASE GetContainer \/ GetImage \/ GetNetwork \/ GetStorageVolume \/ GetBackupTask
  <2>1. op \in Operations \ {"operate"}
    BY <1>3 DEF GetContainer, GetImage, GetNetwork, GetStorageVolume, GetBackupTask, Operations, Kinds
  <2>2. \/ op # "image" /\ (ReadThing("usage", 0) \/ ReadThing("status", 0))
        \/ ReadThing("done", 200)
    BY <1>3 DEF GetContainer, GetImage, GetNetwork, GetStorageVolume, GetBackupTask
  <2>. QED
    BY <1>1, <2>1, <2>2, ReadThingLead
<1>4. CASE GetContainerResources \/ ReadExtra("status", "detail") \/ ReadExtra("detail", "target")
           \/ ReadExtra("target", "done")
  BY <1>1, <1>4, AfterReadLead
<1>5. CASE Operate
  BY <1>1, <1>5, OperateLead
<1>6. CASE WriteAnswer
  BY <1>1, <1>6, WriteAnswerLead
<1>7. CASE (\E x \in Things : Create(x) \/ Remove(x))
           \/ \E b \in Backends : GoAway(b) \/ ComeBack(b) \/ Discover(b)
  BY <1>1, <1>7, WorldLead
<1>8. CASE UNCHANGED vars
  <2>0. UNCHANGED IsBeginning(id)
    BY <1>8 DEF IsBeginning, vars, request
  <2>1. IdInv' /\ KeptInv'
    BY <1>8, <2>0 DEF LeadInv, IdInv, KeptInv, Able, Supported, vars, world, request
  <2>2. CallInv' /\ NotFoundEarned'
    BY <1>8, <2>0 DEF LeadInv, CallInv, NotFoundEarned, vars, world, request
  <2>3. LeadsToAsked'
    <3>1. UNCHANGED <<pc, op, id, asked, found, status, ran, kept, steady>>
      BY <1>8 DEF vars, request
    <3>. QED
      BY <3>1 DEF LeadInv, LeadsToAsked
  <2>. QED
    BY <1>1, <2>1, <2>2, <2>3 DEF LeadInv
<1>9. CASE \E o \in Operations, x \in Things, c \in Credentials :
             Kind[x] = Target(o) /\ Arrive(o, CompositeId(x), x, c)
  BY <1>1, <1>9, ArriveLead
<1>10. CASE \E o \in Operations, i \in Strange, c \in Credentials : Arrive(o, i, None, c)
  BY <1>1, <1>10, ArriveLead
<1>11. CASE \E c \in Credentials : Arrive("meta", <<>>, None, c)
  BY <1>1, <1>11, ArriveLead
<1>12. CASE \E x \in Images, c \in Credentials :
              \E p \in Begins[Digest(x)] \ {Short[Digest(x)]} :
                  Arrive("image", Home[x] \o <<p>>, None, c)
  <2>1. PICK x \in Images, c \in Credentials :
            \E p \in Begins[Digest(x)] \ {Short[Digest(x)]} :
                  Arrive("image", Home[x] \o <<p>>, None, c)
    BY <1>12
  <2>2. PICK p \in Begins[Digest(x)] \ {Short[Digest(x)]} :
            Arrive("image", Home[x] \o <<p>>, None, c)
    BY <2>1
  <2>3. IsBeginning(Home[x] \o <<p>>)
    BY DEF IsBeginning
  <2>. QED
    BY <1>1, <2>2, <2>3, ArriveLead, ImageIsOperation
<1>. QED
  BY <1>2, <1>3, <1>4, <1>5, <1>6, <1>7, <1>8, <1>9, <1>10, <1>11, <1>12 DEF Next

\* The answer 404 of findBackend and of the calls is only ever given of what was
\* not there, or not supported, at some time of the request.
THEOREM MissingIsMissing ==
  ASSUME SimpleNames PROVE Spec => []NotFoundEarned
<1>1. LeadInv => NotFoundEarned
  BY DEF LeadInv
<1>. QED
  BY <1>1, InitLead, StepLead, PTL DEF Spec

\* The ID a list makes of a thing leads the request back to it: ParseCompositeID
\* takes apart what the lists put together.
THEOREM IdLeadsBack ==
  ASSUME SimpleNames PROVE Spec => []LeadsToAsked
<1>1. LeadInv => LeadsToAsked
  BY DEF LeadInv
<1>. QED
  BY <1>1, InitLead, StepLead, PTL DEF Spec

-----------------------------------------------------------------------------
(* No refusal, and no failure, without its reason. *)

\* The converse of Authorised.  Whoever has the token and the scopes is not refused,
\* no path is too badly escaped, and a 500 is the failure of the one backend that
\* the ID names, which was called and has not answered all the time.
RefusalEarned ==
    /\ status # 400
    /\ status = 401 => op # "meta" /\ auth.enabled /\ ~Valid(credential)
    /\ status = 403 =>
           auth.enabled /\ auth.scopesEnabled /\ Valid(credential) /\ ~HasScopes(op, credential)
    /\ status = 500 => touched = {Device} /\ Device \notin steady
    /\ \A b \in touched : b = Device

EarnedInv ==
    /\ RefusalEarned
    /\ \A b \in steady : up[b]
    /\ pc \in Calling \ {"call"} => touched = {Device}

\* An answer of the checks, or the way to the next of them.
LEMMA ChecksEarned ==
  ASSUME AccessInv, EarnedInv, Public \/ JWTMiddleware \/ Bind \/ ScopeMiddleware \/ FindBackend
  PROVE  EarnedInv'
<1> USE DEF EarnedInv
<1>1. /\ UNCHANGED <<auth, up, op, credential, id, touched, steady>>
      /\ status' = status \/ Answer(200) \/ Answer(404) \/ Answer(401) \/ Answer(403)
      /\ pc' \notin Calling \ {"call"}
  <2>1. \/ Pass("bind") \/ Pass("scope") \/ Pass("service") \/ Pass("call")
        \/ Answer(200) \/ Answer(404) \/ Answer(401) \/ Answer(403)
    BY DEF Public, JWTMiddleware, Bind, ScopeMiddleware, FindBackend, EscapedPathRouting, EscapedPath
  <2>. QED
    BY <2>1 DEF Pass, Answer, Calling, world, request
<1>2. CASE status' \in {status, 200, 404}
  BY <1>1, <1>2 DEF RefusalEarned, Valid, HasScopes, Device
<1>3. CASE Answer(401)
  <2>1. JWTMiddleware
    BY <1>3 DEF Answer, Pass, Public, Bind, ScopeMiddleware, FindBackend
  <2>2. op # "meta" /\ auth.enabled /\ ~Valid(credential)
    BY <1>3, <2>1 DEF JWTMiddleware, Answer, Pass
  <2>. QED
    BY <1>1, <1>3, <2>2 DEF RefusalEarned, Answer, Valid, Device
<1>4. CASE Answer(403)
  <2>1. ScopeMiddleware
    BY <1>4 DEF Answer, Pass, Public, Bind, JWTMiddleware, FindBackend
  <2>2. /\ auth.enabled /\ auth.scopesEnabled /\ ~HasScopes(op, credential)
        /\ Valid(credential)
    BY <1>4, <2>1 DEF ScopeMiddleware, Answer, Pass, AccessInv, CheckedInv
  <2>. QED
    BY <1>1, <1>4, <2>2 DEF RefusalEarned, Answer, Valid, HasScopes, Device
<1>. QED
  BY <1>1, <1>2, <1>3, <1>4 DEF Answer

\* A call that fails finds the backend down, or its answer was lost.
LEMMA CallsEarned ==
  ASSUME AccessInv, EarnedInv,
         GetContainer \/ GetContainerResources \/ GetImage \/ GetNetwork \/ GetStorageVolume
           \/ GetBackupTask \/ Operate
         \/ ReadExtra("status", "detail") \/ ReadExtra("detail", "target")
         \/ ReadExtra("target", "done")
  PROVE  EarnedInv'
<1> USE DEF EarnedInv
<1>0. pc \in Calling /\ status = 0 /\ Device \in Backends
  BY CallsAfter DEF AccessInv, TypeOK, CheckedInv, Calling
<1>1. /\ UNCHANGED <<auth, up, op, credential, id>> /\ steady' \in {steady, steady \ {Device}}
      /\ touched' \in {touched, touched \cup {Device}}
  BY DEF GetContainer, GetContainerResources, GetImage, GetNetwork, GetStorageVolume,
     GetBackupTask, Operate, ReadExtra, ReadThing, world, request
<1>2. status' \in {0, 200, 204, 404, 500}
  BY <1>0 DEF GetContainer, GetContainerResources, GetImage, GetNetwork, GetStorageVolume,
     GetBackupTask, Operate, ReadExtra, ReadThing, End, Failed
<1>3. status' = 500 => (~up[Device] \/ steady' = steady \ {Device})
  BY <1>0 DEF GetContainer, GetContainerResources, GetImage, GetNetwork, GetStorageVolume,
     GetBackupTask, Operate, ReadExtra, ReadThing, End, Failed
<1>4. touched' = touched \cup {Device} \/ (pc \in Calling \ {"call"} /\ touched' = touched)
  BY <1>0 DEF Calling, GetContainer, GetContainerResources, GetImage, GetNetwork, GetStorageVolume,
     GetBackupTask, Operate, ReadExtra, ReadThing, End, Failed
<1>. QED
  BY <1>1, <1>2, <1>3, <1>4 DEF RefusalEarned, Device

LEMMA StepEarned ==
  ASSUME AccessInv, EarnedInv, [Next]_vars PROVE EarnedInv'
<1>1. CASE Public \/ JWTMiddleware \/ Bind \/ ScopeMiddleware \/ FindBackend
  BY <1>1, ChecksEarned
<1>2. CASE GetContainer \/ GetContainerResources \/ GetImage \/ GetNetwork \/ GetStorageVolume
           \/ GetBackupTask \/ Operate
           \/ ReadExtra("status", "detail") \/ ReadExtra("detail", "target")
           \/ ReadExtra("target", "done")
  BY <1>2, CallsEarned
<1>3. CASE (\E x \in Things : Create(x) \/ Remove(x))
           \/ \E b \in Backends : GoAway(b) \/ ComeBack(b) \/ Discover(b)
  <2>1. /\ UNCHANGED <<auth, pc, op, credential, id, status, touched>> /\ steady' \subseteq steady
    BY <1>3 DEF Create, Remove, GoAway, ComeBack, Discover, Elsewhere, request
  <2>2. \A b \in steady' : up'[b]
    <3>1. up \in [Backends -> BOOLEAN] /\ steady \subseteq Backends
      BY DEF AccessInv, TypeOK
    <3>2. ASSUME NEW b \in Backends, GoAway(b) \/ ComeBack(b) PROVE \A d \in steady' : up'[d]
      BY <3>1, <3>2 DEF GoAway, ComeBack, EarnedInv
    <3>3. ASSUME UNCHANGED <<up, steady>> PROVE \A d \in steady' : up'[d]
      BY <3>3 DEF EarnedInv
    <3>. QED
      BY <1>3, <3>2, <3>3 DEF Create, Remove, Discover, EarnedInv
  <2>. QED
    BY <2>1, <2>2 DEF EarnedInv, RefusalEarned, Valid, HasScopes, Device
<1>4. CASE WriteAnswer
  BY <1>4 DEF WriteAnswer, EarnedInv, RefusalEarned, Calling
<1>5. ASSUME NEW o, NEW i, NEW x, NEW c, Arrive(o, i, x, c) PROVE EarnedInv'
  <2>1. touched = {} /\ status' = 0 /\ touched' = {} /\ pc' = "token" /\ up' = up
        /\ steady' = {b \in Backends : up[b]}
    BY <1>5 DEF Arrive, AccessInv, TypeOK, CheckedInv, world
  <2>. QED
    BY <2>1 DEF EarnedInv, RefusalEarned, Calling
<1>6. CASE UNCHANGED vars
  BY <1>6 DEF EarnedInv, RefusalEarned, Valid, HasScopes, Device, vars, world, request
<1>. QED
  BY <1>1, <1>2, <1>3, <1>4, <1>5, <1>6 DEF Next

\* A client that has the required token and scopes is never refused, and is told of
\* a failure only when the backend its ID names has failed it.
THEOREM NoRefusalWithoutReason == Spec => []RefusalEarned
<1>1. Init => EarnedInv
  BY DEF Init, EarnedInv, RefusalEarned, Calling
<1>2. EarnedInv => RefusalEarned
  BY DEF EarnedInv
<1>. QED
  BY <1>1, <1>2, InitAccess, StepAccess, StepEarned, PTL DEF Spec
=============================================================================
