------------------------------ MODULE Gateway ------------------------------
(***************************************************************************)
(* A request for one thing, from the socket to its status: token, scopes   *)
(* (internal/auth/middleware.go), the composite ID (internal/apierrors,    *)
(* internal/routing), the backend (internal/adapters/registry.go) and the  *)
(* calls of the endpoint (internal/docker, internal/storage), while things *)
(* come and go, backends fail and discovery is repaired.                   *)
(*                                                                         *)
(* One request at a time: they share nothing but the sessions, which have  *)
(* modules of their own; here a backend answers or does not.  The lists    *)
(* are in Aggregation; the details of the network service take the same    *)
(* way and go on in NetworkConfig.                                         *)
(***************************************************************************)
EXTENDS Integers, Sequences

CONSTANTS
    Backends,             \* names of the Synology backends: the words between the dots
    Capabilities,         \* of each: "docker", "backup"
    Things, Home, Kind, Name,  \* what they hold: backend, kind, name (words);
                          \* an image is a line of the backend's list, and its name the
                          \* one word of its digest: two lines may have the same
    Short, Begins,        \* of a digest: its first twelve digits; the words it begins with
    Percent,              \* words with a '%' in them
    Required,             \* the scopes each operation declares
    Configurations,       \* bound: the settings of authorization that occur
    Credentials,          \* what the clients send: a token, or something else
    Empty, None,
    MaxChanges            \* bound: changes of the backends and their things

Kinds == {"container", "image", "network", "volume", "task"}
\* One operation per kind, and "operate": start, stop or restart a container.
Operations == Kinds \cup {"operate"}
Target(o) == IF o = "operate" THEN "container" ELSE o

Images == {x \in Things : Kind[x] = "image"}
Digest(x) == Name[x][1]
Digests == {Digest(x) : x \in Images}
imageShortID(x) == <<Short[Digest(x)]>>
CompositeId(x) == Home[x] \o (IF x \in Images THEN imageShortID(x) ELSE Name[x])

\* validate (internal/config/config.go) asks no more of the names than that there are some.
GatewayAssumption ==
    /\ \A b \in Backends : b \in Seq(STRING) /\ b # <<>> /\ b # <<Empty>>
    /\ Capabilities \in [Backends -> SUBSET {"docker", "backup"}]
    /\ Home \in [Things -> Backends] /\ Kind \in [Things -> Kinds]
    /\ \A x \in Things : Name[x] \in Seq(STRING) /\ Name[x] # <<>> /\ Name[x] # <<Empty>>
    /\ \A x, y \in Things :
           Home[x] = Home[y] /\ Kind[x] = Kind[y] /\ Name[x] = Name[y]
               => x = y \/ x \in Images
    \* A digest is longer than the twelve digits that an ID keeps of it.
    /\ \A x \in Images : Len(Name[x]) = 1
    /\ \A d \in Digests : Begins[d] \subseteq STRING \ {Empty} /\ Short[d] \in Begins[d]
    /\ \A d, e \in Digests : Short[d] \in Begins[e] => Short[e] = Short[d]
    /\ Empty \in STRING /\ Percent \subseteq STRING
    /\ DOMAIN Required = Operations
    /\ \A c \in Credentials :
           DOMAIN c = {"bearer", "signed", "expiry", "issuer", "audience", "scopes"}
    /\ Configurations \subseteq [enabled : BOOLEAN, scopesEnabled : BOOLEAN, audience : BOOLEAN]
    /\ None \notin Things /\ MaxChanges \in Nat
ASSUME Validated == GatewayAssumption

VARIABLES
    auth,         \* the configuration: enabled, scopesEnabled, and whether an audience is set
    supports,     \* what discovery has found of each backend
    up,           \* whether it answers
    exists,       \* the things that are there
    changes,
    pc, op, credential,
    id,           \* the ID in the path
    asked,        \* history: the thing it was made for, or None
    found, extras,  \* what the answer is about; what a backup task's answer says more
    status,       \* 0 as long as there is none
    touched,      \* history: the backends that were called
    ran,          \* history: the containers that were started, stopped or restarted
    kept,         \* history: things that were there, of a capable backend, all the time
    steady        \* history: backends that answered all the time

world == <<auth, supports, up, exists, changes>>
request == <<op, credential, id, asked>>
vars == <<world, pc, request, found, extras, status, touched, ran, kept, steady>>

TypeOK ==
    /\ auth \in Configurations
    /\ supports \in [Backends -> SUBSET {"docker", "backup"}] /\ up \in [Backends -> BOOLEAN]
    /\ exists \in SUBSET Things /\ changes \in 0..MaxChanges
    /\ pc \in {"idle", "token", "bind", "scope", "service", "call", "usage",
               "status", "detail", "target", "done"}
    /\ op \in Operations \cup {"meta"} /\ credential \in Credentials \cup {None}
    /\ asked \in Things \cup {None} /\ found \in Things \cup {None}
    /\ extras \in SUBSET {"status", "detail", "target"}
    /\ status \in {0, 200, 204, 400, 401, 403, 404, 500}
    /\ status = 0 <=> pc # "done"
    /\ touched \in SUBSET Backends /\ ran \in SUBSET Things
    /\ kept \in SUBSET Things /\ steady \in SUBSET Backends

Supported(b, k) ==
    CASE k \in {"container", "image", "network"} -> "docker" \in supports[b]
      [] k = "task" -> "backup" \in supports[b]
      [] k = "volume" -> TRUE

Able(x) == Supported(Home[x], Kind[x])

Init ==
    /\ auth \in Configurations
    /\ supports \in {s \in [Backends -> SUBSET {"docker", "backup"}] :
                        \A b \in Backends : s[b] \in {{}, Capabilities[b]}}
    /\ up = [b \in Backends |-> TRUE] /\ exists = Things /\ changes = 0
    /\ pc = "idle" /\ op = "meta" /\ credential = None /\ id = <<>> /\ asked = None
    /\ found = None /\ extras = {} /\ status = 0 /\ touched = {} /\ ran = {}
    /\ kept = {} /\ steady = {}
-----------------------------------------------------------------------------
\* The way to the handler.

Arrive(o, i, x, c) ==
    /\ pc = "idle"
    /\ pc' = "token" /\ op' = o /\ credential' = c /\ id' = i /\ asked' = x
    /\ kept' = {y \in exists : Able(y)} /\ steady' = {b \in Backends : up[b]}
    /\ UNCHANGED <<world, found, extras, status, touched, ran>>

Pass(where) ==
    /\ pc' = where
    /\ UNCHANGED <<world, request, found, extras, status, touched, ran, kept, steady>>

\* Broken: the refusal is written, but the middleware does not return.
AnswerAndGoOn(s) ==
    /\ pc' = "service" /\ status' = s
    /\ UNCHANGED <<world, request, found, extras, touched, ran, kept, steady>>

Answer(s) ==
    /\ pc' = "done" /\ status' = s
    /\ UNCHANGED <<world, request, found, extras, touched, ran, kept, steady>>

\* meta, .well-known/homelab, version, and what is handed to Dex.
Public == op = "meta" /\ pc = "token" /\ Answer(200)

Valid(c) ==
    /\ c.bearer /\ c.signed /\ c.issuer
    /\ c.expiry = "future"
    /\ auth.audience => c.audience

JWTMiddleware ==
    /\ pc = "token" /\ op # "meta"
    /\ IF auth.enabled /\ ~Valid(credential) THEN Answer(401) ELSE Pass("bind")

\* How often the path that is routed on is still escaped, of what arrived escaped once.
EscapedPath(times) == times
DecodedPath(times) == times - 1        \* broken: routed on URL.Path
EscapedPathRouting(times) == EscapedPath(times)

Bind ==
    /\ pc = "bind"
    /\ IF EscapedPathRouting(1) = 0 /\ \E i \in DOMAIN id : id[i] \in Percent
       THEN Answer(400)
       ELSE Pass("scope")

AnyScope(o, c) == Required[o] \cap c.scopes # {}         \* broken: one of the scopes will do
HasScopes(o, c) == Required[o] # {} /\ Required[o] \subseteq c.scopes

ScopeMiddleware ==
    /\ pc = "scope"
    /\ IF auth.enabled /\ auth.scopesEnabled /\ ~HasScopes(op, credential)
       THEN Answer(403)
       ELSE Pass("service")
-----------------------------------------------------------------------------
\* The ID and the backend it names.

\* ParseCompositeID: what is before the first dot, and what is after it.
Device == <<id[1]>>
Suffix == Tail(id)
IsCompositeID == Len(id) >= 2 /\ id[1] # Empty /\ Suffix # <<Empty>>

Find(name) == name \in Backends

FindBackend ==
    /\ pc = "service"
    /\ IF IsCompositeID /\ Find(Device) /\ Supported(Device, Target(op))
         THEN Pass("call")
         ELSE Answer(404)

\* An image is one whose digest begins with what is asked for.
Matches(x) ==
    IF x \in Images THEN \E p \in Begins[Digest(x)] : Suffix = <<p>> ELSE Name[x] = Suffix

Matching == {x \in exists : Home[x] = Device /\ Kind[x] = Target(op) /\ Matches(x)}
-----------------------------------------------------------------------------
\* The calls of the endpoints.

End(s) == pc' = "done" /\ status' = s /\ UNCHANGED <<found, extras>>

\* Broken: a backend that fails has nothing.
FailedNotFound == End(404)

Failed == End(500)

\* A read of the backend: the thing, if it is there, and where to go on.  Of several
\* images it is the first; the order of the list is the backend's.
ReadThing(next, answer) ==
    /\ pc = "call"
    /\ touched' = touched \cup {Device}
    /\ IF ~up[Device] THEN Failed
       ELSE IF Matching = {} THEN End(404)
       ELSE /\ pc' = next /\ status' = answer /\ found' \in Matching
            /\ UNCHANGED extras
    /\ UNCHANGED <<world, request, ran, kept, steady>>

GetContainer == op = "container" /\ ReadThing("usage", 0)

\* A container that has gone since is answered without usage.
GetContainerResources ==
    /\ pc = "usage"
    /\ IF up[Device] THEN End(200) ELSE Failed
    /\ UNCHANGED <<world, request, touched, ran, kept, steady>>

\* These are looked up in the list of the backend.
GetImage == op = "image" /\ ReadThing("done", 200)
GetNetwork == op = "network" /\ ReadThing("done", 200)
GetStorageVolume == op = "volume" /\ ReadThing("done", 200)

GetBackupTask == op = "task" /\ ReadThing("status", 0)

\* What cannot be read of a backup task is left out.
ReadExtra(what, next) ==
    /\ pc = what
    /\ extras' = IF up[Device] THEN extras \cup {what} ELSE extras
    /\ pc' = next /\ status' = IF next = "done" THEN 200 ELSE 0
    /\ UNCHANGED <<world, request, found, touched, ran, kept, steady>>

\* Start, stop or restart: RemoteCall.  When its answer is lost, the backend
\* has not been steady.
Operate ==
    /\ pc = "call" /\ op = "operate"
    /\ touched' = touched \cup {Device}
    /\ \/ ~up[Device] /\ Failed /\ UNCHANGED <<ran, steady>>
       \/ up[Device] /\ Matching = {} /\ End(404) /\ UNCHANGED <<ran, steady>>
       \/ up[Device] /\ Matching # {} /\ End(204) /\ ran' = Matching /\ UNCHANGED steady
       \/ up[Device] /\ Matching # {} /\ Failed /\ ran' = Matching /\ steady' = steady \ {Device}
    /\ UNCHANGED <<world, request, kept>>

\* The answer is written, and the request forgotten.
WriteAnswer ==
    /\ pc = "done" /\ pc' = "idle" /\ op' = "meta" /\ credential' = None
    /\ id' = <<>> /\ asked' = None /\ found' = None /\ extras' = {} /\ status' = 0
    /\ touched' = {} /\ ran' = {} /\ kept' = {} /\ steady' = {}
    /\ UNCHANGED world
-----------------------------------------------------------------------------
\* Meanwhile.

Change == changes < MaxChanges /\ changes' = changes + 1
Elsewhere == UNCHANGED <<auth, pc, request, found, extras, status, touched, ran>>

Create(x) ==
    /\ Change /\ x \notin exists /\ exists' = exists \cup {x}
    /\ UNCHANGED <<supports, up, kept, steady>> /\ Elsewhere

Remove(x) ==
    /\ Change /\ x \in exists /\ exists' = exists \ {x} /\ kept' = kept \ {x}
    /\ UNCHANGED <<supports, up, steady>> /\ Elsewhere

GoAway(b) ==
    /\ Change /\ up[b] /\ up' = [up EXCEPT ![b] = FALSE] /\ steady' = steady \ {b}
    /\ UNCHANGED <<supports, exists, kept>> /\ Elsewhere

ComeBack(b) ==
    /\ Change /\ ~up[b] /\ up' = [up EXCEPT ![b] = TRUE]
    /\ UNCHANGED <<supports, exists, kept, steady>> /\ Elsewhere

\* Ping repairs a discovery that failed (BackendHealth).
Discover(b) ==
    /\ supports[b] # Capabilities[b] /\ up[b]
    /\ supports' = [supports EXCEPT ![b] = Capabilities[b]]
    /\ UNCHANGED <<up, exists, changes, kept, steady>> /\ Elsewhere

\* IDs of things, of which some are gone, and IDs of nothing.
Strange == {<<>>, <<Empty>>} \cup UNION {{b, b \o <<Empty>>, <<Empty>> \o b} : b \in Backends}

Next ==
    \/ \E o \in Operations, x \in Things, c \in Credentials :
           Kind[x] = Target(o) /\ Arrive(o, CompositeId(x), x, c)
    \/ \E x \in Images, c \in Credentials :
           \E p \in Begins[Digest(x)] \ {Short[Digest(x)]} :
               Arrive("image", Home[x] \o <<p>>, None, c)
    \/ \E o \in Operations, i \in Strange, c \in Credentials : Arrive(o, i, None, c)
    \/ \E c \in Credentials : Arrive("meta", <<>>, None, c)
    \/ Public \/ JWTMiddleware \/ Bind \/ ScopeMiddleware \/ FindBackend
    \/ GetContainer \/ GetContainerResources \/ GetImage \/ GetNetwork \/ GetStorageVolume
    \/ GetBackupTask \/ Operate
    \/ ReadExtra("status", "detail") \/ ReadExtra("detail", "target") \/ ReadExtra("target", "done")
    \/ WriteAnswer
    \/ \E x \in Things : Create(x) \/ Remove(x)
    \/ \E b \in Backends : GoAway(b) \/ ComeBack(b) \/ Discover(b)

Spec == Init /\ [][Next]_vars
-----------------------------------------------------------------------------
(***************************************************************************)
(* Properties                                                              *)
(***************************************************************************)

(* With authorization enabled, no backend hears of a request whose token is
   not signed by the issuer, is expired or never expires, is for another
   audience, or, when scopes are, lacks one that its operation declares; a
   request that is refused with 400, 401 or 403 has called no backend. *)
Authorised ==
    /\ touched # {} /\ auth.enabled =>
           /\ credential.bearer /\ credential.signed /\ credential.issuer
           /\ credential.expiry = "future" /\ (auth.audience => credential.audience)
           /\ auth.scopesEnabled =>
                  Required[op] # {} /\ \A s \in Required[op] : s \in credential.scopes
    /\ status \in {400, 401, 403} => touched = {}

(* A 404 is earned: a thing that is there, on a backend discovery has found
   capable of it, from the start of the request to its end, is never "not
   found", whether the backend answers, fails or comes back meanwhile; and
   what was not found has not been operated. *)
NotFoundEarned == status = 404 => asked \notin kept /\ ran = {}

(* The ID that a list hands out leads to its thing: while the thing is there
   and its backend answers, a request that is not refused is answered, or
   operates the thing.  No operation ever runs on another one, and no answer
   is about another one, but for images: an image that is in the list under
   two repositories has one ID for both lines, so the answer is about a line
   with the ID that was asked for, not always the line itself; and a few
   digits, which no list hands out, are answered with an image that begins
   with them. *)
LeadsToAsked ==
    /\ pc = "done" /\ op \in Operations /\ asked \in kept /\ Home[asked] \in steady =>
           \/ status \in {401, 403}
           \/ op = "operate" /\ status = 204 /\ ran = {asked}
           \/ op # "operate" /\ status = 200 /\ found # None
    /\ ran \subseteq {asked}
    /\ \/ found \in {None, asked}
       \/ /\ op = "image" /\ found \in Images
          /\ asked # None => CompositeId(found) = CompositeId(asked)
          /\ \E p \in Begins[Digest(found)] : id = Home[found] \o <<p>>
=============================================================================
