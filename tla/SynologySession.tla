-------------------------- MODULE SynologySession --------------------------
(***************************************************************************)
(* The DSM session shared by every goroutine that calls one NAS            *)
(* (internal/adapters/synology.go): Call, ensureSession, loginLocked and   *)
(* invalidateSession around one cached SID and one RWMutex, against a DSM  *)
(* whose sessions can end at any time.                                     *)
(*                                                                         *)
(* A SID is a number; 0 is the empty string, no session cached.  The       *)
(* critical sections that do no I/O are one step; the one that logs in     *)
(* holds the lock across its requests, so it is several.                   *)
(***************************************************************************)
EXTENDS Integers

CONSTANTS
    Callers,          \* the goroutines that call this NAS
    NoOne,            \* value of lock when nobody holds it for writing
    MaxExpirations,   \* bound: sessions that end for a reason outside the program
    MaxLostLogins,    \* bound: logins DSM grants whose answer never arrives
    MaxResends        \* bound: times net/http repeats the request of a call, by caller

ASSUME ConstantsAssumption ==
    /\ NoOne \notin Callers
    /\ MaxExpirations \in Nat /\ MaxLostLogins \in Nat
    /\ MaxResends \in [Callers -> Nat]

VARIABLES
    sid,          \* c.sid
    authInfo,     \* c.authInfo # nil
    lock,         \* who holds c.mu for writing across network I/O
    pc, attempt,  \* where each caller is in Call, and which of its two tries
    used,         \* the SID of the current try
    first,        \* the SID of the first try, once that one was rejected
    reply,        \* the answer to the current try; once idle, Call's result
    ran,          \* how often DSM ran the operation of the latest call
    resent,       \* how often net/http repeated the request of the latest call
    since,        \* history: expirations when the current call began
    live,         \* DSM: the SIDs it accepts
    issued,       \* DSM: SIDs issued so far, the latest is issued itself
    expirations, lostLogins

callerVars == <<pc, attempt, used, first, reply, ran, resent, since>>
clientVars == <<sid, authInfo, lock>>
serverVars == <<live, issued, expirations, lostLogins>>
vars == <<callerVars, clientVars, serverVars>>

PCs == {"idle", "check", "lock", "discover", "login", "send", "answered"}
Replies == {"none", "ok", "apiError", "lost", "expired", "noSession"}

TypeOK ==
    /\ issued \in Nat /\ expirations \in Nat /\ lostLogins \in Nat
    /\ live \in SUBSET (1..issued)
    /\ sid \in 0..issued
    /\ authInfo \in BOOLEAN
    /\ lock \in Callers \cup {NoOne}
    /\ pc \in [Callers -> PCs]
    /\ attempt \in [Callers -> 1..2]
    /\ used \in [Callers -> 0..issued]
    /\ first \in [Callers -> 0..issued]
    /\ reply \in [Callers -> Replies]
    /\ ran \in [Callers -> Nat] /\ resent \in [Callers -> Nat]
    /\ since \in [Callers -> 0..expirations]

Init ==
    /\ sid = 0 /\ authInfo = FALSE /\ lock = NoOne
    /\ pc = [c \in Callers |-> "idle"]
    /\ attempt = [c \in Callers |-> 1]
    /\ used = [c \in Callers |-> 0]
    /\ first = [c \in Callers |-> 0]
    /\ reply = [c \in Callers |-> "none"]
    /\ ran = [c \in Callers |-> 0]
    /\ resent = [c \in Callers |-> 0]
    /\ since = [c \in Callers |-> 0]
    /\ live = {} /\ issued = 0 /\ expirations = 0 /\ lostLogins = 0

Goto(c, label) == pc' = [pc EXCEPT ![c] = label]

\* Call returns r and its locals are gone.
Returns(c, r) ==
    /\ Goto(c, "idle")
    /\ reply' = [reply EXCEPT ![c] = r]
    /\ attempt' = [attempt EXCEPT ![c] = 1]
    /\ used' = [used EXCEPT ![c] = 0]
    /\ first' = [first EXCEPT ![c] = 0]
    /\ since' = [since EXCEPT ![c] = 0]
SendWith(c, s) == Goto(c, "send") /\ used' = [used EXCEPT ![c] = s]

-----------------------------------------------------------------------------
(* Client steps. *)

\* A handler calls the NAS.
Begin(c) ==
    /\ pc[c] = "idle"
    /\ Goto(c, "check")
    /\ reply' = [reply EXCEPT ![c] = "none"]
    /\ ran' = [ran EXCEPT ![c] = 0]
    /\ resent' = [resent EXCEPT ![c] = 0]
    /\ since' = [since EXCEPT ![c] = expirations]
    /\ UNCHANGED <<attempt, used, first, clientVars, serverVars>>

\* ensureSession, fast path: read c.sid under the read lock.
ReadSid(c) ==
    /\ pc[c] = "check" /\ lock = NoOne
    /\ IF sid # 0 THEN SendWith(c, sid) ELSE Goto(c, "lock") /\ UNCHANGED used
    /\ UNCHANGED <<attempt, first, reply, ran, resent, since, clientVars, serverVars>>

NoRecheck == FALSE     \* broken: log in without looking again
Recheck == sid # 0

\* ensureSession, slow path: take the write lock and look again.  With a SID
\* there the lock is released at once, otherwise it is kept for the login.
LockSid(c) ==
    /\ pc[c] = "lock" /\ lock = NoOne
    /\ \/ Recheck /\ SendWith(c, sid) /\ UNCHANGED lock
       \/ /\ ~Recheck /\ lock' = c
          /\ Goto(c, IF authInfo THEN "login" ELSE "discover")
          /\ UNCHANGED used
    /\ UNCHANGED <<attempt, first, reply, ran, resent, since, sid, authInfo, serverVars>>

\* discoverAuth: one request, cached on success; on failure ensureSession
\* returns the error and its deferred Unlock runs.
DiscoverAuth(c) ==
    /\ pc[c] = "discover"
    /\ \/ /\ authInfo' = TRUE /\ Goto(c, "login")
          /\ UNCHANGED <<lock, reply, attempt, used, first, since>>
       \/ Returns(c, "noSession") /\ lock' = NoOne /\ UNCHANGED authInfo
    /\ UNCHANGED <<ran, resent, sid, serverVars>>

\* DSM grants a login: a new SID.  Whether this ends the account's other
\* sessions (code 107) is up to DSM.
Grant ==
    /\ issued' = issued + 1
    /\ \E kept \in {live, {}} : live' = kept \cup {issued + 1}
    /\ UNCHANGED expirations

\* DSM grants a login, and its answer never arrives.
GrantLost == lostLogins < MaxLostLogins /\ Grant /\ lostLogins' = lostLogins + 1

\* loginLocked stores the SID of the answer, whatever it is, and unlocks.
LoginGranted(c) ==
    /\ pc[c] = "login"
    /\ Grant /\ UNCHANGED lostLogins
    /\ sid' = issued + 1 /\ SendWith(c, issued + 1) /\ lock' = NoOne
    /\ UNCHANGED <<attempt, first, reply, ran, resent, since, authInfo>>

\* A successful answer that carries no SID: c.sid is set to "".
LoginEmpty(c) ==
    /\ pc[c] = "login"
    /\ sid' = 0 /\ SendWith(c, 0) /\ lock' = NoOne
    /\ UNCHANGED <<attempt, first, reply, ran, resent, since, authInfo, serverVars>>

\* The login is refused or unreachable, or its answer is lost on the way.
LoginError(c) ==
    /\ pc[c] = "login"
    /\ \/ UNCHANGED serverVars
       \/ GrantLost
    /\ Returns(c, "noSession")
    /\ UNCHANGED <<ran, resent, sid, authInfo>>

LoginFailedKeepsLock(c) == LoginError(c) /\ UNCHANGED lock   \* broken: no deferred Unlock
LoginFailed(c) == LoginError(c) /\ lock' = NoOne

\* callWithSID: DSM handles the request with the SID it carries.  With a live
\* SID the operation runs; otherwise DSM answers 106, 107 or 119.  Either
\* answer can be lost, and so can the request.
Answer(c) ==
    /\ pc[c] = "send" /\ Goto(c, "answered")
    /\ \/ /\ used[c] \in live
          /\ ran' = [ran EXCEPT ![c] = @ + 1]
          /\ \E r \in {"ok", "apiError", "lost"} : reply' = [reply EXCEPT ![c] = r]
       \/ /\ used[c] \notin live /\ UNCHANGED ran
          /\ reply' = [reply EXCEPT ![c] = "expired"]
       \/ UNCHANGED ran /\ reply' = [reply EXCEPT ![c] = "lost"]
    /\ UNCHANGED <<attempt, used, first, resent, since, clientVars, serverVars>>

RetryAnyError(c) == reply[c] \in {"expired", "lost"} /\ attempt[c] = 1   \* broken
RetryUnbounded(c) == reply[c] = "expired"                               \* broken
Retryable(c) == reply[c] = "expired" /\ attempt[c] = 1

\* invalidateSession(sid): clear c.sid only if it still is the rejected one.
DropSidAlways(c) == sid' = 0     \* broken: what the UniFi client does with its flag
DropSidNever(c) == sid' = sid    \* broken
DropSid(c) == sid' = IF sid = used[c] THEN 0 ELSE sid

\* Call, session rejected on the first try: drop the SID and go round again.
Invalidate(c) ==
    /\ pc[c] = "answered" /\ Retryable(c) /\ lock = NoOne
    /\ DropSid(c)
    /\ attempt' = [attempt EXCEPT ![c] = @ + 1]
    /\ first' = [first EXCEPT ![c] = used[c]]
    /\ reply' = [reply EXCEPT ![c] = "none"]
    /\ Goto(c, "check")
    /\ UNCHANGED <<used, ran, resent, since, authInfo, lock, serverVars>>

\* Call returns the answer, or the error, of this try.
Return(c) ==
    /\ pc[c] = "answered" /\ ~Retryable(c)
    /\ Returns(c, reply[c])
    /\ UNCHANGED <<ran, resent, clientVars, serverVars>>

-----------------------------------------------------------------------------
(* net/http on its own.  All requests are GETs over connections it keeps     *)
(* alive: when a reused one dies before the first byte of the answer, the     *)
(* Transport sends the request again on another, and Call knows nothing of it.*)

\* callWithSID's request goes out again; DSM may have run the operation.
Resend(c) ==
    /\ pc[c] = "send" /\ resent[c] < MaxResends[c]
    /\ resent' = [resent EXCEPT ![c] = @ + 1]
    /\ \/ used[c] \in live /\ ran' = [ran EXCEPT ![c] = @ + 1]
       \/ UNCHANGED ran
    /\ UNCHANGED <<pc, attempt, used, first, reply, since, clientVars, serverVars>>

\* loginLocked's request goes out again; DSM had granted the first.
ResendLogin(c) ==
    /\ pc[c] = "login" /\ GrantLost
    /\ UNCHANGED <<callerVars, clientVars>>

(* The DSM on its own: timeout, reboot, login of the account elsewhere. *)
Expire(s) ==
    /\ expirations < MaxExpirations
    /\ live' = live \ {s}
    /\ expirations' = expirations + 1
    /\ UNCHANGED <<callerVars, clientVars, issued, lostLogins>>

LockStep(c) == ReadSid(c) \/ LockSid(c) \/ Invalidate(c)
Login(c) == LoginGranted(c) \/ LoginEmpty(c) \/ LoginFailed(c)
IOStep(c) == DiscoverAuth(c) \/ Login(c) \/ Answer(c) \/ Return(c)

Next ==
    \/ \E c \in Callers : Begin(c) \/ LockStep(c) \/ IOStep(c)
    \/ \E c \in Callers : Resend(c) \/ ResendLogin(c)
    \/ \E s \in live : Expire(s)

Spec == Init /\ [][Next]_vars

\* Every request ends within backendRequestTimeout, and a goroutine that waits
\* for a sync.RWMutex gets it (its starvation mode hands the lock over in order).
Fairness == \A c \in Callers : WF_vars(IOStep(c)) /\ SF_vars(LockStep(c))
FairSpec == Spec /\ Fairness

-----------------------------------------------------------------------------
(* Properties. *)

\* A session DSM still accepts is never thrown away: when the cached SID
\* changes, DSM has already ended the old one.  This is what the comparison in
\* invalidateSession is for ("prevents trampling a fresh SID").
LiveSessionKept == [][sid # 0 /\ sid' # sid => sid \notin live]_vars

\* However many goroutines see the same rejection, they cause one login: DSM
\* grants one to start with and one per session that ended or was lost.
OneLoginPerExpiration == issued <= 1 + expirations + lostLogins

\* A session that was already stale when the call began is never the caller's
\* problem: Call reports an expired session only if another one ended meanwhile
\* (or DSM answered a login without a SID).
StaleSessionHidden ==
    \A c \in Callers :
        pc[c] = "answered" /\ reply[c] = "expired" /\ attempt[c] = 2 =>
            used[c] = 0 \/ expirations > since[c]

\* The second try never presents the SID that the first try saw rejected.
RetryUsesNewSid ==
    \A c \in Callers :
        attempt[c] = 2 /\ pc[c] \in {"send", "answered"} =>
            used[c] # first[c] \/ used[c] = 0

\* Call keeps the promise of RemoteCall: its retry never runs an operation a
\* second time, beyond the runs that net/http's own repetitions account for, and
\* the result agrees with whether the operation ran.
Promise == INSTANCE RemoteCall WITH
    active <- [c \in Callers |-> pc[c] # "idle"],
    runs <- ran,
    resent <- resent,
    outcome <- [c \in Callers |-> IF pc[c] = "idle" THEN reply[c] ELSE "none"]

KeepsPromise == Promise!Spec

\* Every call returns, although goroutines queue behind a lock that is held
\* across two network requests.
CallsReturn == \A c \in Callers : pc[c] # "idle" ~> pc[c] = "idle"

-----------------------------------------------------------------------------
(* The inductive invariant behind the safety properties above. *)

InCall == {"check", "lock", "discover", "login"}   \* no request sent on this try
Trying == {"send", "answered"}

\* s is no session, a good one, or one that ended since c's call began.
FreshFor(c, s) == s = 0 \/ s \in live \/ expirations > since[c]

\* The lock is held across the login, and only then; nothing is cached then.
LockInv ==
    /\ \A c \in Callers : lock = c <=> pc[c] \in {"discover", "login"}
    /\ lock # NoOne => sid = 0

\* A SID in use that is still good is the cached one.
UsedInv(c) ==
    pc[c] \in Trying =>
        /\ used[c] \in live => sid = used[c]
        /\ pc[c] = "answered" /\ reply[c] = "expired" => used[c] \notin live

\* The first try: if the cache has moved on, it holds something newer.
FirstTryInv(c) ==
    attempt[c] = 1 /\ pc[c] \in Trying => sid = used[c] \/ FreshFor(c, sid)

\* The second try: the rejected SID is gone for good, the next one is fresh.
SecondTryInv(c) ==
    attempt[c] = 2 =>
        /\ pc[c] # "idle"
        /\ first[c] \notin live
        /\ sid # first[c] \/ sid = 0
        /\ pc[c] \in InCall => FreshFor(c, sid)
        /\ pc[c] \in Trying => /\ FreshFor(c, used[c])
                               /\ used[c] # first[c] \/ used[c] = 0

\* The operation ran at most once more than net/http repeated its request, and
\* the reply agrees with whether it did.
RanInv(c) ==
    /\ pc[c] \in InCall \cup {"send"} => ran[c] <= resent[c] /\ reply[c] = "none"
    /\ pc[c] = "answered" => reply[c] \in {"ok", "apiError", "lost", "expired"}
    /\ ran[c] <= 1 + resent[c]
    /\ reply[c] \in {"ok", "apiError"} => ran[c] >= 1
    /\ reply[c] \in {"expired", "noSession"} => ran[c] <= resent[c]

\* Logins are paid for by sessions that ended or were lost, but for the one in use.
LoginCountInv ==
    /\ issued <= 1 + expirations + lostLogins
    /\ sid \notin live => issued <= expirations + lostLogins

IInv ==
    /\ TypeOK
    /\ LockInv
    /\ LoginCountInv
    /\ \A c \in Callers : UsedInv(c) /\ FirstTryInv(c) /\ SecondTryInv(c) /\ RanInv(c)
=============================================================================
