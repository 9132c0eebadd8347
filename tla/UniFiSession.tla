---------------------------- MODULE UniFiSession ----------------------------
(***************************************************************************)
(* The session of the UniFi client (internal/adapters/unifi.go): get,      *)
(* maybeLogin, ensureSession, loginLocked and invalidateSession.           *)
(*                                                                         *)
(* The session itself is a cookie in the http.Client's jar, which every    *)
(* request picks up when it is sent; all the client keeps is the flag      *)
(* loggedIn under c.mu.  There is no token to compare, so invalidateSession *)
(* clears the flag whatever happened since the 401 was received.  With an  *)
(* API key there is no session and no login.                               *)
(***************************************************************************)
EXTENDS Integers

CONSTANTS
    Callers,          \* goroutines that call get
    NoOne,            \* value of lock when nobody holds it for writing
    MaxExpirations,   \* bound: sessions the controller ends on its own
    MaxLostLogins     \* bound: logins granted whose answer never arrives

ASSUME UniFiAssumption ==
    /\ NoOne \notin Callers
    /\ MaxExpirations \in Nat /\ MaxLostLogins \in Nat

VARIABLES
    apiKey,       \* c.apiKey # "", fixed by the configuration
    loggedIn,     \* c.loggedIn
    cookie,       \* the session cookie in the jar, 0 if none
    lock,         \* who holds c.mu for writing across the login
    pc, attempt, used, reply,
    since,        \* history: expirations when the current call began
    live,         \* controller: the sessions it accepts
    logins,       \* controller: sessions granted so far, the latest is number logins
    rejections,   \* history: 401 answers that made a caller invalidate
    expirations, lostLogins

clientVars == <<apiKey, loggedIn, cookie, lock>>
callerVars == <<pc, attempt, used, reply, since>>
serverVars == <<live, logins, expirations, lostLogins>>
vars == <<clientVars, callerVars, serverVars, rejections>>

TypeOK ==
    /\ logins \in Nat /\ rejections \in Nat /\ expirations \in Nat /\ lostLogins \in Nat
    /\ apiKey \in BOOLEAN /\ loggedIn \in BOOLEAN
    /\ live \in SUBSET (1..logins) /\ cookie \in 0..logins
    /\ lock \in Callers \cup {NoOne}
    /\ pc \in [Callers -> {"idle", "check", "lock", "login", "ready", "sent", "answered"}]
    /\ attempt \in [Callers -> 1..2]
    /\ used \in [Callers -> 0..logins]
    /\ reply \in [Callers -> {"none", "ok", "error", "unauthorized", "noSession"}]
    /\ since \in [Callers -> Nat]

Init ==
    /\ apiKey \in BOOLEAN
    /\ loggedIn = FALSE /\ cookie = 0 /\ lock = NoOne
    /\ pc = [c \in Callers |-> "idle"]
    /\ attempt = [c \in Callers |-> 1]
    /\ used = [c \in Callers |-> 0]
    /\ reply = [c \in Callers |-> "none"]
    /\ since = [c \in Callers |-> 0]
    /\ live = {} /\ logins = 0 /\ rejections = 0 /\ expirations = 0 /\ lostLogins = 0

Goto(c, label) == pc' = [pc EXCEPT ![c] = label]

\* get returns r and its locals are gone.
Returns(c, r) ==
    /\ Goto(c, "idle")
    /\ reply' = [reply EXCEPT ![c] = r]
    /\ attempt' = [attempt EXCEPT ![c] = 1]
    /\ used' = [used EXCEPT ![c] = 0]
    /\ since' = [since EXCEPT ![c] = 0]

\* get begins; maybeLogin is a no-op with an API key.
Begin(c) ==
    /\ pc[c] = "idle"
    /\ Goto(c, IF apiKey THEN "ready" ELSE "check")
    /\ reply' = [reply EXCEPT ![c] = "none"]
    /\ since' = [since EXCEPT ![c] = expirations]
    /\ UNCHANGED <<attempt, used, clientVars, serverVars, rejections>>

\* ensureSession, fast path: loggedIn under the read lock.
CheckFlag(c) ==
    /\ pc[c] = "check" /\ lock = NoOne
    /\ Goto(c, IF loggedIn THEN "ready" ELSE "lock")
    /\ UNCHANGED <<attempt, used, reply, since, clientVars, serverVars, rejections>>

NoRecheck == FALSE      \* broken: log in without looking again
Recheck == loggedIn

\* ensureSession, slow path: look again under the write lock, keep it to log in.
LockFlag(c) ==
    /\ pc[c] = "lock" /\ lock = NoOne
    /\ \/ Recheck /\ Goto(c, "ready") /\ UNCHANGED lock
       \/ ~Recheck /\ Goto(c, "login") /\ lock' = c
    /\ UNCHANGED <<apiKey, loggedIn, cookie, attempt, used, reply, since, serverVars, rejections>>

\* The controller grants a login: a session more that it accepts.
Grant == logins' = logins + 1 /\ live' = live \cup {logins + 1} /\ UNCHANGED expirations

\* It grants one, and the answer with the cookie never arrives.
GrantLost == lostLogins < MaxLostLogins /\ Grant /\ lostLogins' = lostLogins + 1

\* loginLocked, status 200: the answer puts its cookie in the jar.
LoginGranted(c) ==
    /\ pc[c] = "login"
    /\ Grant /\ UNCHANGED lostLogins
    /\ cookie' = logins + 1 /\ loggedIn' = TRUE /\ lock' = NoOne
    /\ Goto(c, "ready")
    /\ UNCHANGED <<apiKey, attempt, used, reply, since, rejections>>

\* loginLocked, any other status, or a transport error: then the controller may
\* have granted the login all the same.  (It is a POST, so net/http does not send
\* it again by itself; the reads it may repeat change nothing.)
LoginError(c) ==
    /\ pc[c] = "login"
    /\ UNCHANGED serverVars \/ GrantLost
    /\ Returns(c, "noSession")
    /\ UNCHANGED <<apiKey, loggedIn, cookie, rejections>>

LoginFailedKeepsLock(c) == LoginError(c) /\ UNCHANGED lock   \* broken: no deferred Unlock
LoginFailed(c) == LoginError(c) /\ lock' = NoOne

\* doRequest: the request takes the cookie that is in the jar now.
Send(c) ==
    /\ pc[c] = "ready"
    /\ Goto(c, "sent") /\ used' = [used EXCEPT ![c] = cookie]
    /\ UNCHANGED <<attempt, reply, since, clientVars, serverVars, rejections>>

\* The controller answers: 401 to a session it does not accept (to the key, if
\* it is not valid); any other failure is an error to the caller.
Answer(c) ==
    /\ pc[c] = "sent" /\ Goto(c, "answered")
    /\ \E r \in (IF apiKey THEN {"ok", "unauthorized", "error"}
                 ELSE {IF used[c] \in live THEN "ok" ELSE "unauthorized", "error"}) :
          reply' = [reply EXCEPT ![c] = r]
    /\ UNCHANGED <<attempt, used, since, clientVars, serverVars, rejections>>

RetryUnbounded(c) == reply[c] = "unauthorized" /\ ~apiKey        \* broken
RetryWithKey(c) == reply[c] = "unauthorized" /\ attempt[c] = 1   \* broken: no key check
Retryable(c) == reply[c] = "unauthorized" /\ attempt[c] = 1 /\ ~apiKey

NoInvalidate == UNCHANGED loggedIn        \* broken
\* invalidateSession: the flag is cleared whoever logged in since the 401.
ClearFlag == loggedIn' = FALSE

\* get, first 401 of a session: invalidate and go round ensureSession again.
Invalidate(c) ==
    /\ pc[c] = "answered" /\ Retryable(c) /\ lock = NoOne
    /\ ClearFlag
    /\ rejections' = rejections + 1
    /\ attempt' = [attempt EXCEPT ![c] = @ + 1]
    /\ used' = [used EXCEPT ![c] = 0]
    /\ reply' = [reply EXCEPT ![c] = "none"]
    /\ Goto(c, "check")
    /\ UNCHANGED <<since, apiKey, cookie, lock, serverVars>>

Return(c) ==
    /\ pc[c] = "answered" /\ ~Retryable(c)
    /\ Returns(c, reply[c])
    /\ UNCHANGED <<clientVars, serverVars, rejections>>

\* The controller ends a session: timeout, reboot, an administrator.
Expire(s) ==
    /\ expirations < MaxExpirations
    /\ live' = live \ {s} /\ expirations' = expirations + 1
    /\ UNCHANGED <<clientVars, callerVars, logins, lostLogins, rejections>>

LockStep(c) == CheckFlag(c) \/ LockFlag(c) \/ Invalidate(c)
IOStep(c) == LoginGranted(c) \/ LoginFailed(c) \/ Send(c) \/ Answer(c) \/ Return(c)

Next ==
    \/ \E c \in Callers : Begin(c) \/ LockStep(c) \/ IOStep(c)
    \/ \E s \in live : Expire(s)

Spec == Init /\ [][Next]_vars

\* Requests end within backendRequestTimeout; a sync.RWMutex starves nobody.
FairSpec == Spec /\ \A c \in Callers : WF_vars(IOStep(c)) /\ SF_vars(LockStep(c))

-----------------------------------------------------------------------------
(* Properties. *)

\* A login for the first call, and at most one more for each caller that was sent
\* away with a 401 and for each granted login whose answer was lost.  (Not one for
\* each session that ended: invalidateSession cannot tell which session the 401
\* was about and may discard a newer one.)
LoginsPaidFor == logins <= 1 + rejections + lostLogins

\* Whoever reaches the controller carries a cookie that a login put there, and
\* an unexpired session is never lost from the jar: a caller fails with
\* "unauthorized after re-auth" only if a session ended during its call.
StaleSessionHidden ==
    \A c \in Callers :
        pc[c] = "answered" /\ reply[c] = "unauthorized" /\ attempt[c] = 2 =>
            expirations > since[c]

\* With an API key the client keeps no session and repeats no request.
KeyNeedsNoSession ==
    apiKey => /\ logins = 0 /\ ~loggedIn
              /\ \A c \in Callers : attempt[c] = 1 /\ pc[c] # "lock"

\* Every get returns, in either mode, however many wait for the lock.
GetsReturn == \A c \in Callers : pc[c] # "idle" ~> pc[c] = "idle"

-----------------------------------------------------------------------------
(* The inductive invariant behind the safety properties above. *)

FreshFor(c, s) == s \in live \/ expirations > since[c]

LockInv ==
    /\ \A c \in Callers : lock = c <=> pc[c] = "login"
    /\ lock # NoOne => ~loggedIn

LoginCountInv ==
    /\ logins <= 1 + rejections + lostLogins
    /\ ~loggedIn => logins <= rejections + lostLogins

\* On the second try the flag vouches for a session granted during the call.
SecondTryInv(c) ==
    attempt[c] = 2 =>
        /\ pc[c] # "idle"
        /\ pc[c] \in {"check", "lock", "login"} /\ loggedIn => FreshFor(c, cookie)
        /\ pc[c] = "ready" => FreshFor(c, cookie)
        /\ pc[c] \in {"sent", "answered"} => FreshFor(c, used[c])

RejectedInv(c) ==
    /\ since[c] <= expirations
    /\ ~apiKey /\ pc[c] = "answered" /\ reply[c] = "unauthorized" => used[c] \notin live

KeyInv ==
    apiKey => /\ logins = 0 /\ ~loggedIn
              /\ \A c \in Callers : attempt[c] = 1 /\ pc[c] \notin {"check", "lock", "login"}

IInv ==
    /\ TypeOK
    /\ LockInv /\ LoginCountInv /\ KeyInv
    /\ \A c \in Callers : SecondTryInv(c) /\ RejectedInv(c)
=============================================================================
