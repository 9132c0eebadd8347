------------------------ MODULE UniFiSession_proofs ------------------------
(***************************************************************************)
(* Proofs about UniFiSession, for any number of callers.                   *)
(***************************************************************************)
EXTENDS UniFiSession, TLAPS

CallerInv(d) == SecondTryInv(d) /\ RejectedInv(d)
Preserved ==
    /\ TypeOK' /\ LockInv' /\ LoginCountInv' /\ KeyInv'
    /\ \A d \in Callers : CallerInv(d)'

LEMMA InitIInv == Init => IInv
<1> SUFFICES ASSUME Init PROVE IInv
  OBVIOUS
<1>1. TypeOK
  <2>1. 0 \in 0..logins /\ 0 \in Nat /\ 1 \in 1..2
    BY DEF Init
  <2>2. used \in [Callers -> 0..logins]
    BY <2>1 DEF Init
  <2>. QED
    BY <2>1, <2>2 DEF Init, TypeOK
<1>2. LockInv
  BY UniFiAssumption DEF Init, LockInv
<1>3. LoginCountInv /\ KeyInv
  BY DEF Init, LoginCountInv, KeyInv
<1>4. ASSUME NEW c \in Callers PROVE SecondTryInv(c) /\ RejectedInv(c)
  BY DEF Init, SecondTryInv, RejectedInv
<1>. QED
  BY <1>1, <1>2, <1>3, <1>4 DEF IInv

LEMMA BeginPreserves ==
  ASSUME IInv, NEW c \in Callers, Begin(c) PROVE Preserved
<1> USE UniFiAssumption DEF IInv, TypeOK, Begin, Goto, clientVars, callerVars, serverVars
<1>1. TypeOK'
  OBVIOUS
<1>2. LockInv'
  BY DEF LockInv
<1>3. LoginCountInv'
  BY DEF LoginCountInv, LockInv
<1>4. KeyInv'
  BY DEF KeyInv
<1>5. ASSUME NEW d \in Callers PROVE CallerInv(d)'
  <2>1. CASE d = c
    BY <2>1 DEF CallerInv, SecondTryInv, RejectedInv, FreshFor, KeyInv
  <2>2. CASE d # c
    BY <2>2 DEF CallerInv, SecondTryInv, RejectedInv, FreshFor, KeyInv
  <2>. QED
    BY <2>1, <2>2
<1>. QED
  BY <1>1, <1>2, <1>3, <1>4, <1>5 DEF Preserved

LEMMA CheckFlagPreserves ==
  ASSUME IInv, NEW c \in Callers, CheckFlag(c) PROVE Preserved
<1> USE UniFiAssumption DEF IInv, TypeOK, CheckFlag, Goto, clientVars, callerVars, serverVars
<1>1. TypeOK'
  OBVIOUS
<1>2. LockInv'
  BY DEF LockInv
<1>3. LoginCountInv'
  BY DEF LoginCountInv, LockInv
<1>4. KeyInv'
  BY DEF KeyInv
<1>5. ASSUME NEW d \in Callers PROVE CallerInv(d)'
  <2>1. CASE d = c
    BY <2>1 DEF CallerInv, SecondTryInv, RejectedInv, FreshFor, KeyInv
  <2>2. CASE d # c
    BY <2>2 DEF CallerInv, SecondTryInv, RejectedInv, FreshFor, KeyInv
  <2>. QED
    BY <2>1, <2>2
<1>. QED
  BY <1>1, <1>2, <1>3, <1>4, <1>5 DEF Preserved

LEMMA LockFlagPreserves ==
  ASSUME IInv, NEW c \in Callers, LockFlag(c) PROVE Preserved
<1> USE UniFiAssumption DEF IInv, TypeOK, LockFlag, Recheck, Goto, clientVars, callerVars, serverVars
<1>1. TypeOK'
  OBVIOUS
<1>2. LockInv'
  BY DEF LockInv
<1>3. LoginCountInv'
  BY DEF LoginCountInv, LockInv
<1>4. KeyInv'
  BY DEF KeyInv
<1>5. ASSUME NEW d \in Callers PROVE CallerInv(d)'
  <2>1. CASE d = c
    BY <2>1 DEF CallerInv, SecondTryInv, RejectedInv, FreshFor, KeyInv
  <2>2. CASE d # c
    BY <2>2 DEF CallerInv, SecondTryInv, RejectedInv, FreshFor, KeyInv
  <2>. QED
    BY <2>1, <2>2
<1>. QED
  BY <1>1, <1>2, <1>3, <1>4, <1>5 DEF Preserved

LEMMA InvalidatePreserves ==
  ASSUME IInv, NEW c \in Callers, Invalidate(c) PROVE Preserved
<1> USE UniFiAssumption DEF IInv, TypeOK, Invalidate, Retryable, ClearFlag, Goto, clientVars, callerVars, serverVars
<1>1. TypeOK'
  <2>1. attempt' \in [Callers -> 1..2]
    OBVIOUS
  <2>2. 0 \in 0..logins /\ used' \in [Callers -> 0..logins]
    OBVIOUS
  <2>3. rejections' \in Nat
    OBVIOUS
  <2>. QED
    BY <2>1, <2>2, <2>3
<1>2. LockInv'
  BY DEF LockInv
<1>3. LoginCountInv'
  BY DEF LoginCountInv, LockInv
<1>4. KeyInv'
  BY DEF KeyInv
<1>5. ASSUME NEW d \in Callers PROVE CallerInv(d)'
  <2>1. CASE d = c
    BY <2>1 DEF CallerInv, SecondTryInv, RejectedInv, FreshFor, KeyInv
  <2>2. CASE d # c
    BY <2>2 DEF CallerInv, SecondTryInv, RejectedInv, FreshFor, KeyInv
  <2>. QED
    BY <2>1, <2>2
<1>. QED
  BY <1>1, <1>2, <1>3, <1>4, <1>5 DEF Preserved

LEMMA LoginGrantedPreserves ==
  ASSUME IInv, NEW c \in Callers, LoginGranted(c) PROVE Preserved
<1> USE UniFiAssumption DEF IInv, TypeOK, LoginGranted, Grant, Goto, clientVars, callerVars, serverVars
<1>0. /\ logins' = logins + 1 /\ logins' \in Nat /\ 0..logins \subseteq 0..logins'
      /\ 1..logins \subseteq 1..logins' /\ logins' \in 1..logins'
  OBVIOUS
<1>1. TypeOK'
  <2>1. live' \in SUBSET (1..logins') /\ cookie' \in 0..logins'
    BY <1>0
  <2>2. used' \in [Callers -> 0..logins']
    BY <1>0
  <2>. QED
    BY <1>0, <2>1, <2>2
<1>2. LockInv'
  BY DEF LockInv
<1>3. LoginCountInv'
  BY DEF LoginCountInv, LockInv
<1>4. KeyInv'
  BY DEF KeyInv
<1>5. ASSUME NEW d \in Callers PROVE CallerInv(d)'
  <2>1. CASE d = c
    BY <2>1 DEF CallerInv, SecondTryInv, RejectedInv, FreshFor, KeyInv
  <2>2. CASE d # c
    BY <2>2 DEF CallerInv, SecondTryInv, RejectedInv, FreshFor, KeyInv
  <2>. QED
    BY <2>1, <2>2
<1>. QED
  BY <1>1, <1>2, <1>3, <1>4, <1>5 DEF Preserved

LEMMA LoginFailedPreserves ==
  ASSUME IInv, NEW c \in Callers, LoginFailed(c) PROVE Preserved
<1> USE UniFiAssumption DEF IInv, TypeOK, LoginFailed, LoginError, GrantLost, Grant, Returns, Goto,
                             clientVars, callerVars, serverVars
<1>0. /\ logins' \in Nat /\ lostLogins' \in Nat
      /\ 0..logins \subseteq 0..logins' /\ live \subseteq live'
      /\ \/ logins' = logins /\ lostLogins' = lostLogins
         \/ logins' = logins + 1 /\ lostLogins' = lostLogins + 1
      /\ logins' # logins => ~apiKey
      /\ live' \cap (0..logins) \subseteq live
  <2>1. pc[c] = "login" => ~apiKey
    BY DEF KeyInv
  <2>2. CASE UNCHANGED serverVars
    BY <2>1, <2>2
  <2>3. CASE GrantLost
    BY <2>1, <2>3
  <2>. QED
    BY <2>2, <2>3
<1>1. TypeOK'
  <2>1. live' \in SUBSET (1..logins') /\ cookie' \in 0..logins'
    <3>1. CASE UNCHANGED serverVars
      BY <1>0, <3>1
    <3>2. CASE GrantLost
      BY <1>0, <3>2
    <3>. QED
      BY <3>1, <3>2
  <2>2. used' \in [Callers -> 0..logins']
    BY <1>0
  <2>3. expirations' = expirations
    OBVIOUS
  <2>. QED
    BY <1>0, <2>1, <2>2, <2>3
<1>2. LockInv'
  BY DEF LockInv
<1>3. LoginCountInv'
  BY DEF LoginCountInv, LockInv
<1>4. KeyInv'
  BY DEF KeyInv
<1>5. ASSUME NEW d \in Callers PROVE CallerInv(d)'
  <2>1. CASE d = c
    BY <2>1 DEF CallerInv, SecondTryInv, RejectedInv, FreshFor, KeyInv
  <2>2. CASE d # c
    BY <2>2 DEF CallerInv, SecondTryInv, RejectedInv, FreshFor, KeyInv
  <2>. QED
    BY <2>1, <2>2
<1>. QED
  BY <1>1, <1>2, <1>3, <1>4, <1>5 DEF Preserved

LEMMA SendPreserves ==
  ASSUME IInv, NEW c \in Callers, Send(c) PROVE Preserved
<1> USE UniFiAssumption DEF IInv, TypeOK, Send, Goto, clientVars, callerVars, serverVars
<1>1. TypeOK'
  OBVIOUS
<1>2. LockInv'
  BY DEF LockInv
<1>3. LoginCountInv'
  BY DEF LoginCountInv, LockInv
<1>4. KeyInv'
  BY DEF KeyInv
<1>5. ASSUME NEW d \in Callers PROVE CallerInv(d)'
  <2>1. CASE d = c
    BY <2>1 DEF CallerInv, SecondTryInv, RejectedInv, FreshFor, KeyInv
  <2>2. CASE d # c
    BY <2>2 DEF CallerInv, SecondTryInv, RejectedInv, FreshFor, KeyInv
  <2>. QED
    BY <2>1, <2>2
<1>. QED
  BY <1>1, <1>2, <1>3, <1>4, <1>5 DEF Preserved

LEMMA AnswerPreserves ==
  ASSUME IInv, NEW c \in Callers, Answer(c) PROVE Preserved
<1> USE UniFiAssumption DEF IInv, TypeOK, Answer, Goto, clientVars, callerVars, serverVars
<1>1. TypeOK'
  OBVIOUS
<1>2. LockInv'
  BY DEF LockInv
<1>3. LoginCountInv'
  BY DEF LoginCountInv, LockInv
<1>4. KeyInv'
  BY DEF KeyInv
<1>5. ASSUME NEW d \in Callers PROVE CallerInv(d)'
  <2>1. CASE d = c
    BY <2>1 DEF CallerInv, SecondTryInv, RejectedInv, FreshFor, KeyInv
  <2>2. CASE d # c
    BY <2>2 DEF CallerInv, SecondTryInv, RejectedInv, FreshFor, KeyInv
  <2>. QED
    BY <2>1, <2>2
<1>. QED
  BY <1>1, <1>2, <1>3, <1>4, <1>5 DEF Preserved

LEMMA ReturnPreserves ==
  ASSUME IInv, NEW c \in Callers, Return(c) PROVE Preserved
<1> USE UniFiAssumption DEF IInv, TypeOK, Return, Returns, Retryable, Goto, clientVars, callerVars, serverVars
<1>1. TypeOK'
  OBVIOUS
<1>2. LockInv'
  BY DEF LockInv
<1>3. LoginCountInv'
  BY DEF LoginCountInv, LockInv
<1>4. KeyInv'
  BY DEF KeyInv
<1>5. ASSUME NEW d \in Callers PROVE CallerInv(d)'
  <2>1. CASE d = c
    BY <2>1 DEF CallerInv, SecondTryInv, RejectedInv, FreshFor, KeyInv
  <2>2. CASE d # c
    BY <2>2 DEF CallerInv, SecondTryInv, RejectedInv, FreshFor, KeyInv
  <2>. QED
    BY <2>1, <2>2
<1>. QED
  BY <1>1, <1>2, <1>3, <1>4, <1>5 DEF Preserved

LEMMA ExpirePreserves ==
  ASSUME IInv, NEW s \in live, Expire(s) PROVE Preserved
<1> USE DEF IInv, TypeOK, Expire, clientVars, callerVars
<1>1. TypeOK' /\ LockInv' /\ LoginCountInv' /\ KeyInv'
  BY DEF LockInv, LoginCountInv, KeyInv
<1>2. ASSUME NEW d \in Callers PROVE CallerInv(d)'
  BY DEF CallerInv, SecondTryInv, RejectedInv, FreshFor
<1>. QED
  BY <1>1, <1>2 DEF Preserved

LEMMA StepIInv == IInv /\ [Next]_vars => IInv'
<1> SUFFICES ASSUME IInv, [Next]_vars PROVE Preserved
  BY DEF Preserved, CallerInv, IInv
<1>1. CASE \E c \in Callers : Begin(c) \/ LockStep(c)
  BY <1>1, BeginPreserves, CheckFlagPreserves, LockFlagPreserves, InvalidatePreserves DEF LockStep
<1>2. CASE \E c \in Callers : IOStep(c)
  BY <1>2, LoginGrantedPreserves, LoginFailedPreserves, SendPreserves, AnswerPreserves,
     ReturnPreserves DEF IOStep
<1>3. CASE \E s \in live : Expire(s)
  BY <1>3, ExpirePreserves
<1>4. CASE UNCHANGED vars
  BY <1>4 DEF Preserved, CallerInv, IInv, TypeOK, LockInv, LoginCountInv, KeyInv, SecondTryInv,
     RejectedInv, FreshFor, vars, clientVars, callerVars, serverVars
<1>. QED
  BY <1>1, <1>2, <1>3, <1>4 DEF Next

\* The strengthening the theorems below rest on.
THEOREM Inductive == Spec => []IInv
  BY InitIInv, StepIInv, PTL DEF Spec

\* Every variable keeps its type, for any constants.
THEOREM TypeCorrect == Spec => []TypeOK
<1>1. IInv => TypeOK
  BY DEF IInv
<1>. QED
  BY <1>1, Inductive, PTL

\* unifi.go logs in once, and once more at most for each caller that got a 401 and
\* for each login whose answer was lost on the way: what is left of "single login per expiry" when the flag is cleared blindly.
THEOREM LoginsBounded == Spec => []LoginsPaidFor
<1>1. IInv => LoginsPaidFor
  BY DEF IInv, LoginCountInv, LoginsPaidFor
<1>. QED
  BY <1>1, Inductive, PTL

\* Even so a session that was stale when get began does not fail it.
THEOREM StaleHidden == Spec => []StaleSessionHidden
<1>1. IInv => StaleSessionHidden
  <2> SUFFICES ASSUME IInv, NEW c \in Callers,
                      pc[c] = "answered", reply[c] = "unauthorized", attempt[c] = 2
               PROVE  expirations > since[c]
    BY DEF StaleSessionHidden
  <2>1. ~apiKey
    BY DEF IInv, KeyInv
  <2>. QED
    BY <2>1 DEF IInv, SecondTryInv, RejectedInv, FreshFor
<1>. QED
  BY <1>1, Inductive, PTL

\* With an API key maybeLogin and the 401 branch never touch the session.
THEOREM KeyMode == Spec => []KeyNeedsNoSession
<1>1. IInv => KeyNeedsNoSession
  BY DEF IInv, KeyInv, KeyNeedsNoSession
<1>. QED
  BY <1>1, Inductive, PTL

-----------------------------------------------------------------------------
(* Calls of get end: the part of GetsReturn that needs no fairness. *)

\* How many steps of its own a get has left, at most.
StepsLeft(c) ==
    LET after == [idle |-> 0, check |-> 6, lock |-> 5, login |-> 4, ready |-> 3, sent |-> 2,
                  answered |-> 1]
    IN  after[pc[c]] + (IF pc[c] # "idle" /\ attempt[c] = 1 /\ ~apiKey THEN 6 ELSE 0)

Bounded(c) == StepsLeft(c) \in 0..12 /\ (apiKey => StepsLeft(c) \in 0..3)

\* Every step of a get leaves it fewer, and nobody else's step takes it back.
StepsRunOut ==
    [][\A c \in Callers :
          pc[c] # "idle" =>
              UNCHANGED <<pc[c], attempt[c]>> \/ StepsLeft(c)' < StepsLeft(c)]_vars

\* A caller that waits for nobody: it needs no lock, or the lock is free.
Moves(c) ==
    /\ pc[c] # "idle"
    /\ \/ lock = NoOne
       \/ pc[c] \in {"login", "ready", "sent"}
       \/ pc[c] = "answered" /\ ~Retryable(c)

\* As long as a get is under way, one of them is not waiting.
SomebodyMoves == (\E c \in Callers : pc[c] # "idle") => \E c \in Callers : Moves(c)

\* A get ends after twelve steps of its own at most, with an API key after three.
THEOREM GetsAreBounded == Spec => StepsRunOut /\ [](\A c \in Callers : Bounded(c))
<1>1. ASSUME IInv, [Next]_vars, NEW c \in Callers, pc[c] # "idle",
             ~UNCHANGED <<pc[c], attempt[c]>>
      PROVE  StepsLeft(c)' < StepsLeft(c)
  <2>0. TypeOK
    BY <1>1 DEF IInv
  <2>1. CASE \E d \in Callers : Begin(d)
    BY <1>1, <2>0, <2>1 DEF Begin, Goto, TypeOK
  <2>2. CASE \E d \in Callers : CheckFlag(d)
    BY <1>1, <2>0, <2>2 DEF CheckFlag, Goto, TypeOK, StepsLeft, clientVars
  <2>3. CASE \E d \in Callers : LockFlag(d)
    BY <1>1, <2>0, <2>3 DEF LockFlag, Goto, TypeOK, StepsLeft
  <2>4. CASE \E d \in Callers : Invalidate(d)
    BY <1>1, <2>0, <2>4 DEF Invalidate, Retryable, Goto, TypeOK, StepsLeft
  <2>5. CASE \E d \in Callers : LoginGranted(d)
    BY <1>1, <2>0, <2>5 DEF LoginGranted, Goto, TypeOK, StepsLeft
  <2>6. CASE \E d \in Callers : LoginFailed(d)
    BY <1>1, <2>0, <2>6 DEF LoginFailed, LoginError, Returns, Goto, TypeOK, StepsLeft
  <2>7. CASE \E d \in Callers : Send(d) \/ Answer(d)
    BY <1>1, <2>0, <2>7 DEF Send, Answer, Goto, TypeOK, StepsLeft, clientVars
  <2>8. CASE \E d \in Callers : Return(d)
    BY <1>1, <2>0, <2>8 DEF Return, Returns, Goto, TypeOK, StepsLeft
  <2>9. CASE \E s \in live : Expire(s)
    BY <1>1, <2>9 DEF Expire, callerVars
  <2>10. CASE UNCHANGED vars
    BY <1>1, <2>10 DEF vars, callerVars
  <2>. QED
    BY <1>1, <2>1, <2>2, <2>3, <2>4, <2>5, <2>6, <2>7, <2>8, <2>9, <2>10
       DEF Next, LockStep, IOStep
<1>2. IInv /\ [Next]_vars =>
        [\A c \in Callers : pc[c] # "idle" =>
            UNCHANGED <<pc[c], attempt[c]>> \/ StepsLeft(c)' < StepsLeft(c)]_vars
  BY <1>1
<1>3. IInv => \A c \in Callers : Bounded(c)
  <2> SUFFICES ASSUME IInv, NEW c \in Callers PROVE Bounded(c)
    OBVIOUS
  <2>1. StepsLeft(c) \in 0..12
    BY DEF IInv, TypeOK, StepsLeft
  <2>2. apiKey => StepsLeft(c) \in 0..3
    <3>1. /\ apiKey => pc[c] \notin {"check", "lock", "login"}
          /\ pc[c] \in {"idle", "check", "lock", "login", "ready", "sent", "answered"}
      BY DEF IInv, TypeOK, KeyInv
    <3>. QED
      BY <3>1 DEF StepsLeft
  <2>. QED
    BY <2>1, <2>2 DEF Bounded
<1>. QED
  BY <1>2, <1>3, Inductive, PTL DEF Spec, StepsRunOut

\* No deadlock: whoever holds the lock is logging in, and waits for nobody.
THEOREM NobodyBlocked == Spec => []SomebodyMoves
<1>1. IInv => SomebodyMoves
  <2> SUFFICES ASSUME IInv, NEW c \in Callers, pc[c] # "idle"
               PROVE  \E d \in Callers : Moves(d)
    BY DEF SomebodyMoves
  <2>1. CASE lock = NoOne
    BY <2>1 DEF Moves
  <2>2. CASE lock # NoOne
    <3>1. lock \in Callers
      BY <2>2 DEF IInv, TypeOK
    <3>2. pc[lock] = "login"
      BY <3>1 DEF IInv, LockInv
    <3>. QED
      BY <3>1, <3>2 DEF Moves
  <2>. QED
    BY <2>1, <2>2
<1>. QED
  BY <1>1, Inductive, PTL
=============================================================================
