---------------------- MODULE SynologySession_proofs ----------------------
(***************************************************************************)
(* Proofs about SynologySession, for any number of callers and any bounds. *)
(***************************************************************************)
EXTENDS SynologySession, TLAPS

LEMMA InitType == Init => TypeOK
<1> SUFFICES ASSUME Init PROVE TypeOK
  OBVIOUS
<1>1. 0 \in 0..issued /\ 0 \in 0..expirations /\ 0 \in Nat /\ 1 \in 1..2
  BY DEF Init
<1>2. live \in SUBSET (1..issued) /\ sid \in 0..issued
  BY <1>1 DEF Init
<1>3. /\ used \in [Callers -> 0..issued] /\ first \in [Callers -> 0..issued]
      /\ since \in [Callers -> 0..expirations]
  BY <1>1, Zenon DEF Init
<1>4. /\ pc \in [Callers -> PCs] /\ attempt \in [Callers -> 1..2]
      /\ reply \in [Callers -> Replies]
      /\ ran \in [Callers -> Nat] /\ resent \in [Callers -> Nat]
  BY <1>1 DEF Init, PCs, Replies
<1>. QED
  BY <1>2, <1>3, <1>4 DEF Init, TypeOK

LEMMA InitIInv == Init => IInv
<1> SUFFICES ASSUME Init PROVE IInv
  OBVIOUS
<1>1. TypeOK
  BY InitType
<1>2. LockInv
  BY ConstantsAssumption DEF Init, LockInv
<1>3. LoginCountInv
  BY DEF Init, LoginCountInv
<1>4. ASSUME NEW c \in Callers
      PROVE  UsedInv(c) /\ FirstTryInv(c) /\ SecondTryInv(c) /\ RanInv(c)
  BY DEF Init, UsedInv, FirstTryInv, SecondTryInv, RanInv, InCall, Trying
<1>. QED
  BY <1>1, <1>2, <1>3, <1>4 DEF IInv

-----------------------------------------------------------------------------
(* Type correctness of each step. *)

\* What a granted login does to DSM's side of the session.
LEMMA GrantFacts ==
  ASSUME TypeOK, Grant
  PROVE  /\ issued' = issued + 1 /\ issued' \in Nat /\ 0..issued \subseteq 0..issued'
         /\ issued' \in live' /\ live' \subseteq live \cup {issued'}
         /\ live' \in SUBSET (1..issued')
         /\ expirations' = expirations
         /\ issued' \notin 0..issued
<1>1. /\ issued' = issued + 1 /\ issued' \in Nat /\ 0..issued \subseteq 0..issued'
      /\ 1..issued \subseteq 1..issued' /\ issued' \in 1..issued'
      /\ issued' \notin 0..issued
  BY DEF TypeOK, Grant
<1>2. issued' \in live' /\ live' \subseteq live \cup {issued'}
  BY <1>1 DEF Grant
<1>3. live' \in SUBSET (1..issued')
  BY <1>1, <1>2 DEF TypeOK
<1>. QED
  BY <1>1, <1>2, <1>3 DEF Grant

LEMMA TypeStep == TypeOK /\ [Next]_vars => TypeOK'
<1> SUFFICES ASSUME TypeOK, [Next]_vars PROVE TypeOK'
  OBVIOUS
<1> USE ConstantsAssumption DEF TypeOK, PCs, Replies, callerVars, clientVars, serverVars
<1>1. ASSUME NEW c \in Callers, Begin(c) PROVE TypeOK'
  BY <1>1 DEF Begin, Goto
<1>2. ASSUME NEW c \in Callers, ReadSid(c) PROVE TypeOK'
  BY <1>2 DEF ReadSid, Goto, SendWith
<1>3. ASSUME NEW c \in Callers, LockSid(c) PROVE TypeOK'
  BY <1>3 DEF LockSid, Recheck, Goto, SendWith
<1>4. ASSUME NEW c \in Callers, Invalidate(c) PROVE TypeOK'
  BY <1>4 DEF Invalidate, Retryable, DropSid, Goto
<1>5. ASSUME NEW c \in Callers, DiscoverAuth(c) PROVE TypeOK'
<2>1. CASE Goto(c, "login")
  BY <1>5, <2>1 DEF DiscoverAuth, Returns, Goto
<2>2. CASE Returns(c, "noSession")
  BY <1>5, <2>2 DEF DiscoverAuth, Returns, Goto
<2>. QED
  BY <1>5, <2>1, <2>2 DEF DiscoverAuth
<1>6. ASSUME NEW c \in Callers, LoginGranted(c) PROVE TypeOK'
<2>1. issued' = issued + 1 /\ issued' \in Nat /\ 0..issued \subseteq 0..issued'
  BY <1>6 DEF LoginGranted, Grant
<2>2. live' \in SUBSET (1..issued') /\ sid' \in 0..issued'
  BY <1>6, <2>1, GrantFacts DEF LoginGranted
<2>3. used' \in [Callers -> 0..issued'] /\ first' \in [Callers -> 0..issued']
  BY <1>6, <2>1 DEF LoginGranted, SendWith
<2>. QED
  BY <1>6, <2>1, <2>2, <2>3 DEF LoginGranted, Grant, SendWith, Goto
<1>7. ASSUME NEW c \in Callers, LoginEmpty(c) PROVE TypeOK'
  BY <1>7 DEF LoginEmpty, SendWith, Goto
<1>8. ASSUME NEW c \in Callers, LoginFailed(c) PROVE TypeOK'
<2>1. issued' \in {issued, issued + 1} /\ issued' \in Nat /\ 0..issued \subseteq 0..issued'
  BY <1>8 DEF LoginFailed, LoginError, GrantLost, Grant
<2>2. live' \in SUBSET (1..issued') /\ sid' \in 0..issued'
<3>1. CASE Grant
  BY <1>8, <3>1, <2>1, GrantFacts DEF LoginFailed, LoginError
<3>2. CASE UNCHANGED serverVars
  BY <1>8, <3>2, <2>1 DEF LoginFailed, LoginError
<3>. QED
  BY <1>8, <3>1, <3>2 DEF LoginFailed, LoginError, GrantLost
<2>3. used' \in [Callers -> 0..issued'] /\ first' \in [Callers -> 0..issued']
  BY <1>8, <2>1 DEF LoginFailed, LoginError, Returns
<2>4. /\ expirations' = expirations /\ lostLogins' \in Nat
      /\ pc' \in [Callers -> PCs] /\ reply' \in [Callers -> Replies]
  BY <1>8 DEF LoginFailed, LoginError, GrantLost, Grant, Returns, Goto
<2>5. since' \in [Callers -> 0..expirations'] /\ attempt' \in [Callers -> 1..2]
  BY <1>8, <2>4 DEF LoginFailed, LoginError, Returns
<2>. QED
  BY <1>8, <2>1, <2>2, <2>3, <2>4, <2>5 DEF LoginFailed, LoginError
<1>9. ASSUME NEW c \in Callers, Answer(c) PROVE TypeOK'
  BY <1>9 DEF Answer, Goto
<1>10. ASSUME NEW c \in Callers, Return(c) PROVE TypeOK'
  BY <1>10 DEF Return, Returns, Goto
<1>11. ASSUME NEW s \in live, Expire(s) PROVE TypeOK'
  BY <1>11 DEF Expire
<1>12. ASSUME NEW c \in Callers, Resend(c) PROVE TypeOK'
  BY <1>12 DEF Resend
<1>13. ASSUME NEW c \in Callers, ResendLogin(c) PROVE TypeOK'
<2>1. /\ issued' \in Nat /\ 0..issued \subseteq 0..issued'
      /\ live' \in SUBSET (1..issued') /\ expirations' = expirations
  BY <1>13, GrantFacts DEF ResendLogin, GrantLost
<2>2. used' \in [Callers -> 0..issued'] /\ first' \in [Callers -> 0..issued']
  BY <1>13, <2>1 DEF ResendLogin
<2>. QED
  BY <1>13, <2>1, <2>2 DEF ResendLogin, GrantLost
<1>14. ASSUME UNCHANGED vars PROVE TypeOK'
  BY <1>14 DEF vars
<1>. QED
  BY <1>1, <1>2, <1>3, <1>4, <1>5, <1>6, <1>7, <1>8, <1>9, <1>10, <1>11, <1>12, <1>13, <1>14
     DEF Next, LockStep, IOStep, Login

\* Type correctness of the session state: the SIDs cached, presented and
\* rejected by the callers of synology.go are ones DSM has issued.
THEOREM TypeCorrect == Spec => []TypeOK
<1>1. Init => TypeOK
  BY InitType
<1>. QED
  BY <1>1, TypeStep, PTL DEF Spec

-----------------------------------------------------------------------------
(* The inductive invariant. *)

CallerInv(d) == UsedInv(d) /\ FirstTryInv(d) /\ SecondTryInv(d) /\ RanInv(d)
Preserved == LockInv' /\ LoginCountInv' /\ \A d \in Callers : CallerInv(d)'

LEMMA BeginPreserves ==
  ASSUME IInv, NEW c \in Callers, Begin(c) PROVE Preserved
<1> USE ConstantsAssumption DEF IInv, TypeOK, Begin, Goto, callerVars, clientVars, serverVars
<1>1. LockInv'
  BY DEF LockInv
<1>2. LoginCountInv'
  BY DEF LoginCountInv, LockInv
<1>3. ASSUME NEW d \in Callers PROVE CallerInv(d)'
  <2>1. CASE d = c
    BY <2>1 DEF CallerInv, UsedInv, FirstTryInv, SecondTryInv, RanInv, FreshFor, LockInv, InCall, Trying
  <2>2. CASE d # c
    BY <2>2 DEF CallerInv, UsedInv, FirstTryInv, SecondTryInv, RanInv, FreshFor, LockInv, InCall, Trying
  <2>. QED
    BY <2>1, <2>2
<1>. QED
  BY <1>1, <1>2, <1>3 DEF Preserved

LEMMA ReadSidPreserves ==
  ASSUME IInv, NEW c \in Callers, ReadSid(c) PROVE Preserved
<1> USE ConstantsAssumption DEF IInv, TypeOK, ReadSid, Goto, SendWith, callerVars, clientVars, serverVars
<1>1. LockInv'
  BY DEF LockInv
<1>2. LoginCountInv'
  BY DEF LoginCountInv, LockInv
<1>3. ASSUME NEW d \in Callers PROVE CallerInv(d)'
  <2>1. CASE d = c
    BY <2>1 DEF CallerInv, UsedInv, FirstTryInv, SecondTryInv, RanInv, FreshFor, LockInv, InCall, Trying
  <2>2. CASE d # c
    BY <2>2 DEF CallerInv, UsedInv, FirstTryInv, SecondTryInv, RanInv, FreshFor, LockInv, InCall, Trying
  <2>. QED
    BY <2>1, <2>2
<1>. QED
  BY <1>1, <1>2, <1>3 DEF Preserved

LEMMA LockSidPreserves ==
  ASSUME IInv, NEW c \in Callers, LockSid(c) PROVE Preserved
<1> USE ConstantsAssumption DEF IInv, TypeOK, LockSid, Recheck, Goto, SendWith, callerVars, clientVars, serverVars
<1>1. LockInv'
  BY DEF LockInv
<1>2. LoginCountInv'
  BY DEF LoginCountInv, LockInv
<1>3. ASSUME NEW d \in Callers PROVE CallerInv(d)'
  <2>1. CASE d = c
    BY <2>1 DEF CallerInv, UsedInv, FirstTryInv, SecondTryInv, RanInv, FreshFor, LockInv, InCall, Trying
  <2>2. CASE d # c
    BY <2>2 DEF CallerInv, UsedInv, FirstTryInv, SecondTryInv, RanInv, FreshFor, LockInv, InCall, Trying
  <2>. QED
    BY <2>1, <2>2
<1>. QED
  BY <1>1, <1>2, <1>3 DEF Preserved

LEMMA InvalidatePreserves ==
  ASSUME IInv, NEW c \in Callers, Invalidate(c) PROVE Preserved
<1> USE ConstantsAssumption DEF IInv, TypeOK, Invalidate, Retryable, DropSid, Goto, callerVars, clientVars, serverVars
<1>1. LockInv'
  BY DEF LockInv
<1>2. LoginCountInv'
  BY DEF LoginCountInv, UsedInv, Trying
<1>3. ASSUME NEW d \in Callers PROVE CallerInv(d)'
  <2>1. CASE d = c
    BY <2>1 DEF CallerInv, UsedInv, FirstTryInv, SecondTryInv, RanInv, FreshFor, LockInv, InCall, Trying
  <2>2. CASE d # c
    BY <2>2 DEF CallerInv, UsedInv, FirstTryInv, SecondTryInv, RanInv, FreshFor, LockInv, InCall, Trying
  <2>. QED
    BY <2>1, <2>2
<1>. QED
  BY <1>1, <1>2, <1>3 DEF Preserved

LEMMA DiscoverAuthPreserves ==
  ASSUME IInv, NEW c \in Callers, DiscoverAuth(c) PROVE Preserved
<1> USE ConstantsAssumption DEF IInv, TypeOK, DiscoverAuth, Returns, Goto, callerVars, clientVars, serverVars
<1>1. LockInv'
  BY DEF LockInv
<1>2. LoginCountInv'
  BY DEF LoginCountInv, LockInv
<1>3. ASSUME NEW d \in Callers PROVE CallerInv(d)'
  <2>1. CASE d = c
    BY <2>1 DEF CallerInv, UsedInv, FirstTryInv, SecondTryInv, RanInv, FreshFor, LockInv, InCall, Trying
  <2>2. CASE d # c
    BY <2>2 DEF CallerInv, UsedInv, FirstTryInv, SecondTryInv, RanInv, FreshFor, LockInv, InCall, Trying
  <2>. QED
    BY <2>1, <2>2
<1>. QED
  BY <1>1, <1>2, <1>3 DEF Preserved

LEMMA LoginGrantedPreserves ==
  ASSUME IInv, NEW c \in Callers, LoginGranted(c) PROVE Preserved
<1> USE ConstantsAssumption DEF IInv, TypeOK, LoginGranted, SendWith, Goto, callerVars, clientVars, serverVars
<1>1. LockInv'
  BY GrantFacts DEF LockInv
<1>2. LoginCountInv'
  BY GrantFacts DEF LoginCountInv, LockInv
<1>3. ASSUME NEW d \in Callers PROVE CallerInv(d)'
  <2>1. CASE d = c
    BY <2>1, GrantFacts DEF CallerInv, UsedInv, FirstTryInv, SecondTryInv, RanInv, FreshFor, LockInv, InCall, Trying
  <2>2. CASE d # c
    BY <2>2, GrantFacts DEF CallerInv, UsedInv, FirstTryInv, SecondTryInv, RanInv, FreshFor, LockInv, InCall, Trying
  <2>. QED
    BY <2>1, <2>2
<1>. QED
  BY <1>1, <1>2, <1>3 DEF Preserved

LEMMA LoginEmptyPreserves ==
  ASSUME IInv, NEW c \in Callers, LoginEmpty(c) PROVE Preserved
<1> USE ConstantsAssumption DEF IInv, TypeOK, LoginEmpty, SendWith, Goto, callerVars, clientVars, serverVars
<1>1. LockInv'
  BY DEF LockInv
<1>2. LoginCountInv'
  BY DEF LoginCountInv, LockInv
<1>3. ASSUME NEW d \in Callers PROVE CallerInv(d)'
  <2>1. CASE d = c
    BY <2>1 DEF CallerInv, UsedInv, FirstTryInv, SecondTryInv, RanInv, FreshFor, LockInv, InCall, Trying
  <2>2. CASE d # c
    BY <2>2 DEF CallerInv, UsedInv, FirstTryInv, SecondTryInv, RanInv, FreshFor, LockInv, InCall, Trying
  <2>. QED
    BY <2>1, <2>2
<1>. QED
  BY <1>1, <1>2, <1>3 DEF Preserved

LEMMA LoginFailedPreserves ==
  ASSUME IInv, NEW c \in Callers, LoginFailed(c) PROVE Preserved
<1> USE ConstantsAssumption DEF IInv, TypeOK, LoginFailed, LoginError, GrantLost, Returns, Goto, callerVars, clientVars, serverVars
<1>1. LockInv'
  BY DEF LockInv
<1>2. sid = 0 /\ sid' = 0 /\ 0 \notin live
  BY DEF LockInv
<1>3. /\ \/ issued' = issued /\ lostLogins' = lostLogins
         \/ issued' = issued + 1 /\ lostLogins' = lostLogins + 1
      /\ 0 \notin live' /\ expirations' = expirations
      /\ live' \cap (0..issued) \subseteq live
  <2>1. CASE Grant
    BY <2>1, GrantFacts
  <2>2. CASE UNCHANGED serverVars
    BY <1>2, <2>2
  <2>. QED
    BY <2>1, <2>2
<1>4. issued' \in Nat /\ lostLogins' \in Nat
  BY DEF Grant
<1>5. LoginCountInv'
  <2>1. issued <= expirations + lostLogins
    BY <1>2 DEF LoginCountInv
  <2>2. issued \in Nat /\ expirations \in Nat /\ lostLogins \in Nat
    OBVIOUS
  <2> HIDE DEF IInv, TypeOK, LoginFailed, LoginError, Returns, Goto, serverVars
  <2>3. CASE issued' = issued /\ lostLogins' = lostLogins
    BY <2>1, <2>2, <2>3, <1>3 DEF LoginCountInv
  <2>4. CASE issued' = issued + 1 /\ lostLogins' = lostLogins + 1
    BY <2>1, <2>2, <2>4, <1>3 DEF LoginCountInv
  <2>. QED
    BY <1>3, <2>3, <2>4
<1>6. ASSUME NEW d \in Callers PROVE CallerInv(d)'
  <2>1. CASE d = c
    BY <1>2, <1>3, <2>1 DEF CallerInv, UsedInv, FirstTryInv, SecondTryInv, RanInv, FreshFor, LockInv, InCall, Trying
  <2>2. CASE d # c
    <3>1. /\ pc'[d] = pc[d] /\ used'[d] = used[d] /\ first'[d] = first[d]
          /\ attempt'[d] = attempt[d] /\ reply'[d] = reply[d]
          /\ ran'[d] = ran[d] /\ since'[d] = since[d]
      BY <2>2
    <3>2. used[d] \in live' => used[d] \in live
      BY <1>3
    <3>3. first[d] \in live' => first[d] \in live
      BY <1>3
    <3>4. used[d] \in live /\ pc[d] \in Trying => used[d] = 0
      BY <1>2 DEF UsedInv
    <3>5. UsedInv(d)' /\ FirstTryInv(d)' /\ RanInv(d)'
      BY <1>2, <3>1, <3>2 DEF UsedInv, FirstTryInv, RanInv, FreshFor
    <3>6. SecondTryInv(d)'
      BY <1>2, <1>3, <3>1, <3>3, <3>4 DEF SecondTryInv, FreshFor
    <3>. QED
      BY <3>5, <3>6 DEF CallerInv
  <2>. QED
    BY <2>1, <2>2
<1>. QED
  BY <1>1, <1>5, <1>6 DEF Preserved

LEMMA AnswerPreserves ==
  ASSUME IInv, NEW c \in Callers, Answer(c) PROVE Preserved
<1> USE ConstantsAssumption DEF IInv, TypeOK, Answer, Goto, callerVars, clientVars, serverVars
<1>1. LockInv'
  BY DEF LockInv
<1>2. LoginCountInv'
  BY DEF LoginCountInv, LockInv
<1>3. ASSUME NEW d \in Callers PROVE CallerInv(d)'
  <2>1. CASE d = c
    BY <2>1 DEF CallerInv, UsedInv, FirstTryInv, SecondTryInv, RanInv, FreshFor, LockInv, InCall, Trying
  <2>2. CASE d # c
    BY <2>2 DEF CallerInv, UsedInv, FirstTryInv, SecondTryInv, RanInv, FreshFor, LockInv, InCall, Trying
  <2>. QED
    BY <2>1, <2>2
<1>. QED
  BY <1>1, <1>2, <1>3 DEF Preserved

LEMMA ReturnPreserves ==
  ASSUME IInv, NEW c \in Callers, Return(c) PROVE Preserved
<1> USE ConstantsAssumption DEF IInv, TypeOK, Return, Returns, Retryable, Goto, callerVars, clientVars, serverVars
<1>1. LockInv'
  BY DEF LockInv
<1>2. LoginCountInv'
  BY DEF LoginCountInv, LockInv
<1>3. ASSUME NEW d \in Callers PROVE CallerInv(d)'
  <2>1. CASE d = c
    BY <2>1 DEF CallerInv, UsedInv, FirstTryInv, SecondTryInv, RanInv, FreshFor, LockInv, InCall, Trying
  <2>2. CASE d # c
    BY <2>2 DEF CallerInv, UsedInv, FirstTryInv, SecondTryInv, RanInv, FreshFor, LockInv, InCall, Trying
  <2>. QED
    BY <2>1, <2>2
<1>. QED
  BY <1>1, <1>2, <1>3 DEF Preserved

LEMMA ResendPreserves ==
  ASSUME IInv, NEW c \in Callers, Resend(c) PROVE Preserved
<1> USE ConstantsAssumption DEF IInv, TypeOK, Resend, clientVars, serverVars
<1>1. LockInv'
  BY DEF LockInv
<1>2. LoginCountInv'
  BY DEF LoginCountInv
<1>3. ASSUME NEW d \in Callers PROVE CallerInv(d)'
  <2>1. UsedInv(d)' /\ FirstTryInv(d)' /\ SecondTryInv(d)'
    BY DEF UsedInv, FirstTryInv, SecondTryInv, FreshFor
  <2>2. RanInv(d)'
    <3>1. CASE d = c
      BY <3>1 DEF RanInv
    <3>2. CASE d # c
      BY <3>2 DEF RanInv
    <3>. QED
      BY <3>1, <3>2
  <2>. QED
    BY <2>1, <2>2 DEF CallerInv
<1>. QED
  BY <1>1, <1>2, <1>3 DEF Preserved

\* Whoever logs in holds the lock and nothing is cached, so a second grant that
\* nobody hears of disturbs no SID in use but by ending it.
LEMMA ResendLoginPreserves ==
  ASSUME IInv, NEW c \in Callers, ResendLogin(c) PROVE Preserved
<1> USE ConstantsAssumption DEF IInv, TypeOK, ResendLogin, GrantLost, callerVars, clientVars
<1>1. LockInv'
  BY DEF LockInv
<1>2. sid = 0 /\ sid' = 0 /\ 0 \notin live
  BY DEF LockInv
<1>3. /\ issued' = issued + 1 /\ lostLogins' = lostLogins + 1
      /\ 0 \notin live' /\ expirations' = expirations
      /\ live' \cap (0..issued) \subseteq live
  BY GrantFacts
<1>4. LoginCountInv'
  <2>1. issued <= expirations + lostLogins
    BY <1>2 DEF LoginCountInv
  <2>2. issued \in Nat /\ expirations \in Nat /\ lostLogins \in Nat
    OBVIOUS
  <2> HIDE DEF IInv, TypeOK, ResendLogin, GrantLost
  <2>. QED
    BY <2>1, <2>2, <1>3 DEF LoginCountInv
<1>5. ASSUME NEW d \in Callers PROVE CallerInv(d)'
  <2>1. /\ used[d] \in live' => used[d] \in live
        /\ first[d] \in live' => first[d] \in live
    BY <1>3
  <2>2. used[d] \in live /\ pc[d] \in Trying => used[d] = 0
    BY <1>2 DEF UsedInv
  <2>3. UsedInv(d)' /\ FirstTryInv(d)' /\ RanInv(d)'
    BY <1>2, <2>1 DEF UsedInv, FirstTryInv, RanInv, FreshFor
  <2>4. SecondTryInv(d)'
    BY <1>2, <1>3, <2>1, <2>2 DEF SecondTryInv, FreshFor
  <2>. QED
    BY <2>3, <2>4 DEF CallerInv
<1>. QED
  BY <1>1, <1>4, <1>5 DEF Preserved

LEMMA ExpirePreserves ==
  ASSUME IInv, NEW s \in live, Expire(s) PROVE Preserved
<1> USE ConstantsAssumption DEF IInv, TypeOK, Expire, callerVars, clientVars
<1>1. LockInv'
  BY DEF LockInv
<1>2. LoginCountInv'
  BY DEF LoginCountInv
<1>3. ASSUME NEW d \in Callers PROVE CallerInv(d)'
  BY DEF CallerInv, UsedInv, FirstTryInv, SecondTryInv, RanInv, FreshFor
<1>. QED
  BY <1>1, <1>2, <1>3 DEF Preserved

LEMMA StepIInv == IInv /\ [Next]_vars => IInv'
<1> SUFFICES ASSUME IInv, [Next]_vars PROVE IInv'
  OBVIOUS
<1>1. TypeOK'
  BY TypeStep DEF IInv
<1>2. ASSUME Next PROVE Preserved
  <2>1. CASE \E c \in Callers : Begin(c) \/ LockStep(c)
    BY <2>1, BeginPreserves, ReadSidPreserves, LockSidPreserves, InvalidatePreserves
       DEF LockStep
  <2>2. CASE \E c \in Callers : IOStep(c)
    BY <2>2, DiscoverAuthPreserves, LoginGrantedPreserves, LoginEmptyPreserves,
       LoginFailedPreserves, AnswerPreserves, ReturnPreserves DEF IOStep, Login
  <2>3. CASE \E c \in Callers : Resend(c) \/ ResendLogin(c)
    BY <2>3, ResendPreserves, ResendLoginPreserves
  <2>4. CASE \E s \in live : Expire(s)
    BY <2>4, ExpirePreserves
  <2>. QED
    BY <1>2, <2>1, <2>2, <2>3, <2>4 DEF Next
<1>3. ASSUME UNCHANGED vars PROVE Preserved
  BY <1>3 DEF Preserved, CallerInv, IInv, LockInv, LoginCountInv, UsedInv, FirstTryInv,
     SecondTryInv, RanInv, FreshFor, vars, callerVars, clientVars, serverVars
<1>. QED
  BY <1>1, <1>2, <1>3 DEF Preserved, CallerInv, IInv

\* The strengthening the safety theorems below rest on.
THEOREM Inductive == Spec => []IInv
  BY InitIInv, StepIInv, PTL DEF Spec

-----------------------------------------------------------------------------
(* What follows from it. *)

\* However many goroutines find the session expired at once, synology.go logs
\* in once for it: the double check in ensureSession and the comparison in
\* invalidateSession make the logins no more than the sessions that were lost.
THEOREM LoginsBounded == Spec => []OneLoginPerExpiration
<1>1. IInv => OneLoginPerExpiration
  BY DEF IInv, TypeOK, LoginCountInv, OneLoginPerExpiration
<1>. QED
  BY <1>1, Inductive, PTL

\* A call whose session was stale when it began does not fail for it.
THEOREM StaleHidden == Spec => []StaleSessionHidden
<1>1. IInv => StaleSessionHidden
  BY DEF IInv, TypeOK, UsedInv, SecondTryInv, Trying, FreshFor, StaleSessionHidden
<1>. QED
  BY <1>1, Inductive, PTL

\* The retry in Call never presents the SID that was just rejected.
THEOREM RetryFresh == Spec => []RetryUsesNewSid
<1>1. IInv => RetryUsesNewSid
  BY DEF IInv, SecondTryInv, Trying, RetryUsesNewSid
<1>. QED
  BY <1>1, Inductive, PTL

\* invalidateSession and loginLocked never replace a SID that DSM accepts.
THEOREM NoTrampling == Spec => LiveSessionKept
<1>1. IInv /\ [Next]_vars => [sid # 0 /\ sid' # sid => sid \notin live]_vars
  <2> SUFFICES ASSUME IInv, Next, sid # 0, sid' # sid PROVE sid \notin live
    OBVIOUS
  <2>1. ASSUME NEW c \in Callers, Invalidate(c) PROVE sid \notin live
    BY <2>1 DEF IInv, UsedInv, Trying, Invalidate, DropSid, Retryable
  <2>2. ASSUME NEW c \in Callers, Login(c) PROVE FALSE
    BY <2>2, ConstantsAssumption DEF IInv, TypeOK, LockInv, Login, LoginGranted, LoginEmpty,
       LoginFailed, LoginError
  <2>3. ASSUME NEW c \in Callers,
               Begin(c) \/ ReadSid(c) \/ LockSid(c) \/ DiscoverAuth(c) \/ Answer(c) \/ Return(c)
        PROVE  FALSE
    BY <2>3 DEF Begin, ReadSid, LockSid, DiscoverAuth, Answer, Return, clientVars
  <2>4. ASSUME NEW c \in Callers, Resend(c) \/ ResendLogin(c) PROVE FALSE
    BY <2>4 DEF Resend, ResendLogin, clientVars
  <2>5. ASSUME NEW s \in live, Expire(s) PROVE FALSE
    BY <2>5 DEF Expire, clientVars
  <2>. QED
    BY <2>1, <2>2, <2>3, <2>4, <2>5 DEF Next, LockStep, IOStep
<1>. QED
  BY <1>1, Inductive, PTL DEF Spec, LiveSessionKept

-----------------------------------------------------------------------------
(* Call implements RemoteCall. *)

\* A step that moves no caller in or out of Call and runs nothing is a stutter.
LEMMA Stutters ==
  ASSUME TypeOK,
         \A c \in Callers : /\ pc'[c] = "idle" <=> pc[c] = "idle"
                            /\ pc[c] = "idle" => reply'[c] = reply[c],
         ran' = ran, resent' = resent
  PROVE  UNCHANGED Promise!vars
  BY DEF Promise!vars

LEMMA BeginRefines ==
  ASSUME TypeOK, NEW c \in Callers, Begin(c) PROVE Promise!Begin(c)
<1>1. ~(pc[c] # "idle")
  BY DEF Begin
<1>2. [d \in Callers |-> pc'[d] # "idle"] = [[d \in Callers |-> pc[d] # "idle"] EXCEPT ![c] = TRUE]
  BY DEF TypeOK, Begin, Goto
<1>3. [d \in Callers |-> IF pc'[d] = "idle" THEN reply'[d] ELSE "none"] =
      [[d \in Callers |-> IF pc[d] = "idle" THEN reply[d] ELSE "none"] EXCEPT ![c] = "none"]
  BY DEF TypeOK, Begin, Goto
<1>. QED
  BY <1>1, <1>2, <1>3 DEF Begin, Promise!Begin

LEMMA ReturnRefines ==
  ASSUME IInv, NEW c \in Callers, pc[c] # "idle", NEW r \in Promise!Outcome \ {"none"},
         Returns(c, r), ran' = ran, resent' = resent,
         r \in {"ok", "apiError"} => ran[c] >= 1,
         r \in {"noSession", "expired"} => ran[c] <= resent[c]
  PROVE  Promise!Return(c, r)
<1> USE DEF IInv, TypeOK, Returns, Goto
<1>1. r \in Promise!Done => ran[c] >= 1
  BY DEF Promise!Done
<1>2. r \in Promise!Refused => ran[c] <= resent[c]
  BY DEF Promise!Refused
<1>. QED
  BY <1>1, <1>2 DEF Promise!Return

LEMMA StepRefines == IInv /\ [Next]_vars => [Promise!Next]_(Promise!vars)
<1> SUFFICES ASSUME IInv, [Next]_vars PROVE Promise!Next \/ UNCHANGED Promise!vars
  OBVIOUS
<1>0. TypeOK
  BY DEF IInv
<1>1. ASSUME NEW c \in Callers, Begin(c) PROVE Promise!Next
  BY <1>0, <1>1, BeginRefines DEF Promise!Next
<1>2. ASSUME NEW c \in Callers, LockStep(c) PROVE UNCHANGED Promise!vars
  BY <1>0, <1>2, Stutters
     DEF TypeOK, LockStep, ReadSid, LockSid, Recheck, Invalidate, Goto, SendWith
<1>3. ASSUME NEW c \in Callers, DiscoverAuth(c) PROVE Promise!Next \/ UNCHANGED Promise!vars
  <2>1. CASE Goto(c, "login") /\ UNCHANGED reply
    BY <1>0, <1>3, <2>1, Stutters DEF TypeOK, DiscoverAuth, Goto
  <2>2. CASE Returns(c, "noSession")
    <3>1. Promise!Return(c, "noSession")
      BY <1>3, <2>2, ReturnRefines
         DEF IInv, RanInv, InCall, DiscoverAuth, Promise!Outcome, Promise!Refused
    <3>. QED
      BY <3>1 DEF Promise!Next, Promise!Outcome, Promise!Refused
  <2>. QED
    BY <1>3, <2>1, <2>2 DEF DiscoverAuth
<1>4. ASSUME NEW c \in Callers, LoginGranted(c) \/ LoginEmpty(c) PROVE UNCHANGED Promise!vars
  BY <1>0, <1>4, Stutters DEF TypeOK, LoginGranted, LoginEmpty, SendWith, Goto
<1>5. ASSUME NEW c \in Callers, LoginFailed(c) PROVE Promise!Next
  <2>1. Promise!Return(c, "noSession")
    BY <1>5, ReturnRefines
       DEF IInv, RanInv, InCall, LoginFailed, LoginError, Promise!Outcome, Promise!Refused
  <2>. QED
    BY <2>1 DEF Promise!Next, Promise!Outcome, Promise!Refused
<1>6. ASSUME NEW c \in Callers, Answer(c) PROVE Promise!Next \/ UNCHANGED Promise!vars
  <2>1. /\ pc[c] = "send" /\ pc' = [pc EXCEPT ![c] = "answered"]
        /\ ran[c] <= resent[c] /\ resent' = resent
    BY <1>6 DEF Answer, Goto, IInv, RanInv
  <2>2. CASE UNCHANGED ran
    BY <1>0, <1>6, <2>1, <2>2, Stutters DEF TypeOK, Answer
  <2>3. CASE ran' = [ran EXCEPT ![c] = @ + 1]
    <3>1. Promise!Run(c)
      <4>1. pc[c] # "idle" /\ Promise!MayRun(c)
        BY <1>0, <2>1 DEF TypeOK, Promise!MayRun
      <4>2. [d \in Callers |-> pc'[d] # "idle"] = [d \in Callers |-> pc[d] # "idle"]
        BY <1>0, <2>1 DEF TypeOK
      <4>3. [d \in Callers |-> IF pc'[d] = "idle" THEN reply'[d] ELSE "none"] =
            [d \in Callers |-> IF pc[d] = "idle" THEN reply[d] ELSE "none"]
        BY <1>0, <1>6, <2>1 DEF TypeOK, Answer
      <4>. QED
        BY <2>1, <2>3, <4>1, <4>2, <4>3 DEF Promise!Run
    <3>. QED
      BY <3>1 DEF Promise!Next
  <2>. QED
    BY <1>6, <2>2, <2>3 DEF Answer
<1>7. ASSUME NEW c \in Callers, Return(c) PROVE Promise!Next
  <2>1. PICK r : r = reply[c]
    OBVIOUS
  <2>2. /\ r \in {"ok", "apiError", "lost", "expired"}
        /\ r \in {"ok", "apiError"} => ran[c] >= 1
        /\ r \in {"noSession", "expired"} => ran[c] <= resent[c]
    BY <1>7, <2>1 DEF Return, IInv, RanInv
  <2>3. r \in Promise!Outcome \ {"none"}
    BY <2>2 DEF Promise!Outcome, Promise!Done, Promise!Refused, Promise!Unknown
  <2>4. pc[c] # "idle" /\ Returns(c, r) /\ ran' = ran /\ resent' = resent
    BY <1>7, <2>1 DEF Return, Goto
  <2>5. Promise!Return(c, r)
    BY <2>2, <2>3, <2>4, ReturnRefines
  <2>. QED
    BY <2>3, <2>5 DEF Promise!Next
<1>8. ASSUME NEW s \in live, Expire(s) PROVE UNCHANGED Promise!vars
  BY <1>0, <1>8, Stutters DEF TypeOK, Expire, callerVars
<1>9. ASSUME NEW c \in Callers, Resend(c) PROVE Promise!Next
  <2>1. pc[c] # "idle" /\ Promise!MayRun(c)
    BY <1>9 DEF Resend, IInv, RanInv, Promise!MayRun
  <2>2. Promise!Resend(c)
    BY <1>9, <2>1 DEF Resend, Promise!Resend
  <2>. QED
    BY <2>2 DEF Promise!Next
<1>10. ASSUME NEW c \in Callers, ResendLogin(c) PROVE UNCHANGED Promise!vars
  BY <1>0, <1>10, Stutters DEF ResendLogin, callerVars
<1>11. CASE UNCHANGED vars
  BY <1>0, <1>11, Stutters DEF vars, callerVars
<1>. QED
  BY <1>1, <1>2, <1>3, <1>4, <1>5, <1>6, <1>7, <1>8, <1>9, <1>10, <1>11
     DEF Next, IOStep, Login

\* Call, with its login and its retry, adds no run of its own: an operation runs
\* at most once, and once more for each time net/http repeated its request on a
\* connection that died.  What Call returns agrees with whether the NAS ran it.
THEOREM ImplementsRemoteCall == Spec => KeepsPromise
<1>1. Init => Promise!Init
  <2> SUFFICES ASSUME Init PROVE Promise!Init
    OBVIOUS
  <2>1. [c \in Callers |-> pc[c] # "idle"] = [c \in Callers |-> FALSE]
    BY DEF Init
  <2>2. [c \in Callers |-> IF pc[c] = "idle" THEN reply[c] ELSE "none"] = [c \in Callers |-> "none"]
    BY DEF Init
  <2>. QED
    BY <2>1, <2>2 DEF Init, Promise!Init
<1>. QED
  BY <1>1, Inductive, StepRefines, PTL DEF Spec, KeepsPromise, Promise!Spec

\* Whoever calls knows from the result, and without knowing of sessions, what ran:
\* an answer means the operation ran, and if no connection died under the request
\* it ran exactly once then, and not at all if the call was refused.
THEOREM AtMostOnce == Spec => []Promise!Truthful
<1>1. IInv => Promise!Truthful
  <2> SUFFICES ASSUME IInv, NEW c \in Callers,
                      NEW r, r = IF pc[c] = "idle" THEN reply[c] ELSE "none"
               PROVE  /\ ran[c] <= 1 + resent[c]
                      /\ r \in Promise!Done => ran[c] >= 1
                      /\ r \in Promise!Refused => ran[c] <= resent[c]
    BY DEF Promise!Truthful
  <2>. QED
    BY DEF IInv, RanInv, Promise!Done, Promise!Refused
<1>. QED
  BY <1>1, Inductive, PTL

-----------------------------------------------------------------------------
(* Calls end: the part of CallsReturn that needs no fairness. *)

\* How many steps of its own a call has left, at most.
StepsLeft(c) ==
    LET after == [idle |-> 0, check |-> 6, lock |-> 5, discover |-> 4, login |-> 3,
                  send |-> 2, answered |-> 1]
    IN  after[pc[c]] + (IF pc[c] # "idle" /\ attempt[c] = 1 THEN 6 ELSE 0)

\* Every step of a call leaves it fewer, and nobody else's step takes it back.
StepsRunOut ==
    [][\A c \in Callers :
          pc[c] # "idle" =>
              UNCHANGED <<pc[c], attempt[c]>> \/ StepsLeft(c)' < StepsLeft(c)]_vars

\* A caller that waits for nobody: it needs no lock, or the lock is free.
Moves(c) ==
    /\ pc[c] # "idle"
    /\ \/ lock = NoOne
       \/ pc[c] \in {"discover", "login", "send"}
       \/ pc[c] = "answered" /\ ~Retryable(c)

\* As long as a call is under way, one of them is not waiting.
SomebodyMoves == (\E c \in Callers : pc[c] # "idle") => \E c \in Callers : Moves(c)

LEMMA StepsAre ==
  ASSUME TypeOK, NEW c \in Callers
  PROVE  /\ StepsLeft(c) \in 0..12
         /\ pc[c] # "idle" => StepsLeft(c) \in Nat \ {0}
  BY DEF TypeOK, PCs, StepsLeft

\* A call ends after twelve steps of its own at most, however often its session
\* is taken away: the retry is the only way back, and it is open once.
THEOREM CallsAreBounded == Spec => StepsRunOut /\ [](\A c \in Callers : StepsLeft(c) \in 0..12)
<1>1. ASSUME IInv, [Next]_vars, NEW c \in Callers, pc[c] # "idle",
             ~UNCHANGED <<pc[c], attempt[c]>>
      PROVE  StepsLeft(c)' < StepsLeft(c)
  <2>0. TypeOK
    BY <1>1 DEF IInv
  <2>1. CASE \E d \in Callers : Begin(d)
    BY <1>1, <2>0, <2>1 DEF Begin, Goto, TypeOK
  <2>2. CASE \E d \in Callers : ReadSid(d)
    BY <1>1, <2>0, <2>2 DEF ReadSid, SendWith, Goto, TypeOK, StepsLeft
  <2>3. CASE \E d \in Callers : LockSid(d)
    BY <1>1, <2>0, <2>3 DEF LockSid, SendWith, Goto, TypeOK, StepsLeft
  <2>4. CASE \E d \in Callers : Invalidate(d)
    BY <1>1, <2>0, <2>4 DEF Invalidate, Retryable, Goto, TypeOK, StepsLeft
  <2>5. CASE \E d \in Callers : DiscoverAuth(d)
    BY <1>1, <2>0, <2>5 DEF DiscoverAuth, Returns, Goto, TypeOK, StepsLeft
  <2>6. CASE \E d \in Callers : Login(d)
    BY <1>1, <2>0, <2>6 DEF Login, LoginGranted, LoginEmpty, LoginFailed, LoginError, SendWith,
                            Returns, Goto, TypeOK, StepsLeft
  <2>7. CASE \E d \in Callers : Answer(d)
    BY <1>1, <2>0, <2>7 DEF Answer, Goto, TypeOK, StepsLeft
  <2>8. CASE \E d \in Callers : Return(d)
    BY <1>1, <2>0, <2>8 DEF Return, Returns, Goto, TypeOK, StepsLeft
  <2>9. CASE \E s \in live : Expire(s)
    BY <1>1, <2>9 DEF Expire, callerVars
  <2>10. CASE \E d \in Callers : Resend(d) \/ ResendLogin(d)
    BY <1>1, <2>10 DEF Resend, ResendLogin, callerVars
  <2>11. CASE UNCHANGED vars
    BY <1>1, <2>11 DEF vars, callerVars
  <2>. QED
    BY <1>1, <2>1, <2>2, <2>3, <2>4, <2>5, <2>6, <2>7, <2>8, <2>9, <2>10, <2>11
       DEF Next, LockStep, IOStep
<1>2. IInv /\ [Next]_vars =>
        [\A c \in Callers : pc[c] # "idle" =>
            UNCHANGED <<pc[c], attempt[c]>> \/ StepsLeft(c)' < StepsLeft(c)]_vars
  BY <1>1
<1>3. IInv => \A c \in Callers : StepsLeft(c) \in 0..12
  BY StepsAre DEF IInv
<1>. QED
  BY <1>2, <1>3, Inductive, PTL DEF Spec, StepsRunOut

\* No deadlock: whoever holds the lock across the login never waits for it.
THEOREM NobodyBlocked == Spec => []SomebodyMoves
<1>1. IInv => SomebodyMoves
  <2> SUFFICES ASSUME IInv, NEW c \in Callers, pc[c] # "idle"
               PROVE  \E d \in Callers : Moves(d)
    BY DEF SomebodyMoves
  <2>1. CASE lock = NoOne
    BY <2>1 DEF Moves
  <2>2. CASE lock # NoOne
    <3>1. lock \in Callers
      BY <2>2 DEF IInv, TypeOK
    <3>2. pc[lock] \in {"discover", "login"}
      BY <3>1 DEF IInv, LockInv
    <3>. QED
      BY <3>1, <3>2 DEF Moves
  <2>. QED
    BY <2>1, <2>2
<1>. QED
  BY <1>1, Inductive, PTL
=============================================================================
