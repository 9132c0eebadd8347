----------------------------- MODULE RemoteCall -----------------------------
(***************************************************************************)
(* What SynologyClient.Call promises to the services that use it, with no  *)
(* mention of sessions, locks or retries: a call runs the operation on the *)
(* NAS at most once for each time its request leaves the program, and what *)
(* the caller is told agrees with whether it ran.  Start, stop and restart *)
(* of a container go through Call, so this is what makes its internal      *)
(* retry safe.  Every request is a GET, and net/http sends one again by    *)
(* itself when a kept-alive connection dies before the first byte of the   *)
(* answer: that is the one way an operation runs again, and the promise    *)
(* counts it.                                                              *)
(***************************************************************************)
EXTENDS Integers

CONSTANT Callers

VARIABLES
    active,     \* active[c]: caller c is inside Call
    runs,       \* runs[c]: how often the NAS ran the operation of c's latest call
    resent,     \* resent[c]: how often a connection died under c's latest call and
                \*   net/http sent its request again
    outcome     \* outcome[c]: what c's latest call returned, "none" while active

Done    == {"ok", "apiError"}        \* the NAS answered for the operation
Refused == {"noSession", "expired"}  \* the NAS did not run the last request sent
Unknown == {"lost"}                  \* transport error: it may have run
Outcome == {"none"} \cup Done \cup Refused \cup Unknown

vars == <<active, runs, resent, outcome>>

Init ==
    /\ active = [c \in Callers |-> FALSE]
    /\ runs = [c \in Callers |-> 0]
    /\ resent = [c \in Callers |-> 0]
    /\ outcome = [c \in Callers |-> "none"]

Begin(c) ==
    /\ ~active[c]
    /\ active' = [active EXCEPT ![c] = TRUE]
    /\ runs' = [runs EXCEPT ![c] = 0]
    /\ resent' = [resent EXCEPT ![c] = 0]
    /\ outcome' = [outcome EXCEPT ![c] = "none"]

\* A request that the program itself did not repeat may still be run.
MayRun(c) == runs[c] <= resent[c]

Run(c) ==
    /\ active[c] /\ MayRun(c)
    /\ runs' = [runs EXCEPT ![c] = @ + 1]
    /\ UNCHANGED <<active, resent, outcome>>

\* The connection dies, with the operation run or not, and the request goes out
\* again.
Resend(c) ==
    /\ active[c]
    /\ resent' = [resent EXCEPT ![c] = @ + 1]
    /\ \/ MayRun(c) /\ runs' = [runs EXCEPT ![c] = @ + 1]
       \/ UNCHANGED runs
    /\ UNCHANGED <<active, outcome>>

Return(c, r) ==
    /\ active[c]
    /\ r \in Done => runs[c] >= 1
    /\ r \in Refused => runs[c] <= resent[c]
    /\ active' = [active EXCEPT ![c] = FALSE]
    /\ outcome' = [outcome EXCEPT ![c] = r]
    /\ UNCHANGED <<runs, resent>>

Next ==
    \E c \in Callers :
        \/ Begin(c)
        \/ Run(c)
        \/ Resend(c)
        \/ \E r \in Outcome \ {"none"} : Return(c, r)

Spec == Init /\ [][Next]_vars

-----------------------------------------------------------------------------
\* What a caller may conclude: the operation has run if the NAS answered for it,
\* and beyond what died connections account for it has run at most once, and not
\* at all if the call was refused.
Truthful ==
    \A c \in Callers :
        /\ runs[c] <= 1 + resent[c]
        /\ outcome[c] \in Done => runs[c] >= 1
        /\ outcome[c] \in Refused => runs[c] <= resent[c]
=============================================================================
