---------------------------- MODULE ReleaseBoard ----------------------------
(***************************************************************************)
(* What the update endpoints promise of the releases they answer with, and *)
(* no word of TTLs, locks, scans or fetches: a board on which releases are *)
(* only ever replaced by newer ones that have been published, and which    *)
(* every request reads once, at one moment between its arrival and its     *)
(* answer, whatever other requests are writing.                            *)
(***************************************************************************)
EXTENDS Integers

CONSTANTS Callers, Repos

VARIABLES
    latest,     \* upstream: the latest release of each repository
    known,      \* the board: the latest release known of each, 0 is none
    stage,      \* where each caller's request is: idle, asked or told
    told        \* what it was told

vars == <<latest, known, stage, told>>

Nothing == [r \in Repos |-> 0]

Init ==
    /\ latest = [r \in Repos |-> 1]
    /\ known \in {Nothing, latest}
    /\ stage = [c \in Callers |-> "idle"]
    /\ told = [c \in Callers |-> Nothing]

Publish(r) ==
    /\ latest' = [latest EXCEPT ![r] = @ + 1]
    /\ UNCHANGED <<known, stage, told>>

Ask(c) ==
    /\ stage[c] = "idle" /\ stage' = [stage EXCEPT ![c] = "asked"]
    /\ UNCHANGED <<latest, known, told>>

\* Whatever is learnt for the answer goes up on the board with it.
Learn ==
    /\ known' \in [Repos -> Nat]
    /\ \A r \in Repos : known[r] <= known'[r] /\ known'[r] <= latest[r]

Tell(c) ==
    /\ stage[c] = "asked" /\ stage' = [stage EXCEPT ![c] = "told"]
    /\ Learn
    /\ told' = [told EXCEPT ![c] = known']
    /\ UNCHANGED latest

Return(c) ==
    /\ stage[c] = "told" /\ stage' = [stage EXCEPT ![c] = "idle"]
    /\ told' = [told EXCEPT ![c] = Nothing]
    /\ UNCHANGED <<latest, known>>

Next ==
    \/ \E r \in Repos : Publish(r)
    \/ \E c \in Callers : Ask(c) \/ Tell(c) \/ Return(c)

Spec == Init /\ [][Next]_vars
=============================================================================
