--------------------------- MODULE MCReleaseCache ---------------------------
(* Instances of ReleaseCache for TLC. *)
EXTENDS ReleaseCache, TLC

CONSTANTS c1, c2, d1, d2, r1, k1, k2

\* Two devices: a container that has a source, and one that has none.
TwoHosts == k1 :> d1 @@ k2 :> d2
OneSource == k1 :> r1 @@ k2 :> NoRepo

\* Both on one device.
OneHost == k1 :> d1 @@ k2 :> d1
=============================================================================
