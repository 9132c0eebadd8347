------------------------- MODULE MCNetworkSnapshot -------------------------
(* Instances of NetworkSnapshot for TLC. *)
EXTENDS NetworkSnapshot, TLC

CONSTANTS u1, u2, d1, d2, d3, c1, c2

\* A site with a gateway, a device behind it and a client; another with a
\* gateway and a client.
TwoSites == d1 :> u1 @@ d2 :> u1 @@ c1 :> u1 @@ d3 :> u2 @@ c2 :> u2
Wiring == d1 :> NoDevice @@ d2 :> d1 @@ d3 :> NoDevice

\* A single site.
OneSite == d1 :> u1 @@ d2 :> u1 @@ c1 :> u1
OneWiring == d1 :> NoDevice @@ d2 :> d1
=============================================================================
