--------------------------- MODULE MCUniFiSession ---------------------------
(* Instances of UniFiSession for TLC. *)
EXTENDS UniFiSession

CONSTANTS a, b

\* Two requests at the same controller.
TwoCallers == {a, b}
=============================================================================
