--------------------------- MODULE MCAggregation ---------------------------
(* Instances of Aggregation for TLC. *)
EXTENDS Aggregation

CONSTANTS n1, n2, u

TwoNas == {n1, n2}
OneUniFi == {u}
OneWithDocker == {n1}
=============================================================================
