------------------------- MODULE MCSynologySession -------------------------
(* Instances of SynologySession for TLC. *)
EXTENDS SynologySession

CONSTANTS a, b

\* A request and a health probe at the same NAS.
TwoCallers == {a, b}

\* The connection of a dies under its request once per call.  Callers meet in the
\* session alone, so whether b's dies too makes no difference to either.
OneRepeat == [c \in TwoCallers |-> IF c = a THEN 1 ELSE 0]
=============================================================================
