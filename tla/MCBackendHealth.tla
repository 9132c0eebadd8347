-------------------------- MODULE MCBackendHealth --------------------------
(* One NAS and one controller for the properties of BackendHealth; one NAS *)
(* alone, which can only come back, for its late discovery.                *)
EXTENDS BackendHealth
=============================================================================
