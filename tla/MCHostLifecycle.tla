--------------------------- MODULE MCHostLifecycle ---------------------------
(* Small instances of HostLifecycle. *)
EXTENDS HostLifecycle, TLC

CONSTANTS a, b
=============================================================================
