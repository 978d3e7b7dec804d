--------------------------- MODULE MCEventChannels ---------------------------
(* Instances of EventChannels for TLC. *)
EXTENDS EventChannels

CONSTANTS p1, p2, r1, r2
=============================================================================
