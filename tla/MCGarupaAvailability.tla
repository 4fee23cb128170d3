------------------------ MODULE MCGarupaAvailability ------------------------
(* Model-checking instance: one caller that waits for recovery, one that does not. *)
EXTENDS GarupaAvailability, TLC

CONSTANTS v1, v2
=============================================================================
