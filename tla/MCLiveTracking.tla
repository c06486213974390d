--------------------------- MODULE MCLiveTracking ---------------------------
(* LiveTracking on small sets, for TLC. *)
EXTENDS LiveTracking

CONSTANTS r1
=============================================================================
