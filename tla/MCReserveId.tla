---------------------------- MODULE MCReserveId ----------------------------
(* Model checking of ReserveId in a directory whose listing has a gap.     *)
EXTENDS ReserveId
============================================================================
