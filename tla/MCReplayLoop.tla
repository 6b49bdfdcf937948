--------------------------- MODULE MCReplayLoop ---------------------------
(* Model checking of ReplayLoop.                                           *)
EXTENDS ReplayLoop
===========================================================================
