--------------------------- MODULE MCCaptureSync ---------------------------
(* Model checking of CaptureSync: the names of the processes are symmetric. *)
EXTENDS CaptureSync, TLC

Symmetry == Permutations(Backends)
============================================================================
