----------------------------- MODULE MCChannel -----------------------------
(* Model checking of Channel.                                              *)
EXTENDS Channel, TLC

Symmetry == Permutations(Controllers) \cup Permutations(Producers)
============================================================================
