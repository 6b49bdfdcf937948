------------------------------ MODULE MCCompare ------------------------------
(* Model checking of Compare.                                              *)
EXTENDS Compare
=============================================================================
