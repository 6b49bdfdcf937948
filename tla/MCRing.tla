------------------------------ MODULE MCRing ------------------------------
(* Model checking of Ring on arrays small enough to wrap several times.    *)
EXTENDS Ring
===========================================================================
