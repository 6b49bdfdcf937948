----------------------------- MODULE MCAnalyzer -----------------------------
(* Model checking of Analyzer.                                             *)
EXTENDS Analyzer

Oids == <<23>>
Symmetry == Permutations(Queries)
=============================================================================
