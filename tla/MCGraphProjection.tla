-------------------------- MODULE MCGraphProjection --------------------------
(***************************************************************************)
(* Small instances of GraphProjection for TLC.                             *)
(***************************************************************************)
EXTENDS GraphProjection, TLC

Interchangeable == Permutations(GraphCx) \cup Permutations(Run)
=============================================================================
