--------------------------- MODULE MCPackageExchange ---------------------------
(***************************************************************************)
(* Small instances of PackageExchange for TLC.                             *)
(***************************************************************************)
EXTENDS PackageExchange, TLC

Interchangeable == Permutations(Run)
=============================================================================
