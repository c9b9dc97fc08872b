---------------------------- MODULE MCPairingSetup ----------------------------
(***************************************************************************)
(* Small instances of PairingSetup for TLC.                                *)
(***************************************************************************)
EXTENDS PairingSetup, TLC

CONSTANTS s1, s2, s3, p1, p2, p3

\* One site is the manufacturer of p3, another of the other Pairings; all can
\* be suppliers of the others'.
MCManufacturer == [p \in PairingId |-> IF p = p3 THEN s2 ELSE s1]

Interchangeable == Permutations(Epic)
=============================================================================
