---------------------------- MODULE MCTenantRecords ----------------------------
(***************************************************************************)
(* Small instances of TenantRecords for TLC.                               *)
(***************************************************************************)
EXTENDS TenantRecords, TLC

Interchangeable ==
  Permutations(Slot) \cup Permutations(Account)
=============================================================================
