-------------------------- MODULE MCPeerCxHandshake --------------------------
(***************************************************************************)
(* Small instances of PeerCxHandshake for TLC.                             *)
(***************************************************************************)
EXTENDS PeerCxHandshake, TLC

CONSTANTS c1, v1, e1, o1

\* Every invitation is on these terms; any other terms are a payload's.
MCInvitedTerms ==
  [c \in Corr |-> [version |-> v1, expiresAt |-> e1, allowedOperations |-> o1]]

Interchangeable ==
  Permutations(Call) \cup Permutations(Admin) \cup Permutations(PeerCxId)
=============================================================================
