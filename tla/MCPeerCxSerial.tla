---------------------------- MODULE MCPeerCxSerial ----------------------------
(* A small instance of PeerCxRetry, and so of PeerCxSerial, for TLC.        *)
EXTENDS PeerCxRetry

CONSTANTS c1, v1, e1, o1

MCInvitedTerms ==
  [c \in Corr |-> [version |-> v1, expiresAt |-> e1, allowedOperations |-> o1]]
=============================================================================
