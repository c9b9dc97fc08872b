---------------------------- MODULE MCPeerDelivery ----------------------------
(***************************************************************************)
(* Small instances of PeerDelivery for TLC.                                *)
(***************************************************************************)
EXTENDS PeerDelivery, TLC

CONSTANTS x1, e1, e2

\* The handshake left the delivery on record at both tenants, or at one only:
\* the nominator keeps the operations of its first consent.
MCOnRecord ==
  {[site \in Site |-> IF site = without THEN Operation \ {Delivery} ELSE Operation] :
     without \in Site \cup {"neither"}}

\* A binding to each Epic, and one that leaves the delivery out.
MCProposed ==
  [peerCxId : {x1}, sourceEpicKey : {e1, e2}, allowedOperations : {{Delivery}}]
    \cup [peerCxId : {x1}, sourceEpicKey : {e1},
          allowedOperations : {Operation \ {Delivery}}]

Interchangeable == Permutations(Key) \cup Permutations(Handler)
=============================================================================
