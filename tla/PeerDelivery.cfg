\* One publication of each key at the source, two invocations of the receiver
\* that may be handed the same envelope, one administrator at work at a time.
SPECIFICATION Spec
CONSTANTS
  x1 = x1
  e1 = e1
  e2 = e2
  PeerCxId = {x1}
  PairingId = {p1}
  Epic = {e1, e2}
  Operation = {deliver, other}
  Delivery = deliver
  OnRecord <- MCOnRecord
  Key = {k1}
  Proposed <- MCProposed
  Run = {r1}
  Handler = {h1, h2}
  Admin = {a1}
  Unread = Unread
  NoPairing = NoPairing
SYMMETRY Interchangeable
INVARIANTS
  TypeOK
  AtMostOnce
  BothAdministratorsBound
  RevocationStops
\* Keys run out and leases end.
CHECK_DEADLOCK FALSE
