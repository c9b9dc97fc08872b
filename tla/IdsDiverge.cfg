\* Two nominations of one invitation overlap.
SPECIFICATION Spec
CONSTANTS
  c1 = c1
  v1 = v1
  e1 = e1
  o1 = o1
  Corr = {c1}
  PeerCxId = {i1, i2}
  Version = {v1}
  EndInstant = {e1}
  Operations = {o1}
  InvitedTerms <- MCInvitedTerms
  NoId = NoId
  NoTerms = NoTerms
  Call = {b1, b2}
  Admin = {a1}
  Expiring = {}
INVARIANT TenantsAgreeOnId
\* Administrators need not act again, and the finite supply of IDs can run out.
CHECK_DEADLOCK FALSE
