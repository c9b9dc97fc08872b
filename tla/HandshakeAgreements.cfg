\* One Blue invocation at a time over two invitations, consents on other terms
\* than the invitation's, and agreements that end.
SPECIFICATION Spec
CONSTANTS
  c1 = c1
  v1 = v1
  e1 = e1
  o1 = o1
  Corr = {c1, c2}
  PeerCxId = {i1, i2}
  Version = {v1, v2}
  EndInstant = {e1}
  Operations = {o1}
  InvitedTerms <- MCInvitedTerms
  NoId = NoId
  NoTerms = NoTerms
  Call = {b1}
  Admin = {a1}
  Expiring = {e1}
SYMMETRY Interchangeable
INVARIANTS
  TypeOK
  BilateralActivation
  RecordsConsistent
  ActivationTraced
  IdNamesOneAgreement
  ActiveOnInvitedTerms
\* Administrators need not act again, and the finite supply of IDs can run out.
CHECK_DEADLOCK FALSE
