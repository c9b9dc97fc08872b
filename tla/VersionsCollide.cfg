\* One publication after the other, of two Epics, on one connection.
SPECIFICATION Spec
CONSTANTS
  GraphCx = {x1}
  Epic = {e1, e2}
  Run = {r1}
  Change = {k1}
  NoCx = NoCx
  NoPackage = NoPackage
  MaxPublications = 3
INVARIANT VersionsGrow
\* Publications are bounded and connections can all be gone.
CHECK_DEADLOCK FALSE
