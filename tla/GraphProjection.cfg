\* Two publications, one connection callback, two connections, two Epics.
SPECIFICATION Spec
CONSTANTS
  GraphCx = {x1, x2}
  Epic = {e1, e2}
  Run = {r1, r2}
  Change = {k1}
  NoCx = NoCx
  NoPackage = NoPackage
  MaxPublications = 3
SYMMETRY Interchangeable
INVARIANTS
  TypeOK
  IndexedWasCurrent
  VersionsGrowInARow
  IndexCaughtUp
  RemovedStaysRemoved
  LatestStaysActive
  AloneInvariant
\* Publications are bounded and connections can all be gone.
CHECK_DEADLOCK FALSE
