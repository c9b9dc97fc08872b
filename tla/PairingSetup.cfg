\* Three sites, two Pairings one way and one the other, two Epics to pair.
SPECIFICATION Spec
CONSTANTS
  s1 = s1
  s2 = s2
  s3 = s3
  p1 = p1
  p2 = p2
  p3 = p3
  Site = {s1, s2, s3}
  PairingId = {p1, p2, p3}
  Epic = {e1, e2}
  Manufacturer <- MCManufacturer
  NoEpic = NoEpic
  MaxLocalPairings = 6
SYMMETRY Interchangeable
INVARIANTS
  TypeOK
  ActiveIsAccepted
  OneAcceptanceTaken
PROPERTY PairingsKept
\* When the bound is reached only deliveries repeat.
CHECK_DEADLOCK FALSE
