\* A supplier that is also the manufacturer of another Pairing.
SPECIFICATION Spec
CONSTANTS
  s1 = s1
  s2 = s2
  s3 = s3
  p1 = p1
  p2 = p2
  p3 = p3
  Site = {s1, s2}
  PairingId = {p1, p3}
  Epic = {e1, e2}
  Manufacturer <- MCManufacturer
  NoEpic = NoEpic
  MaxLocalPairings = 4
SYMMETRY Interchangeable
INVARIANT ReferenceUsedOnce
CHECK_DEADLOCK FALSE
