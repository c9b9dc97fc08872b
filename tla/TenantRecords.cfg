\* Two invocations of anything, one invitation, and more events than the
\* journal keeps.
SPECIFICATION Spec
CONSTANTS
  Invitation = {i1}
  Account = {a1, a2}
  Target = {t1}
  Secret = {s1}
  Slot = {p1, p2}
  Instant = {0}
  lifecycleJournalCapacity = 2
  None = None
  MaxDenials = 1
SYMMETRY Interchangeable
INVARIANTS
  TypeOK
  EvidenceIsTrue
  JournalWellFormed
  SinkAsAnswered
PROPERTY EvidenceIsDurable
\* Nothing is left to do when the bounds are reached but to read.
CHECK_DEADLOCK FALSE
