\* Three publications of one Epic, two of them at work at once.
SPECIFICATION Spec
CONSTANTS
  Run = {r1, r2}
  MaxPublications = 3
SYMMETRY Interchangeable
INVARIANTS
  TypeOK
  PromotedOnce
  NewestIsCurrent
  CandidatesKept
PROPERTY EndedStaysEnded
\* Keys run out.
CHECK_DEADLOCK FALSE
