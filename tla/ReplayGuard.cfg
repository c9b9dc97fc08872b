\* Time in units of thirty seconds: five minutes, thirty seconds, ten minutes
\* and Forge's twenty-five seconds rounded up.  The clock runs past the life of
\* a claim made at the last instant a request verifies.
SPECIFICATION Spec
CONSTANTS
  Request = {r1}
  Invocation = {v1, v2}
  MaxAge = 10
  Skew = 1
  Retention = 20
  Limit = 1
  MaxTime = 36
INVARIANTS
  TypeOK
  SingleUse
  UsedStaysClaimed
\* The clock is bounded.
CHECK_DEADLOCK FALSE
