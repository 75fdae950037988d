CONSTANTS
  Thread = {t1, t2}
  Address = {a1}
  Request <- MCRequest
  Failures = {"malloc"}
  NULL = NULL
SPECIFICATION FairSpec
CHECK_DEADLOCK FALSE
PROPERTY CallsReturn
