CONSTANTS
  Thread = {t1, t2}
  Address = {a1, a2}
  Request <- MCRequest
  Failures = {"malloc", "realloc"}
  NULL = NULL
SPECIFICATION FairSpec
CHECK_DEADLOCK FALSE
INVARIANTS
  RecordsLive
  FreedOnce
  TotalsAgree
  AllBlocksKnown
PROPERTIES
  ImplementsTable
  CallsReturnWithMemory
