CONSTANTS
  Peer = {p1, p2}
  Number <- MCFewNumbers
  Width = 6
  Pool = 2
  MaxRequests = 2
  Eager = {}
  Brief = {p1, p2}
  NULL = NULL
SPECIFICATION Spec
CHECK_DEADLOCK FALSE
INVARIANT StateOutlivesWork
