CONSTANTS
  Peer = {p1, p2}
  Number <- MCNumber
  Width = 6
  Pool = 2
  MaxRequests = 2
  Eager = {p2}
  Brief = {}
  NULL = NULL
SPECIFICATION FairSpec
CHECK_DEADLOCK FALSE
INVARIANTS
  RepliesRight
  StateOutlivesWork
  OneAnswerEach
PROPERTY Answered
