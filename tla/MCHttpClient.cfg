CONSTANTS
  Url <- MCUrl
  Reply <- MCReply
  Fd = {3, 4}
  ReadSize = 4
  BodySize = 3
  ErrorSize = 4
  Byte = 4
  MaxBody = 1
  MaxLeft = 2
VIEW View
SPECIFICATION FairSpec
INVARIANTS
  NoLeak
  RightServer
  BodyIsPrefix
  WritesWithin
  WholeResponse
  KeptInStep
PROPERTIES
  RightRequestLine
  CallReturns
