CONSTANTS
  MaxKey = 8
  MaxNode = 8
  FewKeys = 5
  Key <- MCKey
  Content <- MCContent
  Node <- MCNode
  Temp <- MCTemp
  SizeOf <- MCSizeOf
  Repeated = {2, 3, 5}
  NULL = NULL
SPECIFICATION Spec
CONSTRAINT Bound
VIEW Shape
INVARIANTS
  SearchTree
  RedBlack
  CountsAgree
PROPERTY ImplementsMap
