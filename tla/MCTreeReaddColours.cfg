CONSTANTS
  MaxKey = 6
  MaxNode = 6
  FewKeys = 6
  Key <- MCKey
  Content <- MCContent
  Node <- MCNode
  Temp <- MCTemp
  SizeOf <- MCSizeOf
  Repeated = {1, 2, 3, 4, 5, 6}
  NULL = NULL
SPECIFICATION Spec
VIEW Shape
INVARIANT ColoursRight
