CONSTANTS
  Content = {c1, c2, c3, c4}
  Odd = {c1, c2}
  Elem = {e1, e2, e3, e4}
  MaxSize = 6
  Value <- MCValue
  ValueOf <- MCValueOf
  SizeOf <- MCSizeOf
  NULL = NULL
SPECIFICATION Spec
VIEW Shape
INVARIANTS
  LinksAgree
PROPERTY ImplementsSequence
