CONSTANTS
  Vectors = {0, 2, 14}
  MaxDepth = 2
SPECIFICATION Spec
INVARIANT NeverReturns
