CONSTANTS
  Vectors = {0, 2, 3, 8, 14, 21}
  MaxDepth = 4
SPECIFICATION Spec
INVARIANTS
  TypeOK
  ReturnsToFrame
PROPERTY PanicIsFinal
