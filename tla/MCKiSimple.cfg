CONSTANTS
  Size = 4
  Values = 2
  Ints <- MCInts
SPECIFICATION Spec
INVARIANTS
  TypeOK
  MoveCorrect
  FillCorrect
  CompareCorrect
PROPERTY CallsReturn
