CONSTANTS
  KBD_BUF_SIZE = 3
  Scancodes = {30, 14, 42, 170, 58, 224, 72}
  MaxLens = {1, 3}
  Builds = {TRUE, FALSE}
  NoChar <- MCNone
SPECIFICATION Spec
INVARIANTS
  TypeOK
  ReaderFindsChar
PROPERTIES
  IsQueue
  ArrowsHeldOff
  ReadReturns
  LineReturns
