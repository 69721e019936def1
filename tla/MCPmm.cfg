CONSTANTS
  PageSize = 2
  BootArgs <- MCBootArgs
  Pointers <- MCPointers
  Counts = {0, 1, 2, 3}
SPECIFICATION Spec
INVARIANTS
  TypeOK
  FreePagesExact
  BitmapCoversFrames
PROPERTY LossesExplained
