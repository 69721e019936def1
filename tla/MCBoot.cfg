CONSTANTS
  Lines = {0, 1, 8}
  MaxSent = 4
  KBD_BUF_SIZE = 2
  Keys <- MCKeys
  Shifts <- MCShifts
  NoChar <- MCNone
  PageSize = 2
  MemBytes = 18
SPECIFICATION BootSpec
INVARIANTS
  BootTypeOK
  NoUngatedInterrupt
  EachByteOnce
  ModifiersFollowKeys
  DriverResynchronises
  NeverResets
  EscapeSequencesWhole
  PmmTestRestores
PROPERTIES
  KeyboardServed
  BootEnds
