CONSTANTS
  PRINTF_NTOA_BUFFER_SIZE = 6
  Formats <- MCFormats
  Counts = {0, 1, 3, 9}
  Calls <- MCCalls
  Uchar = 4
  Ushort = 16
  Uint = 64
  PointerDigits = 4
SPECIFICATION CallSpec
INVARIANTS
  TypeOK
  NtoaInBounds
  StoresPrefix
  FormatsAsC
  ReadsInside
PROPERTY ImplementsPrintk
