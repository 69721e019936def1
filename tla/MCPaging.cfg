CONSTANTS
  PageSize = 1
  BootArgs <- MCBootArgs
  Pointers = {}
  Counts = {}
  Pages <- MCPages
  Targets = {3, 5}
  Memory <- MCMemory
SPECIFICATION PagingSpec
INVARIANTS
  TablesFormTree
  EveryFrameAccounted
  TlbCoherent
PROPERTY IsAddressSpace
CONSTRAINT UntilExhausted
