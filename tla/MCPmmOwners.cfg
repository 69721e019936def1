CONSTANTS
  PageSize = 1
  BootArgs <- MCBootArgs
  Pointers = {}
  Counts = {1, 2, 3}
  Clients = {c1, c2, c3}
SPECIFICATION OwnersSpec
INVARIANTS
  ExclusiveUnlessFragmented
PROPERTY LostOnlyBehindNull
