\* A read-ahead over a partial block that an earlier request left.
SPECIFICATION Spec
CONSTANTS
  BlockSize = 3
  FileSize = 8
  Headers <- MCTailHeaders
  NoHeader = NoHeader
  Absent = Absent
  Handlers = {h1}
  Ahead = Ahead
  MaxRequests = 3
INVARIANT SidePathHarmless
CHECK_DEADLOCK FALSE
