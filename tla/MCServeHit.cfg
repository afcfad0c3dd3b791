\* A range inside one cached, whole block.
SPECIFICATION Spec
CONSTANTS
  BlockSize = 3
  FileSize = 8
  Headers <- MCWholeHeaders
  NoHeader = NoHeader
  Absent = Absent
  Handlers = {h1}
  Ahead = Ahead
  MaxRequests = 2
INVARIANT HitSendsAll
CHECK_DEADLOCK FALSE
