\* Two concurrent responses and the read-ahead over one file of three blocks.
SPECIFICATION Spec
CONSTANTS
  BlockSize = 3
  FileSize = 8
  Headers <- MCHeaders
  NoHeader = NoHeader
  Absent = Absent
  Handlers = {h1, h2}
  Ahead = Ahead
  MaxRequests = 3
SYMMETRY Symmetry
INVARIANTS TypeOK PartialIsATail BodyInOrder WholeHitIsExact
CHECK_DEADLOCK FALSE
