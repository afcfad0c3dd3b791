\* Two threads, slow and fast samples, windows of two of up to three samples.
SPECIFICATION ListSpec
CONSTANTS
  ali = ali
  film = film
  bonus = bonus
  a = a
  b = b
  sub = sub
  Top = ali
  Dirs <- MCDirs
  Files <- MCFiles
  Videos <- MCVideos
  NoMark = NoMark
  Threads = {t1, t2}
  Rates = {0, 1, 9}
  SlowSourceThresholdMbps = 2
  ProfileMaxSamples = 2
  ProfileMaxAgeSec = 1
  DefaultMaxConcurrency = 4
  PriorRows <- MCPriorRows
  MaxClock = 2
  MaxSamples = 3
  NoRow = NoRow
INVARIANTS TypeOK SlowIsMeasured MarksComeOff
PROPERTY StaysSettled
SYMMETRY Symm
