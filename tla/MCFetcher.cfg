\* One fetch of up to three blocks by up to two workers, warm or cold cache, retries.
SPECIFICATION FairSpec
CONSTANTS
  BlockSize = 2
  MaxOff = 6
  FileSize = 6
  Ranges <- MCRanges
  MaxWorkers = 2
  BufSize = 1
  Retries = 1
  CachedLens = {1}
  NoBlock = NoBlock
INVARIANTS
  TypeOK TruncationHasCause CacheHoldsPrefixes ReaderDropsConsumed SleepsOnlyWhenDry NeverStuck
PROPERTIES StreamSpec Termination
