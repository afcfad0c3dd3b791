\* Close at any time; files do not change, and one of them has no ETag.
SPECIFICATION FairSpec
CONSTANTS
  Names <- MCNames
  Listings <- MCListings
  Tagged <- MCSomeTagged
  Threads = {t1, t2}
  HeadRevalidateSec = 1
  Cap = 1
  MaxClock = 0
  MaxChanges = 0
  Closes = TRUE
  NoEntry = NoEntry
  NoName = NoName
PROPERTY PrefetchesDieOut
