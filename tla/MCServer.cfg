\* Two threads and two episodes, room for one version, one change upstream.
SPECIFICATION Spec
CONSTANTS
  Names <- MCNames
  Listings <- MCListings
  Tagged <- MCTagged
  Threads = {t1, t2}
  HeadRevalidateSec = 1
  Cap = 1
  MaxClock = 1
  MaxChanges = 1
  Closes = FALSE
  NoEntry = NoEntry
  NoName = NoName
INVARIANTS TypeOK EntriesAreHonest BytesAreRecent LabelsAreFloors MapBounded
PROPERTIES NextIsNext NextIsNearest
SYMMETRY Symm
