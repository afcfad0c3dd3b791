\* Four goroutines, three global slots, two per sub-source.
SPECIFICATION FairSpec
CONSTANTS
  s1 = s1
  s2 = s2
  a1 = a1
  a2 = a2
  a3 = a3
  b1 = b1
  SubSources = {s1, s2}
  Keys <- MCKeys
  SubOf <- MCSubOf
  Goroutines = {g1, g2, g3, g4}
  MaxConcurrency = 3
  SubSlots = 2
  MaxTasks = 4
  NoKey = NoKey
INVARIANTS TypeOK SlotsMatch OneTaskPerKey
PROPERTY TasksEnd
