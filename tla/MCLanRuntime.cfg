CONSTANTS
  m1 = m1
  Posts = {m1}
  n1 = n1
  n2 = n2
  Nets = {n1, n2}
  Down = Down
  Cut = Cut
  Faults = {"WouldBlock", "Failed", "Deferred", "Random", "Storage"}
  CacheTicks = 2
  DeadlineTicks = 3
  RepeatTicks = 1
  MaxPending = 1
  MaxWork = 1
  MaxFiltered = 2
  MaxArrivals = 2
SPECIFICATION Spec
INVARIANTS
  SentMatchesState
PROPERTIES
  QueuedConcludes
