CONSTANTS
  LocalIds = {l1, l2}
  RemoteIds = {r1, r2, r3}
  Installs = {i1, i2}
  NoInstall = NoInstall
  NoId = NoId
  Users = {u1, u2}
  Prefs = {p1, p2}
  TimelineCapacity = 3
  MaxQueued = 3
  OutboundCapacity = 2
  LedgerCapacity = 3
  MaxSequence = 2
  MaxOrder = 5
SPECIFICATION Spec
SYMMETRY Symmetry
INVARIANTS
  TypeOK
  DurableStateLoads
  SequenceNeverReused
  MemoryIsDurable
PROPERTIES
  HandedOnce
  QueuedKept
  OnlyFaultsRequireRecovery
