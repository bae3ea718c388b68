\* Every bound is at its limit within two or three frames, and the deadlines
\* saturate inside the explored range of ticks.
CONSTANTS
  a = a
  b = b
  c = c
  d = d
  left = left
  right = right
  noise = noise
  Posts <- TwinPosts
  Tags <- MCTags
  Count <- TwinCount
  KeyOf <- TwinKeyOf
  Garbage <- MCGarbage
  Undecodable = {}
  QueueCapacity = 1
  SlotCapacity = 1
  RecentCapacity = 2
  QuarantineCapacity = 1
  Timeout = 2
  MaxTick = 3
SPECIFICATION FairSpec
INVARIANTS
  TypeOK
  FixedWindow
  CommittedWhole
  SuppressedIsStored
PROPERTIES
  SlotsFreed
CHECK_DEADLOCK FALSE
