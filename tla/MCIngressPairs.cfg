\* Two reassemblies side by side, conflicts of geometry, and a quarantine too
\* small for both keys.
CONSTANTS
  a = a
  b = b
  c = c
  d = d
  left = left
  right = right
  noise = noise
  Posts <- PairPosts
  Tags <- MCTags
  Count <- PairCount
  KeyOf <- PairKeyOf
  Garbage <- MCGarbage
  Undecodable = {d}
  QueueCapacity = 1
  SlotCapacity = 2
  RecentCapacity = 2
  QuarantineCapacity = 1
  Timeout = 2
  MaxTick = 3
SPECIFICATION Spec
INVARIANTS
  SuppressedTakesNoSlot
  QuarantineHolds
CHECK_DEADLOCK FALSE
