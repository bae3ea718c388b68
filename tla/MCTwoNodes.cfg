\* The deadline of the sender and the window of the receiver are equal, and the
\* clock runs past both and saturates.
CONSTANTS
  long = long
  short = short
  tag = tag
  noise = noise
  Msgs <- MCMsgs
  Fragments <- MCFragments
  JitterBytes <- MCJitterBytes
  MaxFragments = 2
  MaxOutbound = 2
  MaxTick = 5
  OutboundDeadline = 4
  InitialJitterMax = 0
  GapJitterMax = 0
  RetryDelay = 1
  RetryJitterMax = 0
  RepeatDelay = 1
  RepeatJitterMax = 0
  DeferDelay = 1
  Tags <- MCTags
  KeyOf <- MCKeyOf
  Garbage <- MCGarbage
  QueueCapacity = 1
  SlotCapacity = 1
  RecentCapacity = 4
  QuarantineCapacity = 1
  Timeout = 4
SPECIFICATION TwoSpec
INVARIANTS
  EitherPassCompletes
PROPERTIES
  KeepsPromise
