\* Times are scaled down: every delay keeps its order relative to the others,
\* and the tick saturates inside the explored range.
CONSTANTS
  long = long
  short = short
  Msgs <- MCMsgs
  Fragments <- MCFragments
  JitterBytes <- MCJitterBytes
  MaxFragments = 2
  MaxOutbound = 2
  MaxTick = 7
  OutboundDeadline = 5
  InitialJitterMax = 1
  GapJitterMax = 1
  RetryDelay = 1
  RetryJitterMax = 1
  RepeatDelay = 1
  RepeatJitterMax = 1
  DeferDelay = 1
SPECIFICATION FairSpec
INVARIANTS
  TypeOK
  OffersAtMostTwice
  JitterInBounds
  BroadcastSound
PROPERTIES
  RepeatAfterBroadcast
  BroadcastNeverFails
  EveryPostLeaves
CHECK_DEADLOCK FALSE
