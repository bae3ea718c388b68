CONSTANTS
  Outgoing = {first, second}
  Incoming = {far}
  Empty = empty
  Oversize = oversize
  Nothing = nothing
  MaxSends = 2
SPECIFICATION FairSpec
INVARIANTS
  FlagsMatchChip
  AcceptedIsAired
  ReceptionKept
PROPERTIES
  RadioRecovers
CHECK_DEADLOCK FALSE
