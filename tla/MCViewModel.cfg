\* The settings keep their defaults; storing them, or a post, may fail.
CONSTANTS
  early = early
  late = late
  own = own
  peer = peer
  me = me
  Posts <- MCPosts
  SenderOf <- MCSenderOf
  DetailLines <- MCDetailLines
  Settings <- MCOneSetting
  Self = me
  None = none
  MaxTimeline = 2
  MaxBody = 1
  MaxMentions = 1
  LocaleCount = 1
  StorageMayFail = TRUE
SPECIFICATION Spec
INVARIANTS
  ShowsLivePosts
PROPERTIES
  DraftGoesByChoice
CHECK_DEADLOCK FALSE
