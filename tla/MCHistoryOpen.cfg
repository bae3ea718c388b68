CONSTANTS
  p1 = p1
  p2 = p2
  mine = mine
  other = other
  m1 = m1
  m2 = m2
  None = None
  Empty = Empty
  Torn = Torn
  Processes = {p1, p2}
  Configs = {mine, other}
  Posts = {m1, m2}
  InitialConfigs <- MCInitialConfigs
  InitialSettings <- MCInitialSettings
  InitialFiles <- MCInitialFiles
SPECIFICATION Spec
INVARIANTS
  OneWriter
  WholeHistoryOpens
PROPERTIES
  HistoryKept
  ForeignUntouched
