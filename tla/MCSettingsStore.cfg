CONSTANTS
  Values = {v1, v2}
  NoFile = NotFound
  Damaged = Damaged
  Pieces = 2
SPECIFICATION StoreSpec
PROPERTIES
  ImplementsAtomicFile
