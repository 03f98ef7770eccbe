SPECIFICATION Spec
CONSTANTS
  SectorSize = 2
  MaxSectorSize = 2
  CacheSize = 0
  MinSectors = 4
  FillSectors = 2
  SeekLimitArg = 100
  PrefillArg = 100
  ReadChunk = 0
  FileLen = 13
  SeekTargets <- AllTargets
  ClientSeeks = "retained"
  HasControl = FALSE
  Commands = {}
  Variant = "fork"
  Faults = {}
INVARIANTS RightBytes NoEhh CopyInBounds EofMeansFetched BackSeekKeepsCache
PROPERTY IsByteSource
