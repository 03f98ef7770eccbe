SPECIFICATION FairSpec
CONSTANTS
  SectorSize = 1
  MaxSectorSize = 1
  CacheSize = 0
  MinSectors = 4
  FillSectors = 2
  SeekLimitArg = 100
  PrefillArg = 100
  ReadChunk = 0
  FileLen = 5
  SeekTargets <- EndTargets
  ClientSeeks = "any"
  HasControl = FALSE
  Commands = {}
  Variant = "fork"
  Faults = {"seek"}
INVARIANTS TypeOK WindowFits
PROPERTY ReadTerminates
