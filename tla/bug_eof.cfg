SPECIFICATION Spec
CONSTANTS
  SectorSize = 2
  MaxSectorSize = 2
  CacheSize = 12
  MinSectors = 4
  FillSectors = 2
  SeekLimitArg = 100
  PrefillArg = 100
  ReadChunk = 0
  FileLen = 9
  SeekTargets <- NoTargets
  ClientSeeks = "retained"
  HasControl = FALSE
  Commands = {}
  Variant = "fork"
  Faults = {}
INVARIANT NoSpuriousEof
