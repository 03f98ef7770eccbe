SPECIFICATION FairSpec
CONSTANTS
  SectorSize = 2
  MaxSectorSize = 2
  CacheSize = 0
  MinSectors = 4
  FillSectors = 2
  SeekLimitArg = 100
  PrefillArg = 100
  ReadChunk = 0
  FileLen = 9
  SeekTargets <- FewTargets
  ClientSeeks = "retained"
  HasControl = TRUE
  Commands = {"seek", "get_chapters", "get_angles"}
  Variant = "thread"
  Faults = {"control", "start"}
INVARIANTS RightBytes PosMatches ControlAnswered
PROPERTY ControlTerminates
