SPECIFICATION FairSpec
CONSTANTS
  SectorSize = 2
  MaxSectorSize = 2
  CacheSize = 0
  MinSectors = 4
  FillSectors = 2
  SeekLimitArg = 100
  PrefillArg = 100
  ReadChunk = 0
  FileLen = 7
  SeekTargets <- EndTargets
  ClientSeeks = "retained"
  HasControl = TRUE
  Commands = {"seek", "get_angles"}
  Variant = "fork"
  Faults = {"parent", "keep_eof", "start"}
PROPERTIES ReadTerminates PrefillTerminates ControlTerminates OrphanExits
