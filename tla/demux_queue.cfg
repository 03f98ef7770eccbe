SPECIFICATION FairSpec
CONSTANTS
  Files <- SomeFiles
  Burst = 2
  MaxPacks = 2
  MaxPackBytes = 5
  FillMax = 1
  VideoMin = 0
  CountVideo = TRUE
  ForceNi = FALSE
  ReadSizes = {2}
  Seeks = {"seek", "chapter", "angle", "switch"}
  MaxSeeks = 1
INVARIANTS TypeOK QueueExact BytesExact NextPtsRight NoFalseEnd QueueBound
PROPERTY PlaysToEnd
