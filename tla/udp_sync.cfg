SPECIFICATION FairSpec
CONSTANTS
  MaxPos = 2
  Threshold = 1
  SeekError = 1
  NetSize = 2
  SocketSize = 2
  MaxSeeks = 1
  MaxFaults = 1
INVARIANTS TypeOK NeverAhead
PROPERTIES ByeEnds ComesBack
CHECK_DEADLOCK FALSE
