CONSTANTS
  s1 = s1
  s2 = s2
  Streams = {s1, s2}
  NoStream = NoStream
  StreamList <- BothStreams
  Kinds = {"single", "exceptions"}
  InFlight = 2
  MAX_RECORDS_SIZE = 1
  MAX_MAP_SIZE = 1
  CleanupEvery = 1
  MaxTime = 1
  MaxRecords = 1
SPECIFICATION FairSpec
PROPERTIES ActiveHeld CountSettles
CHECK_DEADLOCK FALSE
