CONSTANTS
  s1 = s1
  s2 = s2
  Streams = {s1}
  NoStream = NoStream
  StreamList <- OneStream
  Kinds = {"total"}
  InFlight = 2
  MAX_RECORDS_SIZE = 2
  MAX_MAP_SIZE = 20
  CleanupEvery = 2
  MaxTime = 3
  MaxRecords = 3
SPECIFICATION Spec
INVARIANT NewestFirst
CHECK_DEADLOCK FALSE
