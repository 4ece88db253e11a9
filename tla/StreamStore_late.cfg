CONSTANTS
  s1 = s1
  s2 = s2
  Streams = {s1}
  NoStream = NoStream
  StreamList <- OneStream
  Kinds = {"total"}
  InFlight = 2
  MAX_RECORDS_SIZE = 2
  MAX_MAP_SIZE = 20
  CleanupEvery = 2
  MaxTime = 2
  MaxRecords = 2
SPECIFICATION FairSpec
INVARIANTS NoneSkipped ExceptionsAgree
PROPERTY OnlyNewestRemain
CHECK_DEADLOCK FALSE
