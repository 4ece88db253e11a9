CONSTANTS
  s1 = s1
  p1 = p1
  p2 = p2
  Clients = {c1}
  Rooms = {s1}
  Publishers = {p1, p2}
  NoRoom = NoRoom
  NoClient = NoClient
  NoMessage = NoMessage
  RoomOf <- OneRoom
  Name <- SameRoom
  SendCap = 1
  MaxReads = 1
  FrameBound <- FewFrames
  MayFail = {c1}
SPECIFICATION FairSpec
PROPERTY SendPumpReturns
CHECK_DEADLOCK FALSE
