CONSTANTS
  Viewers = {v1, v2}
  NoViewer = NoViewer
  MaxConn = 3
  MaxDeaths = 1
SPECIFICATION FairSpec
INVARIANTS ServedUnlessRaced NoGhost OneWorker 
PROPERTIES Reconnects CallsReturn
