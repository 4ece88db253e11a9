CONSTANTS
  Viewers = {v1}
  Ticks = {t1, t2}
  a = a
  b = b
  Cars <- TwoCars
  Frames <- Data
  Plates = {p, q}
  NoPlate = NoPlate
  NoViewer = NoViewer
  NoCar = NoCar
SPECIFICATION FairSpec
INVARIANTS OnePlate RecordsHaveCars CleanStart
PROPERTY RecordingEnds
CHECK_DEADLOCK FALSE
