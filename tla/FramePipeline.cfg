CONSTANTS
  InternalCap = 1
  OutCap = 1
  LogCap = 1
  PipeCap = 2
  Ahead = 1
  MaxFrame = 5
SPECIFICATION FairSpec
INVARIANTS LabelSkew StallNeedsMislabels
PROPERTIES ConsumerReturns NothingLeftRunning DeathNoticed ImagesDelivered
CHECK_DEADLOCK FALSE
