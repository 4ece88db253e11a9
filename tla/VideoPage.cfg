CONSTANTS
  Players = {p1, p2, p3}
  NoPlayer = NoPlayer
  MaxIdle = 2
  MaxTime = 1
  maxRetry = 1
SPECIFICATION FairSpec
INVARIANTS OwnedOrLost ReleasedUnlessBuffered ElementKept GivesUpLate
PROPERTY StalledReplaced
CHECK_DEADLOCK FALSE
