CONSTANTS
  MAX_QUEUE_LENGTH = 2
  BUFFER_MAX_DURATION = 2
  Key = {1, 4}
  MaxPacket = 7
  MaxClears = 2
SPECIFICATION Spec
INVARIANTS AppendedInOrder StuckOnlyAfterThrow LatestKept
PROPERTY OnlyOldestDropped
CHECK_DEADLOCK FALSE
