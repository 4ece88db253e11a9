\* Any bytes, cut in any way; two images take at least eight bytes.
CONSTANTS
  FF = FF
  SOI = SOI
  EOI = EOI
  Other = {}
  MaxRead = 5
  MaxBytes = 8
SPECIFICATION SplitterSpec
INVARIANTS SplitsInput OverwrittenOnlyAfterReset
CHECK_DEADLOCK FALSE
