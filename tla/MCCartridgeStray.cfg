SPECIFICATION Spec
CONSTANTS
  Radix <- MCRadix
  Width <- MCWidth
  Millis = 2
  Kinds = {"mbc1"}
  Writes <- MCWrites
  Offsets = {0, 3}
  BankSize = 4
  Bytes <- MCBytes
  Saved <- MCSaved
  Elapsed = {0}
  Uptimes = {0}
  MaxTime = 1
  MaxOps = 4
PROPERTIES ClosedWritesAreDropped
CHECK_DEADLOCK FALSE
