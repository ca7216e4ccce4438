SPECIFICATION Spec
CONSTANTS
  Radix <- MCRadix
  Width <- MCWidth
  Millis = 2
  Kinds = {"none", "mbc1", "mbc3", "mbc5"}
  Writes <- MCWrites
  Offsets = {0, 3}
  BankSize = 4
  Bytes <- MCBytes
  Saved <- MCSaved
  Elapsed = {0, 2}
  Uptimes = {3}
  MaxTime = 2
  MaxOps = 5
INVARIANTS TypeOK KeepsTime
PROPERTIES ServedAsAimed
CHECK_DEADLOCK FALSE
