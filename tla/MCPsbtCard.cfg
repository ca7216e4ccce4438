SPECIFICATION Spec
CONSTANTS
  Alias <- MCAlias
  Pieces <- MCPieces
  Garbled = {13}
  Unoffered <- MCUnoffered
  Sum <- MCSum
  MaxParts = 2
  Directories <- MCDirectories
  MaxScan = 5
  MaxFiles = 2
  MaxIndex = 1
  Chunks = 1
  MaxExports = 2
INVARIANTS TypeOK ListedByOwnName ExportsAreKept
CHECK_DEADLOCK FALSE
