SPECIFICATION ScanSpec
CONSTANTS
  Char = {"a", "b", "0"}
  Printable = {"a", "b"}
  Capacity = 4
  MinRun = 2
  Native = {1}
  Names <- MCNames
  MaxLen = 7
  Block = 3
CHECK_DEADLOCK FALSE
INVARIANTS
  FirstPieceDecides
