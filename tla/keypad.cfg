SPECIFICATION FairSpec
CONSTANTS
  Rows = 2
  Columns = 2
  Debounce = 2
  Wrap = 10
  MaxMoves = 2
INVARIANTS
  ScanIsExact
PROPERTIES
  ReportedIsSettled
  ReportsCatchUp
