SPECIFICATION Spec
CONSTANTS
  RowUnits = 2
  PageUnits = 4
  Total = 16
  Accessible = 12
  Sectors <- MCSectors
  RunDrivers = {"sam3"}
  Cases <- MCCases
CHECK_DEADLOCK FALSE
INVARIANT OffsetIsUsed
