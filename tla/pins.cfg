SPECIFICATION PinsSpec
CONSTANTS
  Saturates = FALSE
  MaxFaults = 4
INVARIANTS
  UsedOnlyHalted
  PrinterLeftAlone
  NoConnectOutOfRange
