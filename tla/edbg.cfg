SPECIFICATION EdbgSpec
CONSTANTS
  RowUnits = 2
  PageUnits = 4
  Total = 16
  Accessible = 12
  Sectors <- MCSectors
  RunDrivers = {"stm32g0", "stm32g4", "stm32wb55", "gd32f4xx", "m480", "py32f0", "samd", "same5x", "sam3", "sam4", "same70"}
  Cases <- MCCases
  Extent = 8
  Bus = 2
  Wrap = 4
  QueuePacket = 24
  MaxOps = 4
  MaxRequests = 3
  Accesses <- MCAccesses
  Blocks <- MCBlocks
  JtagPacket = 7
  MaxRun = 3
  ByteBits = 2
  MaxClocks = 18
  IrLength = 2
  CodeBits = 2
  MaxChain = 2
  Chains <- MCChains
  Shifts = {2}
  Held <- MCHeld
CHECK_DEADLOCK FALSE
INVARIANTS
  EdbgTypeOK
  SuccessIsEarned
  OnlyAsked
  LockedIsUntouched
  QueueIsTransparent
  TransferProgresses
PROPERTIES
  RegistersAreExact
  ScanFindsTheChain
