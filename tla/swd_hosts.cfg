SPECIFICATION HostsFairSpec
CONSTANTS
  Words = 4
  Page = 2
  Values = {0, 1}
  Retries = 2
  MaxLen = 2
  Asked = {0, 1}
  Pages = 2
  PageWords = 2
  RowPages = 2
  b = b
  Bits = {b}
  Files <- MCFiles
  Pattern <- MCPattern
  TestPage = 1
CHECK_DEADLOCK FALSE
INVARIANTS
  HostsTypeOK
PROPERTIES
  ConnectRevives
  IsBlockMemory
  EngineIsSafe
  SessionRevives
  SuccessIsEarned
  HostsReturn
