SPECIFICATION FairSpec
CONSTANTS
  Content = {"ff", "torn", "boot", "old", "a", "b"}
  Blank = "ff"
  Torn = "torn"
  Pages = 4
  PageCells = 2
  Offset = 1
  Old <- MCOld
  Files <- MCFiles
INVARIANTS
  CommandMeetsReady
  ProgramIsWhole
  OtherPagesKept
  JammedIsUntouched
PROPERTIES
  RunEnds
