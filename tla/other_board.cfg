SPECIFICATION Spec
CONSTANTS
  t1 = t1
  t2 = t2
  NoTarget = NoTarget
  NoFile = NoFile
  Blank = "ff"
  Corrupt = "torn"
  Offset = 2
  MaxImage = 4
  PageChunks = 2
  Targets = {t1, t2}
  Concurrent = FALSE
  Faults = {}
  MaxFaults = 0
  MaxJobs = 4
  Content <- MCContent
  Vectors <- MCVectors
  Native <- MCNative
  Foreign <- MCForeign
  InitialFlash <- MCInitialFlash
  Uploads <- TwoUploads
  Capacity <- BothLarge
INVARIANTS
  RestoreKeepsBoardsApart
