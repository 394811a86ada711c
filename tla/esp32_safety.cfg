SPECIFICATION FairSpec
CONSTANTS
  t1 = t1
  t2 = t2
  NoTarget = NoTarget
  NoFile = NoFile
  Blank = "ff"
  Corrupt = "torn"
  Offset = 2
  MaxImage = 4
  PageChunks = 2
  Targets = {t1}
  Concurrent = TRUE
  Faults = {"link", "corrupt", "fs", "power", "mount"}
  MaxFaults = 1
  MaxJobs = 3
  Content <- MCContent
  Vectors <- MCVectors
  Native <- MCNative
  Foreign <- MCForeign
  InitialFlash <- MCInitialFlash
  Uploads <- TwoUploads
  Capacity <- OnlyLarge
INVARIANTS
  TypeOK
  ImageIsReviewed
  SnapshotIsConsistent
PROPERTIES
  JobIsExclusive
  JobEnds
  ProbeConcludes
