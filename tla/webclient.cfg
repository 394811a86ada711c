SPECIFICATION ClientSpec
CONSTANTS
  t1 = t1
  t2 = t2
  NoTarget = NoTarget
  NoFile = NoFile
  Blank = "ff"
  Corrupt = "torn"
  Content = {"00", "ff", "torn", "old1", "old2", "a1", "b1", "b2", "f1"}
  Vectors = {"a1", "b1", "f1"}
  Offset = 1
  MaxImage = 2
  PageChunks = 1
  Targets = {t1, t2}
  Concurrent = TRUE
  Faults = {"task"}
  MaxFaults = 1
  MaxJobs = 3
  InitialFlash <- MCInitialFlash
  Native <- MCNative
  Foreign <- MCForeign
  Uploads <- ShortUploads
  Capacity <- MCCapacity
  Browsers = {b1}
INVARIANTS
  OfferedIsAcceptable
  ReviewHolds
SYMMETRY
  Alike
