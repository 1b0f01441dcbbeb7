CONSTANTS
  Threads = {"dm", "obj"}
  Shared = {"obj"}
  Paged = {"dm"}
  BootLimit = 2
  BackfillLimit = 1
  PageSize = 1
  MaxMessages = 3
  MaxTs = 2
  MaxBreaks = 1
  MaxFails = 1
SPECIFICATION TranscriptSpec
CHECK_DEADLOCK FALSE
INVARIANTS
  StoreSorted
  NothingMissing
