SPECIFICATION Spec
CONSTANTS
  BlkSize = 3
  SizeMod = 16
  Submits = 1
  Kinds = {"reg", "blk", "other"}
  MaxSize = 7
  MaxChanges = 1
  Failures = {"open", "map", "malloc", "enter", "signal", "short", "io"}
  RaceOutcomes = {"hoisted", "stale"}
INVARIANTS TypeOK RaceNeedsACutWait ZeroExitMeansFailedRead OutputIsThePlan MissingBufferIsNoticed StableFileIsPrintedWhole
