SPECIFICATION Spec
CONSTANTS
  BlkSize = 3
  SizeMod = 16
  Submits = 3
  Kinds = {"reg"}
  MaxSize = 3
  MaxChanges = 1
  Failures = {"enter", "signal", "io"}
  RaceOutcomes = {"hoisted", "stale"}
INVARIANTS OnlyAcceptedReadsRun EachReadIsInOnePlace LentMemoryIsLive OnlyTheTableLeaks
PROPERTIES UnprintedCompletionStays
