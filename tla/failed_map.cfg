SPECIFICATION Spec
CONSTANTS
  BlkSize = 3
  SizeMod = 16
  Submits = 1
  Kinds = {"reg"}
  MaxSize = 1
  MaxChanges = 0
  Failures = {"map"}
  RaceOutcomes = {}
INVARIANTS FailedMapStopsMain
