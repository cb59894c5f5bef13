SPECIFICATION FairSpec
CONSTANTS
  BlkSize = 3
  SizeMod = 16
  Submits = 3
  Kinds = {"reg", "other"}
  MaxSize = 1
  MaxChanges = 0
  Failures = {"open", "map", "enter", "signal", "io"}
  RaceOutcomes = {}
PROPERTIES ImplementsReadService AcceptedReadIsPrinted NeverEndsAfterSuccess
