SPECIFICATION Spec
CONSTANTS
  BlkSize = 3
  SizeMod = 16
  Failures = {"open", "stat", "malloc", "short", "io"}
  MaxSize = 10
  MaxChanges = 2
  IovMax = 2
  StackBlocks = 3
  FdLimit = 2
INVARIANTS ReturnsHoldOnlyDescriptors OutputMatchesResult
