SPECIFICATION ProgramSpec
CONSTANTS
  Dims = {0, 1, 2, 3}
  Values = {0, 100}
  SizeMod = 8
  Grain = 4
  KeepsSlack = TRUE
  MayFail = TRUE
  BufferSize = 7
  MaxDigits = 3
INVARIANTS EndedByThePreviousCall WholeUnlessFailed ShortNumbersFit
PROPERTIES InsideUnlessWrapped ImplementsGrid
CHECK_DEADLOCK FALSE
