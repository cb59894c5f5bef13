SPECIFICATION Spec
CONSTANTS
  Grain = 4
  KeepsSlack = TRUE
  MayFail = FALSE
  CountsZero = FALSE
  Widths = {5, 6}
  MaxText = 17
INVARIANT ReadsBack
CHECK_DEADLOCK FALSE
