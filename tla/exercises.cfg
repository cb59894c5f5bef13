SPECIFICATION FairSpec
CONSTANTS
  MaxElement = 2
  MaxLen = 4
  MaxSide = 4
  MaxInt = 5
  NumSuits = 2
  NumRanks = 2
  MaxSize = 6
  MaxInput = 5
INVARIANTS SumIsExact TwoLargest IdentityWhenWide NoCardTwice ReturnsBehindANewline
PROPERTIES CallReturns
CHECK_DEADLOCK FALSE
