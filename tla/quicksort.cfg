SPECIFICATION FairSpec
CONSTANTS
  Length = 5
  Values = {1, 2, 3, 4, 5}
INVARIANTS ScansStayInside SettledPairsAreOrdered KeepsTheElements
PROPERTIES EndsOrSpins
