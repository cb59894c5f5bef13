SPECIFICATION FairSpec
CONSTANTS
  NumPrograms = 2
  NumTests = 2
  NumChecks = 2
INVARIANTS ExitCodeIsTrue FailedTestIsNamed NothingRunsAfterAFailure
PROPERTIES EndsOrHangs
