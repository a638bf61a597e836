SPECIFICATION Spec
CONSTANTS
  Packages = {1, 2, 3}  Root = 1  Runtime = 3  MaxVersion = 2
  Indexes <- MCIndexes  Reviewed <- MCReviewed
  MaxRuns = 4  MaxTroubles = 1
INVARIANTS ResolutionIsRight SealedIsBacked FailureLeavesNoTrace ReplayRunsIntact PriorIsRecoverable SettledReceipt
CHECK_DEADLOCK FALSE
