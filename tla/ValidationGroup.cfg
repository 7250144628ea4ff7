SPECIFICATION Spec
CONSTANTS
  Branches <- MCBranches
  Reads <- MCReads
  MaxWait = 2
  Stability = 1
  Horizon = 2
INVARIANTS
  WinnerHeldTogether
  RecordIsTrue
PROPERTIES
  PollingEnds
