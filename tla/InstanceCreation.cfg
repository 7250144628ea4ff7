SPECIFICATION FairSpec
CONSTANTS
  Calls = {"a", "b", "c", "d", "e"}
  CommandOf <- FiveCommands
  Items <- ThreeItems
  Flows = {"f"}
  MaxVersions = 2
  Defaults <- TwoDefaults
  Legal <- TwoLegal
  Defects = {"environment", "oversized", "root", "values", "provenance", "item", "torn", "tornFirst"}
  Tampers = {"command", "request", "run", "digest", "entries", "instance", "task", "environment", "policy",
             "values", "version"}
  MaxRetries = 1
  MaxFaults = 1
INVARIANTS
  RetriesShareOneInstance
  DefectsAreContained
PROPERTY
  CallsEnd
CHECK_DEADLOCK FALSE
