SPECIFICATION PartSpec
CONSTANTS
  None = None
  NoSignal = None
  Selectors = {"a", "b", "c"}
  Values = {"x"}
  Profiles <- MCProfiles
  Empty = Empty
  Spaces = Spaces
  MaxWaitMS = 60000
  MaxRepeatCount = 1000
  MaxForeign = 1
  MaxComparisons = 1
  CaptureIDs = {c1, c2, c3}
  Keys = {k1, k2}
  NoKey = NoKey
  MaxClock = 1
  BadSpec = BadSpec
  Specs = {good, BadSpec}
SYMMETRY Alike
INVARIANTS
  MatchIsAShare
  HealingIsSound
  ShapesAgree
  CapturesAreSound
  DraftsAreSound
PROPERTIES
  StepsAreKept
CHECK_DEADLOCK FALSE
