SPECIFICATION GovernanceSpec
CONSTANTS
  Many = {i1, i2, i3, i4}
  Settings <- MCSettings
  FactIDs = {"healed", "weak", "other", "recovered", "failed", "unknown", "failedWith"}
  Hashes = {"h1", "h2"}
  CommandOf <- MCCommandOf
  DecisionOf <- MCDecisionOf
  maxStepTransitionFacts = 1
  maxStepTransitionStringBytes = 1
  MaxStepTransitionPayloadBytes = 1
SYMMETRY Alike
CHECK_DEADLOCK FALSE
INVARIANTS
  CommitsAreAnswered
  StreaksAreSound
  ReviewsAreSound
PROPERTY
  DecisionsStand
