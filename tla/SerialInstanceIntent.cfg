SPECIFICATION FairSpec
CONSTANTS
  N = 2
  Workers = {w1}
  Executors = {x1}
  Operators = {o1}
  Tokens = {t1, t2, t3, t4}
  NoToken = NoToken
  Commands = {}
  MaxFaults = 0
  MaxRevision = 3
CHECK_DEADLOCK FALSE
PROPERTY
  CarriedIntentStopsTheNextEntry
