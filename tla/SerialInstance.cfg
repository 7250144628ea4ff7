SPECIFICATION FairSpec
CONSTANTS
  N = 2
  Workers = {w1, w2}
  Executors = {x1, x2}
  Operators = {o1}
  Tokens = {t1, t2, t3, t4, t5}
  NoToken = NoToken
  Commands = {"CANCEL", "ABORT"}
  MaxFaults = 1
  MaxRevision = 3
CHECK_DEADLOCK FALSE
INVARIANTS
  SerialContract
PROPERTIES
  RowsMoveAsAllowed
  Finishes
