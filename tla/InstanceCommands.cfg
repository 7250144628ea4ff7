SPECIFICATION Spec
CONSTANTS
  Instances = {i1, i2}
  Clients = {c1, c2}
  CommandIDs = {k1, k2}
  MaxFaults = 2
SYMMETRY Symmetry
CHECK_DEADLOCK FALSE
INVARIANTS
  RowsAgree
  SignalsAnswerToEndings
  AnswersAreTrue
PROPERTIES
  RowsChangeVisibly
