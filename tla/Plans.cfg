SPECIFICATION PartSpec
CONSTANTS
  Flows <- AllFlows
  None = None
  a = a
  b = b
  a1 = a1
  a2 = a2
  b1 = b1
  n1 = n1
  n2 = n2
INVARIANTS
  VerdictsAreReal
  PlansAreExact
  ScanMeansShape
PROPERTIES
  AcceptedIsDrivenToTheEnd
CHECK_DEADLOCK FALSE
