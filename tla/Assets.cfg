SPECIFICATION PartSpec
CONSTANTS
  None = "none"
  MaxRevision = 3
  MaxVersion = 3
  Assets = {"env", "frag", "flow"}
  KindOf <- MCKindOf
  Callers = {c1, c2}
  Requests <- MCRequests
  First <- MCFirst
  MaxSent = 3
  Publishers = {u1, u2}
  Editors = {"e1"}
  Pubs = {"p1", "p2"}
  Plan <- MCPlan
  Targets = {"n1", "n2"}
  EditIDs = {"w"}
  FirstTargets <- MCTargets
  Times = {1}
  MaxIssued = 2
SYMMETRY Alike
INVARIANTS
  AnswersAreTrue
PROPERTIES
  ChangesAreAtomic
  HistoriesAreKept
  PublicationsAreSound
CHECK_DEADLOCK FALSE
