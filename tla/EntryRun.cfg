SPECIFICATION RunSpec
CONSTANTS
  MaxRevision = 3
  LeafCount = 3
  Nodes <- MCNodes
  Root = "root"
  KindOf <- MCKindOf
  IdOf <- MCIdOf
  ChildrenOf <- MCChildrenOf
  TimesOf <- MCTimesOf
  Optional = {"maybe"}
  SpecOf <- MCSpecOf
  Selectors = {"b", "c"}
  Canonical <- MCCanonical
  Attempts = 2
INVARIANTS
  ResourcesReturned
  ReportIsTrue
  NumbersAreSound
  FactsAreTrue
  OverlayIsSound
PROPERTY
  NothingRunsOutside
