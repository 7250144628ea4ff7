SPECIFICATION Spec
CONSTANTS
  Clients = {c1, c2}
  AbortIDs = {a1, a2}
  NoAbort = NoAbort
  MaxRevision = 2
  MaxClaims = 2
INVARIANTS
  TerminatedAsOneBatch
  AnswersAreFinal
PROPERTY
  ImplementsContract
