CONSTANTS
  n1 = n1  n2 = n2
  ConnCount = 2
  Notes = {n1, n2}
  Blocks <- MCBlocks
  Parsable = {n1, n2}
  Type <- MCType
  Fits <- MCFits
  Digest <- MCDigest
  Secret = TRUE
  MaxBody = 2
  Tries <- MCTries
  Faults = {"close", "handler", "write", "accept", "crash"}
SPECIFICATION Spec
INVARIANTS TypeOK OnlyGenuineHandled HandledAgainOnlyUnanswered
PROPERTIES TasksEnd
CHECK_DEADLOCK FALSE
