\* A bundle with an artifact whose absolute path is the reserved one.
SPECIFICATION Spec
CONSTANTS
  Missing = Missing
  Garbage = Garbage
  Blank = Blank
  Throws = Throws
  ReservedPath = "envelope.json"
  Escaping = {"../outside"}
  Values <- MCValues
  Relative <- MCRelative
  Normalized <- MCNormalized
  Trimmed <- MCTrimmed
  Orders <- MCOrders
  LegacyOrders <- MCLegacyOrders
  BundleOrders <- MCAliasOrders
  Contexts <- MCContexts
  Alternatives <- MCAlternatives
  ArtifactAlternatives <- MCArtifactAlternatives
  EnvelopeAlternatives <- MCEnvelopeAlternatives
  Parts <- MCParts
  Disk <- MCDisk
  MaxSteps = 1
INVARIANTS CollisionsAreRefused
CHECK_DEADLOCK FALSE
