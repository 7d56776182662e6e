\* Up to three documents, or one document with two changes.
SPECIFICATION Spec
CONSTANTS
  Missing = Missing
  Garbage = Garbage
  Blank = Blank
  Throws = Throws
  ReservedPath = "envelope.json"
  Escaping = {"../outside"}
  Values <- MCValues
  Relative <- MCRelative
  Normalized <- MCNormalized
  Trimmed <- MCTrimmed
  Orders <- MCOrders
  LegacyOrders <- MCLegacyOrders
  BundleOrders <- MCBundleOrders
  Contexts <- MCContexts
  Alternatives <- MCAlternatives
  ArtifactAlternatives <- MCArtifactAlternatives
  EnvelopeAlternatives <- MCEnvelopeAlternatives
  Parts <- MCParts
  Disk <- MCDisk
  MaxSteps = 3
INVARIANTS TrustedIsWhatWasSigned InclusionProofs SerialisedReceiptsVerify AuthoritativeIsSigned
CHECK_DEADLOCK FALSE
