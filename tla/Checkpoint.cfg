\* A ledger of two records, two signed receipts and two revisions of the trust bundle.
SPECIFICATION Spec
CONSTANTS
  Missing = Missing
  Garbage = Garbage
  Blank = Blank
  Throws = Throws
  Escaping = {}
  Values <- MCValues
  Relative <- MCRelative
  Genesis = {"g0", "g1"}
  Events = {e1, e2}
  Elsewhere <- MCElsewhere
  Orders <- MCOrders
  Retentions <- MCRetentions
  Policies <- MCPolicies
  Adapters = {"engine", "counting", "elsewhere", "invalid"}
  CheckpointAlternatives <- MCCheckpointAlternatives
  ReceiptAlternatives <- MCReceiptAlternatives
  TrustAlternatives <- MCTrustAlternatives
  MaxEvents = 2
  MaxReceipts = 2
  MaxDocuments = 3
  MaxMishaps = 1
SYMMETRY EventsAlike
INVARIANTS SourceReadUnderPinnedPolicy ComparisonIsExact
CHECK_DEADLOCK FALSE
