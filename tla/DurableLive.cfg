\* Liveness, without symmetry, and the refinement: two calls, a reader, and a file that is replaced by an older copy.
SPECIFICATION Spec
CONSTANTS
  agent = agent  k1 = k1  k2 = k2  None = None  Blank = Blank  Read = Read
  Principals = {agent}
  Kind <- Kinds
  Keys = {k1, k2}
  Bodies = {"reserve"}
  Lane <- Lanes
  Accepts <- AffordsTwo
  Submissions <- OneSubmission
  Capacity = 1
  Requests <- LedgerRequests
  Effect <- Execute
  Bundles <- LedgerBundles
  MaxAudit = 1
  Processes = {p1, p2}
  Handles = {h1, h2}
  Calls = {c1, c2}
  Inodes = {i1, i2}
  Watched = {i1}
PROPERTIES CallsSettle ImplementsAtomicLedger
CHECK_DEADLOCK FALSE
