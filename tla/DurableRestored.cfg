\* An older copy takes the place of the file, and both go on: three handles and four calls of one process.
SPECIFICATION Spec
CONSTANTS
  agent = agent  k1 = k1  k2 = k2  None = None  Blank = Blank  Read = Read
  Principals = {agent}
  Kind <- Kinds
  Keys = {k1, k2}
  Bodies = {"reserve"}
  Lane <- Lanes
  Accepts <- AffordsTwo
  Submissions <- TwoSubmissions
  Capacity = 1
  Requests <- LedgerRequests
  Effect <- Execute
  Bundles <- LedgerBundles
  MaxAudit = 1
  Processes = {p1}
  Handles = {h1, h2, h3}
  Calls = {c1, c2, c3, c4}
  Inodes = {i1, i2}
  Watched = {}
INVARIANTS PinnedOpenLosesNothing
CONSTRAINT OneByOne
CHECK_DEADLOCK FALSE
