\* Two processes, two handles and three calls on one file, which holds two records of the three that fit in a chain.
SPECIFICATION Spec
CONSTANTS
  agent = agent  k1 = k1  k2 = k2  None = None  Blank = Blank  Read = Read
  Principals = {agent}
  Kind <- Kinds
  Keys = {k1, k2}
  Bodies = {"reserve"}
  Lane <- Lanes
  Accepts <- AffordsTwo
  Submissions <- ThreeSubmissions
  Capacity = 3
  Requests <- LedgerRequests
  Effect <- Execute
  Bundles <- LedgerBundles
  MaxAudit = 2
  Processes = {p1, p2}
  Handles = {h1, h2}
  Calls = {c1, c2, c3}
  Inodes = {i1}
  Watched = {i1}
SYMMETRY Symmetry
INVARIANTS TypeOK NoLostUpdate AckedIsDurable LockNeverLeaks AppliedOnceOnDisk StoredLedgerReplays
PROPERTIES QuarantinedNeverAnswers LedgerOnlyGrows
CHECK_DEADLOCK FALSE
