\* Earning, refunds and disputes: the one assignment, two payments, a refund with retries.
SPECIFICATION SpecApply
CONSTANTS
  w1 = w1  w2 = w2  s1 = s1  s2 = s2  alice = alice  bob = bob  v1 = v1  v2 = v2  None = None
  Works = {w1}
  Scopes = {s1}
  Customers = {alice}
  Revisions = {v1, v2}
  Listing <- EarnListing
  Scope <- OneScope
  Opening = 2
  Reserve = 1
  SpendBudget = 2
  AttemptIds = {a1, a2}
  PaymentIds = {p1, p2}
  ReceiptIds = {r1, r2, r3, r4}
  Amounts = {1, 2}
  Sequences = {1, 2}
  Ticks = {}
SYMMETRY Symmetry
INVARIANTS TotalsMatchRail NeverOverpaid RefundBinding ReceiptsAreHistory
