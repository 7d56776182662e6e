\* Spending: two assignments compete for the budget, no earnings.
SPECIFICATION SpecApply
CONSTANTS
  w1 = w1  w2 = w2  s1 = s1  s2 = s2  alice = alice  bob = bob  v1 = v1  v2 = v2  None = None
  Works = {w1, w2}
  Scopes = {s1, s2}
  Customers = {alice, bob}
  Revisions = {v1, v2}
  Listing <- SpendListing
  Scope <- TwoScopes
  Opening = 5
  Reserve = 1
  SpendBudget = 3
  AttemptIds = {a1, a2, a3}
  PaymentIds = {}
  ReceiptIds = {r1, r2}
  Amounts = {1, 2}
  Sequences = {1, 2}
  Ticks = {1}
SYMMETRY Symmetry
INVARIANTS TypeOK HeldCoversInFlight SpendWithinCeiling InvoiceBindsAcceptedDelivery AccountingInvariant
