\* Shortfalls: the reward of one assignment pays for the other.
SPECIFICATION Spec
CONSTANTS
  w1 = w1  w2 = w2  s1 = s1  s2 = s2  alice = alice  bob = bob  v1 = v1  v2 = v2  None = None
  Works = {w1, w2}
  Scopes = {s1}
  Customers = {alice}
  Revisions = {v1, v2}
  Listing <- ShortfallListing
  Scope <- OneScope
  Opening = 1
  Reserve = 1
  SpendBudget = 2
  AttemptIds = {a1, a2}
  PaymentIds = {p1}
  ReceiptIds = {r1, r2, r3, r4}
  Amounts = {1, 2}
  Sequences = {1, 2}
  Ticks = {}
SYMMETRY Symmetry
INVARIANTS ReserveUntouched AvailableClosedForm
PROPERTIES OnlyCustomersCauseShortfall ObservationsAreFunded
