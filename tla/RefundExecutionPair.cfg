SPECIFICATION Spec
CONSTANTS
  wA = wA
  wB = wB
  r1 = r1
  r2 = r2
  None = None
  Journeys = {wA, wB}
  RefundIds = {r1, r2}
  Amount <- DistinctAmounts
  Paid <- PaymentOfFour
  MaxAttempts = 1
SYMMETRY IdSymmetry
INVARIANTS
  EventsReachOwner
  SuccessIsSettled
  UnpaidUnlessRetryRefused
  LedgerMatchesProvider
PROPERTIES
  NoOutcomeReversal
CHECK_DEADLOCK FALSE
