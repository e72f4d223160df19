SPECIFICATION Spec
CONSTANTS
  wA = wA
  wB = wB
  r1 = r1
  r2 = r2
  None = None
  Journeys = {wA}
  RefundIds = {r1, r2}
  Amount <- WholePayment
  Paid <- PaymentOfFour
  MaxAttempts = 3
INVARIANTS
  FailureIsUnpaid
CHECK_DEADLOCK FALSE
