SPECIFICATION Spec
CONSTANTS
  wA = wA
  wB = wB
  r1 = r1
  r2 = r2
  None = None
  Journeys = {wA, wB}
  RefundIds = {r1, r2}
  Amount <- EqualAmounts
  Paid <- PaymentOfFour
  MaxAttempts = 1
INVARIANTS
  SuccessIsSettled
CHECK_DEADLOCK FALSE
