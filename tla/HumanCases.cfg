SPECIFICATION Spec
CONSTANTS
  Staff <- TwoStaff
  Role <- TwoRoles
  Keys = {k1, k2}
  MaxVersion = 4
  MaxRequests = 1
INVARIANTS
  TypeOK
  OneDecision
  DecidedKnowingly
PROPERTIES
  ClaimantHasRole
  DecisionStands
SYMMETRY KeysAreAlike
CHECK_DEADLOCK FALSE
