SPECIFICATION FairSpec
CONSTANTS
  Validity = 2
  EvidenceWindow = 3
  PollInterval = 1
  PollsPerRun = 2
  MaxSignals = 2
INVARIANTS
  PaidOnlyWhenAuthorized
  CaseDecisionHonoured
  NoCaseLeftOpen
  SomebodyCanDecide
PROPERTIES
  KeepsPromise
  CollectionEnds
  ConfirmationEnds
  LapsedOfferNeverPays
CHECK_DEADLOCK FALSE
