SPECIFICATION FairSpec
CONSTANTS
  Journeys = {j1, j2}
  BatchSize = 1
  MaxFaults = 2
INVARIANTS
  DeliveredMeansReceived
PROPERTIES
  DecisionsArrive
