SPECIFICATION FairSpec
CONSTANTS
  Keys = {k1, k2}
  Requests = {u1, u2}
  Sizes = {1, 2}
  MaxPhotos = 2
  MaxSetBytes = 3
  MaxAttempts = 2
  MaxUploads = 1
INVARIANTS
  SetWithinLimit
  DecodersBounded
  HeldStaysTrue
  FilesFollowRecord
PROPERTIES
  AcceptedWasShown
  UploadsSettle
