CONSTANTS
  Groups = {g1, g2}
  Dispatches = {d1, d2}
  Concurrency = 1
  MaxPhotos = 1
SPECIFICATION FairSpec
INVARIANTS
  PhotosFollowCollage
  RetryOnlyUnacknowledged
CHECK_DEADLOCK FALSE
PROPERTIES DispatchesEnd
