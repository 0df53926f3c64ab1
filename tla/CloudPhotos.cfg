CONSTANTS
  Requests = {q1, q2}
  Contents = {c1, c2}
  NoContent = none
  dhash <- Hashes2
  MaxUrls = 2
  MaxTokens = 2
  MaxFiles = 2
  MAX_CANDIDATE_PHOTOS = 3
  PACK_CACHE_MAX = 1
  Bits = {1, 2, 3}
  MaxGallery = 4
  NEAR_DUPLICATE_BITS = 1
  MAX_COLLAGE_PHOTOS = 2
  MAX_PACK_PHOTOS = 2
SPECIFICATION PhotosSpec
SYMMETRY Symmetry
INVARIANTS
  FilesAccounted
  TokenWorks
  PackShowsListed
  SelectsDiverse
CHECK_DEADLOCK FALSE
