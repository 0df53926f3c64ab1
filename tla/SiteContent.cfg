CONSTANTS
  Syncs = {s1, s2}
  Slugs = {one}
  Parts <- TwoParts
  Words = {w1, w2}
  Markups = {u1}
  Drafts = {d1}
  None = none
  Ids = {i1, i2}
  Posts = {p1, p2}
  Addresses = {a, b}
  Mirrored = {a, b}
  Editors = {e1}
  PageSize = 1
SPECIFICATION SiteSpec
SYMMETRY Symmetry
INVARIANTS
  HashTellsText
  CleanSyncCurrent
  ImportMirrors
  ListingsMirrored
PROPERTY DraftsStay
CHECK_DEADLOCK FALSE
