\* An image and a video, two scans that overlap and can be killed.
SPECIFICATION Spec
CONSTANTS
  Paths = {p1, v1}
  Videos = {v1}
  Contents = {c1}
  Scanners = {x1, x2}
  Partial = Partial
  None = None
SYMMETRY Symmetry
INVARIANTS IndexedHasThumbnail FavoriteIsTheUsersChoice ScanSettles
