\* Four pictures for a cache of two.
SPECIFICATION CacheSpec
CONSTANTS
  Paths = {p1, p2, p3, p4}
  Limit = 2
  Ids = {1, 2, 3}
INVARIANTS DrawnTextureExists NothingLeaks
PROPERTIES RedrawLoadsNothing
