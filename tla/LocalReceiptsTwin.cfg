\* The same file imported for two receipts.
SPECIFICATION Spec
CONSTANTS
  r1 = r1
  r2 = r2
  h1 = h1
  h2 = h2
  d1 = d1
  Receipts = {r1, r2}
  Images = {}
  Content <- SameContent
  Deletions = {d1}
  MaxVersion = 1
  MaxCrashes = 0
INVARIANT
  OriginalsAreDistinct
