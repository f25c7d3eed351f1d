\* What is begun is completed, across a crash and any finite run of failures.
SPECIFICATION FairSpec
CONSTANTS
  r1 = r1
  r2 = r2
  h1 = h1
  h2 = h2
  d1 = d1
  Receipts = {r1}
  Images = {}
  Content <- TwoContents
  Deletions = {d1}
  MaxVersion = 1
  MaxCrashes = 1
PROPERTIES
  PendingFilesAreRemoved
  DeleteAllCompletes
