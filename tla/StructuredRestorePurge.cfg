\* Delete-all while a restore goes on under an import that has navigated.
SPECIFICATION RestoreSpec
CONSTANTS
  r1 = r1
  r2 = r2
  h1 = h1
  h2 = h2
  d1 = d1
  a1 = a1
  a2 = a2
  Receipts = {r1}
  Images = {}
  Content <- TwoContents
  Deletions = {}
  Restores = {a1}
  MaxVersion = 1
  MaxCrashes = 0
PROPERTY
  RestoredHaveBytes
