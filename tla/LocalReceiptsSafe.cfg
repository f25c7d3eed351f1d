\* One receipt with its original and its preview, every kind of pass, a crash.
SPECIFICATION Spec
CONSTANTS
  r1 = r1
  r2 = r2
  h1 = h1
  h2 = h2
  d1 = d1
  Receipts = {r1}
  Images <- OneImage
  Content <- TwoContents
  Deletions = {d1}
  MaxVersion = 2
  MaxCrashes = 1
INVARIANTS
  TypeOK
  ActiveKeepsFile
  MarkedIsGone
  NoBytesLostSilently
  IntentBlocksNormalUse
PROPERTIES
  PurgeForgetsNoFile
  KeepsPromise
