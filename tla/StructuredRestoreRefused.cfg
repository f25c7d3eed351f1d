\* A restore that is retried after a crash in the middle of a file.
SPECIFICATION PatientRestoreSpec
CONSTANTS
  r1 = r1
  r2 = r2
  h1 = h1
  h2 = h2
  d1 = d1
  a1 = a1
  a2 = a2
  Receipts = {r1}
  Images = {}
  Content <- TwoContents
  Deletions = {d1}
  Restores = {a1}
  MaxVersion = 1
  MaxCrashes = 1
PROPERTY
  RetryIsNotRefused
