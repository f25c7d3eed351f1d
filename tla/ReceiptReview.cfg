\* An imported receipt beside another, one suggested field.
SPECIFICATION ReviewSpec
CONSTANTS
  r1 = r1
  r2 = r2
  total = total
  v0 = v0
  v1 = v1
  Receipts = {r1, r2}
  Imported = {r1}
  Fields = {total}
  Values = {v0, v1}
  Placeholder <- Blank
  MaxVersion = 3
  MaxSubmissions = 1
INVARIANTS
  ReviewTypeOK
  ValueIsExplained
PROPERTIES
  DecidedOnce
  NoLostUpdate
  DecisionsComeWithTheUpdate
  TombstoneIsFrozen
