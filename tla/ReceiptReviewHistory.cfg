\* Reviews beside the parser run they decide about.
SPECIFICATION ReviewSpec
CONSTANTS
  r1 = r1
  r2 = r2
  total = total
  v0 = v0
  v1 = v1
  Receipts = {r1}
  Imported = {r1}
  Fields = {total}
  Values = {v0, v1}
  Placeholder <- Blank
  MaxVersion = 3
  MaxSubmissions = 1
PROPERTY
  ReviewClosesHistory
