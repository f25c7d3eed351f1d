\* Restore: a receipt with one original, a crash.  Labels: one category, one
\* tag, one name, two panels.  Form: six bills of a cafe.  Backup: two keys,
\* two list screens, sizes around the limits.  Archive: two receipts, one
\* damage.  Views: two expenses, two questions.  Launch: two releases, three
\* launches.
SPECIFICATION DeviceSpec
CONSTANTS
  r1 = r1
  h1 = h1
  d1 = d1
  a1 = a1
  x1 = x1
  x2 = x2
  y1 = y1
  y2 = y2
  c1 = c1
  t1 = t1
  m1 = m1
  Receipts = {r1}
  Images = {}
  Content <- OneContent
  Deletions = {d1}
  Restores = {a1}
  MaxVersion = 2
  MaxCrashes = 1
  CategoryIds = {c1}
  TagIds = {t1}
  LabelNames = {x1}
  Panels = {y1, y2}
  MaxClassified = 3
  MaxSafeInteger = 100000000
  Papers <- CafeBills
  MerchantNames = {"Cafe", "CAFE"}
  NormalName <- LowerCase
  Typed <- Zero
  Selected = {"JPY"}
  MaxEdits = 2
  MaxRevision = 3
  Keys = {x1, x2}
  Lists = {y1, y2}
  PlainSizes = {0, 1, 1073741824, 1073741825}
  HeaderSize = 300
  MaxBackups = 2
  Bills = {x1, x2}
  Merchants = {m1}
  Categories = {}
  Tags = {t1}
  MaxTime = 2
  MaxDamage = 1
  Schemas = {6, 8}
  Expenses = {x1, x2}
  Columns <- SmallColumns
  Drafts <- SmallDrafts
  Searches = {"", "ca"}
  Finds <- CafeBySyllable
  NoRow = NoRow
  All = All
  MaxAsked = 2
  MaxWritten = 1
  Releases = {6, 7}
  MaxLaunches = 3
CHECK_DEADLOCK FALSE
INVARIANTS
  DeviceTypeOK
  ActiveKeepsFile
  RestoreLosesNoBytes
  ActiveIsClassified
  BackupOpensWithShownKey
  ExportsUnlessTimesDisagree
  ReadsWhatWasExported
  ExpensesAreShownAsStored
  ReportAddsUp
  ReadyIsMigrated
PROPERTIES
  SaveReplacesWhatWasShown
  UntouchedIsOnPaper
  RefusalIsExplained
SYMMETRY Symmetric
