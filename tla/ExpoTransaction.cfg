\* The evidence of an import beside another transaction, two rows each.
SPECIFICATION ConnectionSpec
CONSTANTS
  evidence = evidence
  classification = classification
  Transactions = {evidence, classification}
  Statements = 2
CHECK_DEADLOCK FALSE
INVARIANT
  ThrownLeavesNothing
