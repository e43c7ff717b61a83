SPECIFICATION Spec
CONSTANTS
  None = None
  Bad = Bad
  UserKey = "user"
  Cases <- MCCases
INVARIANTS
  NotFoundMeansAbsent
  DocumentFromTheItem
  OrderIrrelevant
  WholeDocument
  PropertyAgreesWithDocument
  PropertyUnambiguous
CHECK_DEADLOCK FALSE
