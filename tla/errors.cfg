CONSTANTS
  Inputs = {0, 1}
  Failing <- MCFailing
  CharSizes = {1, 4}
  MaxFailures = 3
SPECIFICATION Spec
INVARIANTS StrictlySorted NothingMerged
PROPERTY ImplementsFailureLog
