CONSTANTS
  S = S
  A = A
  B = B
  W = W
  NoRule = NoRule
  Absent = Absent
  Rules <- MCRules
  Chars <- MCChars
  ItemTexts <- MCItemTexts
  Exprs <- MCExprs
  Grammars <- SharedLexeme
  Inputs <- InputsShared
  MaxParses = 1
SPECIFICATION Spec
INVARIANT ParseAgrees
