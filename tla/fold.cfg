CONSTANTS
  S = S
  A = A
  B = B
  W = W
  NoRule = NoRule
  Absent = Absent
  Rules <- MCRules
  Chars <- MCChars
  ItemTexts <- MCItemTexts
  Exprs <- MCExprs
  Grammars <- Acted
  Inputs <- InputsAB
  MaxParses = 1
SPECIFICATION FoldSpec
INVARIANTS FoldAgrees FoldReturns HooksFireInOrder
