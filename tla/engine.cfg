CONSTANTS
  S = S
  A = A
  B = B
  W = W
  NoRule = NoRule
  Absent = Absent
  Rules <- MCRules
  Chars <- MCChars
  ItemTexts <- MCItemTexts
  Exprs <- MCExprs
  Grammars <- Sampler
  Inputs <- InputsAB
  MaxParses = 2
SPECIFICATION Spec
INVARIANTS TypeOK FailRestoresPosition ParseAgrees
PROPERTIES ParseTerminates RecoveredOnce
