CONSTANTS
  S = S
  A = A
  B = B
  W = W
  NoRule = NoRule
  Absent = Absent
  Rules <- MCRules
  Chars <- MCChars
  ItemTexts <- MCItemTexts
  Exprs <- MCExprs
  Grammars <- Families
  Inputs <- FamilyInputs
  MaxParses = 1
SPECIFICATION FamilySpec
INVARIANTS
  ParseAgrees MemoSound TreesCoverTheirMatch LrStackMirrorsCalls NoRuleReentered
  CutScopesBalanced ExpectedLiteralsAbsent NoSkipInsideLexeme SkipResumes
  FailuresReported RulesGiveMeanings
PROPERTIES RecoveredOnce AnswersKept
