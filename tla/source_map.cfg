CONSTANTS
  PageSize = 2
  Files <- MCFiles
  Objs = {o1, o2}
  None = None
  Garbage <- MCGarbage
  Newline <- MCNewline
  Return <- MCReturn
  SizeMod = 8
SYMMETRY Symmetry
SPECIFICATION MapSpec
INVARIANTS LookupsAgree LinesAgree LineContentAgrees BuffersMatchFile OneOwner
PROPERTY ImplementsInputSource
