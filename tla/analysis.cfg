CONSTANTS
  Names = {a, b, c}
  NTs = {p, q, r}
  Objs = {g}
  None = None
SPECIFICATION AnalysisSpec
INVARIANTS CallTypeOK UnreachableAreDead EdgesOnce
PROPERTIES AnalysisReturns
