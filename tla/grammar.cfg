CONSTANTS
  Names = {a, b}
  NTs = {p, q, r}
  Objs = {g, h}
  None = None
SYMMETRY Symmetries
SPECIFICATION Spec
INVARIANTS
  StoreTypeOK SoleOwner NamesMatchPointers SkipperLives ParseStaysInside
PROPERTIES HandlesStayValid
