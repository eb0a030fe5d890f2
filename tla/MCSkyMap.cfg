SPECIFICATION Spec
CONSTANTS
  m1 = m1  m2 = m2
  k1 = k1  k2 = k2
  a = a  b = b
  NULL = NULL
  Map = {m1, m2}
  Key <- Keys
  Value <- Values
  Accepted <- MostPairs
  MaxBlock = 5
CONSTRAINT OneMapOrValue
SYMMETRY Symmetry
INVARIANTS StringsOwned VectorsSized FilterHonoured PointerKept
PROPERTIES ImplementsMap
