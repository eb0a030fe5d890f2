SPECIFICATION Spec
CONSTANTS
  None = None
  \* expressions that Python reads as regexec does but for where a text begins
  Length = 2
  MaxGroups = 0
  EmptyMatch = FALSE
  ShorterFirst = FALSE
  MaxMatch = 2
  Memory = 4
  Modulus = 16
INVARIANTS ParseLikePython
