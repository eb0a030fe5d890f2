SPECIFICATION Spec
CONSTANTS
  t1 = t1  t2 = t2
  g1 = g1  g2 = g2  g3 = g3
  i1 = i1  i2 = i2
  None = None
  Thread = {t1, t2}
  Handle = {g1, g2, g3}
  Inode = {i1, i2}
  SharedHandles = FALSE
  Modulus = 3
  Nap = 1
  Slack = 0
  Timeouts = {1}
SYMMETRY Symmetry
INVARIANTS CreatorKeepsFile
PROPERTIES ImplementsLock
