SPECIFICATION Spec
CONSTANTS
  t1 = t1  t2 = t2
  g1 = g1  g2 = g2  g3 = g3
  i1 = i1  i2 = i2
  None = None
  Thread = {t1, t2}
  Handle = {g1}
  Inode = {i1}
  SharedHandles = TRUE
  Modulus = 2
  Nap = 1
  Slack = 0
  Timeouts = {}
INVARIANTS PthreadExclusion
