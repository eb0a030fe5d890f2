SPECIFICATION Spec
CONSTANTS
  p1 = p1  p2 = p2
  t1 = t1  t2 = t2  t3 = t3
  o1 = o1  o2 = o2
  g1 = g1  g2 = g2
  None = None
  Proc = {p1, p2}
  Thread <- Threads
  ProcOf <- TwoProcesses
  Name = {n}
  Object = {o1, o2}
  Handle = {g1, g2}
  MaxCount = 2
SYMMETRY Symmetry
INVARIANTS RegistryLive TeardownExclusive RegistryLocked MappingBacked CreatorKeepsName NameOwned
