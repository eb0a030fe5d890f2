SPECIFICATION IpcSpec
CONSTANTS
  None = None
  Thread = {t1, t2}
  Handle = {g1, g2}
  \* the locks
  Inode = {i1}
  SharedHandles = FALSE
  Modulus = 6
  Nap = 1
  Slack = 1
  Timeouts = {2}
  \* shared memory, with a registry that is full with one handle
  Proc = {p1}
  Name = {n}
  Object = {o1}
  MaxCount = 1
INVARIANTS HeldUntilReleased TimeoutKept
PROPERTIES CallsEnd
