SPECIFICATION Spec
CONSTANTS
  a1 = a1  a2 = a2
  None = None
  Address = {a1, a2}
  KeysBits = {2, 9, 4242}
INVARIANTS MapClosed
