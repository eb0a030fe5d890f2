SPECIFICATION Spec
CONSTANTS
  None = None
  \* a January and a July
  Moments = {978307199, 994291200}
  Microseconds = {1999}
  Zones <- Berlin
INVARIANTS DstflagTells
