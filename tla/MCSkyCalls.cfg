SPECIFICATION CallsSpec
CONSTANTS
  None = None
  \* the critical section
  Thread = {t1, t2, t3}
  MaxDepth = 4
  \* the anonymous lock: a second of three milliseconds
  RwThread = {t1, t2}
  Second = 3
  Timeouts = {4}
  Slack = 1
  MaxRead = 1
  Jumps <- BothWays
  MaxJumps = 1
  \* every expression with at most one group and no empty match on a text of
  \* two characters, and matches counted modulo a small number
  Length = 2
  MaxGroups = 1
  EmptyMatch = FALSE
  ShorterFirst = FALSE
  MaxMatch = 2
  Memory = 6
  Modulus = 16
  \* routing tables of up to three routes, and a buffer that holds two of them,
  \* the end of a dump, and half a route
  Fd = {0, 1, 2}
  StdinOpen = TRUE
  MaxRoutes = 3
  RouteSize = 4
  Buffer = 10
  DoneApart = TRUE
  \* up to three users of the library, and two calls of sky_uninit too many
  MaxCount = 3
  MaxSurplus = 2
INVARIANTS BeliefIsMutex ParseIsFindall NothingLeaks LibraryRuns
PROPERTIES ImplementsLock RwlockImplementsLock RwlockKeepsTime GatewayFound CallsReturn
