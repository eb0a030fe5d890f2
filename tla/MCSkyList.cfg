SPECIFICATION FairSpec
CONSTANTS
  n1 = n1  n2 = n2  n3 = n3
  a = a
  head = head  tail = tail
  NULL = NULL
  Node <- Nodes
  Value <- Values
  MaxSize = 3
  PreallocNum = 2
  MaxIndex = 4
INVARIANTS TypeOK WellLinked SparesLinked HeapPartition WalkOnList HeapBound
PROPERTIES ImplementsList WalksEnd
