CONSTANTS
  Uds = {u1, u2}
  Blocks = {b1, b2}
  MaxRef = 2
  MaxJavaRef = 1
  MaxPass = 2
  Null = Null
SPECIFICATION FairSpec
INVARIANTS
  TypeOK
  InUseIsCached
  RefCountIsBlocks
  
PROPERTY UnusedIsReleased
CHECK_DEADLOCK FALSE
