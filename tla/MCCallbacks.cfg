SPECIFICATION FairSpec
CONSTANTS
  c1 = c1
  c2 = c2
  Callback = {c1, c2}
  Nop = Nop
  Nobody = Nobody
  Max_Cells = 3
  Last_Time = 2
INVARIANTS
  TypeOK
  HeapSound
PROPERTIES
  ImplementsQueue
  WalkEnds
CHECK_DEADLOCK FALSE
