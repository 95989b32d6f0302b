SPECIFICATION Spec
CONSTANTS
  Designs <- MC_Next_Delta
  Resolve <- MC_Resolve
  Last_Time = 2
INVARIANTS
  ImplicitExact
CHECK_DEADLOCK FALSE
