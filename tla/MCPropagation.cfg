SPECIFICATION Spec
CONSTANTS
  Designs <- MC_Designs
  Resolve <- MC_Resolve
  Last_Time = 2
INVARIANTS
  TypeOK
  ActivityScheduled
  NetsSettled
  ImplicitExact
CHECK_DEADLOCK FALSE
