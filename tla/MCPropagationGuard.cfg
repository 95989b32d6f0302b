SPECIFICATION Spec
CONSTANTS
  Designs <- MC_Guard
  Resolve <- MC_Resolve
  Last_Time = 2
INVARIANTS
  ActivityScheduled
CHECK_DEADLOCK FALSE
