SPECIFICATION Spec
CONSTANTS
  a = a
  n = n
  r = r
  da = da
  dr = dr
  dx = dx
  Signal = {n, r}
  Driver = {dr}
  Signal_Of <- MC_Signal_Of
  Resolved = {r}
  Direct = {}
  Started = {}
  Postponed = {}
  Activity = {}
  Value = {0, 1}
  Resolve <- MC_Resolve
  Delays = {0, 1}
  Last_Time = 1
  Callbacks = {"end_step"}
  Overrides <- MC_Force_Resolved
  Max_Overrides = 2
  No_Driver = No_Driver
INVARIANTS
  ForcedIsSaved
PROPERTIES
  ForceHolds
  TakenOnTime
CHECK_DEADLOCK FALSE
