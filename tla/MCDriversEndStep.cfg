SPECIFICATION Spec
CONSTANTS
  a = a
  n = n
  r = r
  da = da
  dr = dr
  dx = dx
  Signal = {a}
  Driver = {da}
  Signal_Of <- MC_Signal_Of
  Resolved = {}
  Direct = {}
  Started = {}
  Postponed = {}
  Activity = {}
  Value = {0, 1}
  Resolve <- MC_Resolve
  Delays = {0, 1, 2}
  Last_Time = 3
  Callbacks = {"end_step"}
  Overrides <- MC_No_Overrides
  Max_Overrides = 0
  No_Driver = No_Driver
INVARIANTS
  ActiveMeansDelta
CHECK_DEADLOCK FALSE
