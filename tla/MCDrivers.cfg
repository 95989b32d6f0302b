SPECIFICATION Spec
CONSTANTS
  a = a
  n = n
  r = r
  da = da
  dr = dr
  dx = dx
  Signal = {a, r}
  Driver = {da, dr, dx}
  Signal_Of <- MC_Signal_Of
  Resolved = {r}
  Direct = {dx}
  Started = {dx}
  Postponed = {da}
  Activity = {}
  Value = {0, 1}
  Resolve <- MC_Resolve
  Delays = {0, 1, 2}
  Last_Time = 2
  Callbacks = {"last_known"}
  Overrides <- MC_No_Overrides
  Max_Overrides = 0
  No_Driver = No_Driver
INVARIANTS
  TypeOK
  DriverValueVisible
  SkipHarmless
  NoOverdueTransaction
  ActiveChainExact
PROPERTIES
  ImplementsWaveforms
CHECK_DEADLOCK FALSE
