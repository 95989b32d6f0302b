SPECIFICATION Spec
CONSTANTS
  p = p
  q = q
  r = r
  z = z
  s = s
  Proc = {p, q, z}
  Postponed = {q}
  Sensitized = {z}
  Signal = {s}
  Static_Sensitivity <- MC_Static
  Delays = {0, 1, 2}
  Last_Time = 2
  Stop_Time = 2
  Stop_Delta = 2
  End_Of_Time_Step = FALSE
  No_Process = No_Process
INVARIANTS
  NoInternalError
CHECK_DEADLOCK FALSE
