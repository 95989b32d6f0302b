SPECIFICATION FairSpec
CONSTANTS
  p = p
  q = q
  r = r
  z = z
  s = s
  Proc = {p, q, r, z}
  Postponed = {q}
  Sensitized = {z}
  Signal = {s}
  Static_Sensitivity <- MC_Static
  Delays = {0, 1, 2}
  Last_Time = 3
  Stop_Time = 2
  Stop_Delta = 2
  End_Of_Time_Step = TRUE
  No_Process = No_Process
INVARIANTS
  TypeOK
  TimeoutChainSound
  FirstTimeoutExact
  NoMissedDeadline
  ResumeTablesSound
  TablesFit
PROPERTIES
  ImplementsLRM
  Terminates
CHECK_DEADLOCK FALSE
