SPECIFICATION Spec
CONSTANTS
  Letters = {"a", "b"}
  Eols <- MC_Eols
  Inserts <- MC_Inserts
  Files <- MC_Files
  Initial_Gap = 2
  Max_Length = 4
  Max_Gap_Size = 4
  Assertions = TRUE
CHECK_DEADLOCK FALSE
INVARIANTS
  BufferSound
  ContentMirrors
  PositionsExact
  LookupExact
  FailsOnlyIfFull
