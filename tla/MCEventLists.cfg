SPECIFICATION Spec
CONSTANTS
  Signal = {s, t}
  Plain = {p, q}
  Sensitized = {r}
  Max_Sensitivity = 2
SYMMETRY Symmetry
INVARIANTS
  TypeOK
  EventListsSound
  CellsAccountedFor
PROPERTIES
  ImplementsSensitivity
