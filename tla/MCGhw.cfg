SPECIFICATION Spec
CONSTANTS
  Group = 2
  Prefix_Group = 1
  Word = 6
  Long = 12
  Buffer = 4
  Designs <- Valid_Designs
  Net_Values <- MC_Net_Values
CHECK_DEADLOCK FALSE
INVARIANTS
  TypeOK
  ChangedExact
  HierarchyFaithful
  
  DirectoryExact
PROPERTIES
  ImplementsHistory
