SPECIFICATION Spec
CONSTANTS
  h1 = h1
  h2 = h2
  Handles <- MCHandles
  Width = 4
  FirstCapacity = 1
  MaxBorn = 5
INVARIANTS
  ModuleInv
  StaleNeverResolves
  NoUseAfterDelete
  HostAndModuleAgree
SYMMETRY MCSymmetry
