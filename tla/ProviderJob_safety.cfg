SPECIFICATION Spec
CONSTANTS
  host = host
  other = other
  worker = worker
  helper = helper
  h1 = h1
  h2 = h2
  none = none
  Callers <- MCCallers
  Owner = host
  Worker = worker
  Helpers <- MCHelpers
  Hooks <- MCHooks
  None = none
  MaxArms = 2
INVARIANTS
  IInv
  NothingRunsLate
PROPERTIES
  HookRunsOnce
  ImplementsContract
