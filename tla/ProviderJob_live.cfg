SPECIFICATION FairSpec
CONSTANTS
  host = host
  other = other
  worker = worker
  helper = helper
  h1 = h1
  h2 = h2
  none = none
  Callers <- MCCallers
  Owner = host
  Worker = worker
  Helpers <- MCHelpers
  Hooks <- MCOneHook
  None = none
  MaxArms = 1
PROPERTIES
  CancelReachesHook
  OwnerCallsReturn
