SPECIFICATION Spec
CONSTANTS
  a1 = a1
  a2 = a2
  i1 = i1
  i2 = i2
  none = none
  Actors <- MCTwo
  Readers <- MCNobody
  Writers <- MCFirst
  Cleaners <- MCSecond
  Ids <- MCOneId
  NoId = none
  Sizes <- MCOneSize
  MaxTotal = 0
  MinFree = 0
  Capacity = 4
  OrphanAge = 1
  MaxNow = 1
  Failures = FALSE
  Mortal <- MCNobody
  PowerFails = FALSE
INVARIANTS
  CommitHitExists
