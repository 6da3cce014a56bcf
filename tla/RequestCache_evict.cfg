SPECIFICATION Spec
CONSTANTS
  a1 = a1
  a2 = a2
  i1 = i1
  i2 = i2
  none = none
  Actors <- MCTwo
  Readers <- MCFirst
  Writers <- MCFirst
  Cleaners <- MCSecond
  Ids <- MCTwoIds
  NoId = none
  Sizes <- MCTwoSizes
  MaxTotal = 2
  MinFree = 1
  Capacity = 4
  OrphanAge = 1
  MaxNow = 1
  Failures = TRUE
  Mortal <- MCNobody
  PowerFails = FALSE
PROPERTIES
  StopsAtBudget
