SPECIFICATION Spec
CONSTANTS
  a1 = a1
  a2 = a2
  i1 = i1
  i2 = i2
  none = none
  Actors <- MCTwo
  Readers <- MCTwo
  Writers <- MCTwo
  Cleaners <- MCSecond
  Ids <- MCOneId
  NoId = none
  Sizes <- MCOneSize
  MaxTotal = 1
  MinFree = 4
  Capacity = 4
  OrphanAge = 1
  MaxNow = 1
  Failures = TRUE
  Mortal <- MCFirst
  PowerFails = TRUE
INVARIANTS
  CacheInv
  FilesStayWhole
PROPERTIES
  LeasePinsFile
