SPECIFICATION Spec
CONSTANTS
  Word = 32768
  Word32 = 1024
  kNanosecondsPerSecond = 10
  Times = {25}
  CutPoints = {5, 9, 12, 14, 16}
INVARIANTS
  TruncationIsRejected
