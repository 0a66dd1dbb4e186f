CONSTANTS
  x = x
  y = y
  None = None
  X <- x
  Y <- y
  Rings <- MCRings
  Pos <- MCPos
  RingSpace = 8
  MaxEpoch = 2
  InitX <- MCInitY
  InitY <- MCInitX
SPECIFICATION Spec
CHECK_DEADLOCK FALSE
PROPERTY RebuttalReachesAccuser
