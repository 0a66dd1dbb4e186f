CONSTANTS
  d1 = d1
  x = x
  y = y
  None = None
  RingNums <- MCRingNums
  DataIds <- MCDataIds
  Blobs <- MCBlobs
SPECIFICATION Spec
CHECK_DEADLOCK FALSE
INVARIANT ShutDownOrder
