CONSTANTS
  l = l
  a = a
  b = b
  c = c
  None = None
  Local <- l
  Peers <- MCPeers
  Rings <- MCRings
  Pos <- MCPos
  RingSpace = 8
  MaxEpoch = 2
  Handlers <- MCHandlers2
  InitialView <- MCInitialView
  Items <- MCRaceItems
SPECIFICATION Spec
PROPERTY NoteEpochMonotone
