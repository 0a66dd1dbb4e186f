CONSTANTS
  l = l
  a = a
  b = b
  c = c
  None = None
  Local <- l
  Peers <- MCPeers
  Rings <- MCRings
  Pos <- MCPos
  RingSpace = 8
  MaxEpoch = 2
  Handlers <- MCHandlers1
  InitialView <- MCInitialView
  Items <- MCItems
SPECIFICATION Spec
INVARIANT StaleAccusationRejected
