CONSTANTS
  Positions <- MCPositions
  Pinned <- MCPinned
SPECIFICATION Spec
INVARIANT RingSorted
INVARIANT InsertThenSearch
INVARIANT SearchAgreesWithRing
