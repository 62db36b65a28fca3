SPECIFICATION HopSpec
CONSTANTS
  r1 = r1
  r2 = r2
  k1 = k1
  k2 = k2
  k3 = k3
  None = None
  Requests <- MCOne
  Keys <- MCKeys
  Pool <- MCMixedPool
  References <- MCReferences
  Order <- MCOrder
  Keyed <- MCKeyed
  Readers <- MCReaders
  Weight <- MCWeight
  StickyLimit = 2
  MaxEdits = 0
INVARIANT FailedKeyIsCooled
CHECK_DEADLOCK FALSE
