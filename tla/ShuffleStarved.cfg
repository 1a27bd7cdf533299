SPECIFICATION Spec
CONSTANTS
  a1 = a1
  a2 = a2
  loc = loc
  b0 = b0
  b1 = b1
  b2 = b2
  b3 = b3
  b4 = b4
  b5 = b5
  BlocksByAddress <- MCPairs
  Local = loc
  None = None
  MaxBytes = 10
  MaxReqs = 2
  MaxBlocks = 2
  External = {b1}
  MayCorrupt = {}
  Faults = {}
  KeepsOpen = FALSE
INVARIANT NeverStarved
