SPECIFICATION Spec
CONSTANTS
  a1 = a1
  a2 = a2
  loc = loc
  b0 = b0
  b1 = b1
  b2 = b2
  b3 = b3
  b4 = b4
  b5 = b5
  BlocksByAddress <- MCOneAddress
  Local = loc
  None = None
  MaxBytes = 10
  MaxReqs = 2
  MaxBlocks = 2
  External = {b1, b3}
  MayCorrupt = {b2, b3, b5}
  Faults = {"fetch", "local", "stream", "wrap", "storage", "kill"}
  KeepsOpen = TRUE
INVARIANTS ReleasedOnce AddressLimited
PROPERTY BlockFetchSpec
