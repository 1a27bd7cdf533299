SPECIFICATION FairSpec
CONSTANTS
  a1 = a1
  a2 = a2
  loc = loc
  b0 = b0
  b1 = b1
  b2 = b2
  b3 = b3
  b4 = b4
  b5 = b5
  BlocksByAddress <- MCBlocks
  Local = loc
  None = None
  MaxBytes = 10
  MaxReqs = 2
  MaxBlocks = 2
  External = {}
  MayCorrupt = {b1, b4}
  Faults = {"fetch", "kill"}
  KeepsOpen = FALSE
INVARIANTS TypeOK FlightCounted Throttled BuffersReleased OpenBuffersHeld
PROPERTIES BlockFetchSpec EventuallyServed
