SPECIFICATION CoordFairSpec
CONSTANTS
  x = x
  y = y
  z = z
  Instances = {x, y, z}
  Hash <- MCHash
  Replaces <- MCReplaces
  Nobody = Nobody
  MaxLapses = 1
INVARIANTS CoordTypeOK OneHandlerPerKey 
PROPERTIES EveryInstanceEnds 
CHECK_DEADLOCK FALSE
