SPECIFICATION LinkSpec
CONSTANTS
  M = 64
  Timeout = 120
  Wait = 128
  Period = 278
  UIntMax = 511
  Cfo = 0
  Offsets <- NoOffset
  Slopes <- BothSlopes
  Deviation = 1
  Gaps = {3, 40}
  MaxFaults = 2
INVARIANTS
  LinkTypeOK
  FollowsFrames
PROPERTIES
  Locks
  StaysOnFrames
