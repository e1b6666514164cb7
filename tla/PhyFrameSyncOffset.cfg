SPECIFICATION SafeSpec
CONSTANTS
  M = 16
  Timeout = 14
  Wait = 10
  Period = 30
  UIntMax = 255
  Cfo = 1
  Offsets <- AnyOffset
INVARIANTS
  CorrectsOffset
