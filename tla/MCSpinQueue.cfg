SPECIFICATION Spec
CONSTANTS
  Thread = {radio, consumer, main}
  Block = {b1, b2}
  NoBlock = NoBlock
  Limit <- Limits
INVARIANTS
  TypeOK
  MutualExclusion
  PopTakesHead
  Capacity
PROPERTIES
  Linearizable
  CallsComplete
