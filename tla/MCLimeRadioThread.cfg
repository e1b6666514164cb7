SPECIFICATION Spec
CONSTANTS
  Programs = {"rpx", "spectrum", "csv", "fail_later", "send"}
  MaxItems = 2
  Backlog = 1
  m_rxSampleCnt = 2
  Clock = 3
  MaxGap = 1
  a = a
  b = b
  TxBlock <- MCTxBlock
INVARIANTS TypeOK InOrder Accounted TerminatedMeansReturned AmplifierOff
PROPERTIES StopEnds Drains
CHECK_DEADLOCK FALSE
