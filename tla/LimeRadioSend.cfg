SPECIFICATION Spec
CONSTANTS
  Programs = {"send"}
  MaxItems = 2
  Backlog = 1
  m_rxSampleCnt = 2
  Clock = 2
  MaxGap = 1
  a = a
  b = b
  TxBlock <- MCTxBlock
INVARIANT SendsTxSamples
CHECK_DEADLOCK FALSE
