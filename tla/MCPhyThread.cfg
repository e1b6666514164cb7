SPECIFICATION Spec
CONSTANTS
  Modes = {"CPE", "BASESTATION"}
  m_rxSampleCnt = 3
  m_txSampleCnt = 5
  M = 4
  Cp = 1
  BufferLength = 3
  FreezePeriod = 2
  Period = 6
  Lead = 4
  HostDelay = 1
  Clock = 7
  MaxGap = 1
INVARIANTS TypeOK Stamped LossReported FreezeWindow OnTime
PROPERTIES ProgramEnds
CHECK_DEADLOCK FALSE
