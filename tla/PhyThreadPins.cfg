SPECIFICATION SafeSpec
CONSTANTS
  Modes = {"CPE"}
  m_rxSampleCnt = 2
  m_txSampleCnt = 5
  M = 4
  Cp = 1
  BufferLength = 3
  FreezePeriod = 2
  Period = 6
  Lead = 4
  HostDelay = 1
  Clock = 6
  MaxGap = 1
INVARIANT PinsFollowDirection
CHECK_DEADLOCK FALSE
