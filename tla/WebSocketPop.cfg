SPECIFICATION SafeSpec
CONSTANTS
  Fd = {fd1, fd2}
  Client = {c1, c2}
  NoClient = NoClient
  NoConnection = NoConnection
  User = {anonymous, operator}
  Anonymous = anonymous
  Reader = {operator}
  Lister = {operator}
  MaxPushed = 2
INVARIANT PoppedWasSent
CHECK_DEADLOCK FALSE
