SPECIFICATION Spec
CONSTANTS
  Fd = {fd1, fd2}
  Client = {c1, c2}
  NoClient = NoClient
  NoConnection = NoConnection
  User = {anonymous, operator}
  Anonymous = anonymous
  Reader = {operator}
  Lister = {operator}
  MaxPushed = 2
INVARIANTS
  TypeOK
  InOrder
  ConnectionPerSocket
  SpectrumOffWithoutClients
  Permitted
PROPERTIES
  ServesMailboxes
  Flushed
CHECK_DEADLOCK FALSE
