\* One object that connects a second time.
CONSTANTS
  Byte = {0, 1}
  MaxLength = 3
  DescLen = 2
  Desc <- MCDesc
  Messages <- MCMessages
  MaxRecv = 6
  MaxSends = 2
  MaxOutOfMemory = 0
  MaxConnections = 2
SPECIFICATION ReuseSpec
INVARIANT OnlySentMessages
CHECK_DEADLOCK FALSE
