\* Three messages of one or two bytes in chunks of up to six bytes, two connections.
CONSTANTS
  Byte = {0, 1}
  MaxLength = 3
  DescLen = 2
  Desc <- MCDesc
  Messages <- MCMessages
  MaxRecv = 6
  MaxSends = 3
  MaxOutOfMemory = 1
  MaxConnections = 2
SPECIFICATION FairSpec
INVARIANTS
  InSync
  EndsAreClean
PROPERTIES
  DeliversMessages
  EndIsReported
CHECK_DEADLOCK FALSE
