CONSTANTS
  s1 = s1
  s2 = s2
  s3 = s3
  Conn <- ThreeConns
  Readers = 1
  Limit = 1
  IdleRoom = 0
SPECIFICATION FairSpec
INVARIANTS
  TypeOK
  ReadersConserved
  ReadUnderReader
  ServedIsRegistered
  LongestIdleFirst
  NothingLeaks
PROPERTY RequestsEnd
