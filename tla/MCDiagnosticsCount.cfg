CONSTANTS
  m1 = m1
  m2 = m2
  m3 = m3
  m4 = m4
  count = count
  Message <- MCMessage
  Count <- MCCount
  Capacity = 2
SPECIFICATION Spec
INVARIANT CountIsWritten
