SPECIFICATION Spec
CONSTANTS
  Requests <- MCRequests
  MaxInput = 2
  Readable = 1
  ReadSeconds = 1
  Timeout = 2
  MaxNow = 2
INVARIANT RefusalIsTold
