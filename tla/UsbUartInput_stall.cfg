\* An application that reads only what is available; no transfer ever fails.
CONSTANTS
  PoolSize = 1
  BufferSize = 4
  MaxPacket = 1
  MaxTransfers = 2
  MaxBytes = 3
  ClearOnOverflow = TRUE
  PollWhenEmpty = FALSE
  MayFail = FALSE
SPECIFICATION FairSessionSpec
PROPERTY InputRecovers
CHECK_DEADLOCK FALSE
