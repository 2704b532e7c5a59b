\* Two chunks, a ring of three bytes and packets of up to two: the pool runs
\* out and the ring overflows, in any number of sessions.
CONSTANTS
  PoolSize = 2
  BufferSize = 4
  MaxPacket = 2
  MaxTransfers = 2
  MaxBytes = 5
  ClearOnOverflow = FALSE
  PollWhenEmpty = TRUE
  MayFail = TRUE
SPECIFICATION FairSpec
INVARIANTS TypeOK ExclusiveInput ClaimHasOwner BytesInOrder NoSilentLoss
PROPERTY InputRecovers
