\* Two chunks and three packets, so that the pool runs out and chunks are
\* reused, in any number of sessions.
CONSTANTS
  Chunks = {c1, c2}
  MaxPackets = 3
SPECIFICATION FairSpec
INVARIANTS TypeOK ExclusiveClaim ChunksConserved ClaimHasOwner
PROPERTIES FlushSuccessDrained InOrderStream FlushCompletes
