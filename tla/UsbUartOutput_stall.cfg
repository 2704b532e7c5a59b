\* One write is enough, and nobody calls flush() for it.
CONSTANTS
  Chunks = {c1, c2}
  MaxPackets = 1
SPECIFICATION FairSpec
PROPERTY QueuedIsSent
