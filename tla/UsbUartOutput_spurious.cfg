\* A transfer that completes after the disconnection.
CONSTANTS
  Chunks = {c1, c2}
  MaxPackets = 2
SPECIFICATION Spec
INVARIANT NoSpuriousRestart
