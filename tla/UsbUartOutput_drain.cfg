\* A disconnection while the USB task restarts output.
CONSTANTS
  Chunks = {c1, c2}
  MaxPackets = 2
SPECIFICATION Spec
INVARIANT SingleConsumer
