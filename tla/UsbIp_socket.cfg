SPECIFICATION Spec
CONSTANTS
  Seqnums = {1, 2}
  MaxConns = 2
INVARIANT SocketsClosed
CHECK_DEADLOCK FALSE
