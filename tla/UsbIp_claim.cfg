SPECIFICATION Spec
CONSTANTS
  Seqnums = {1, 2}
  MaxConns = 2
INVARIANT ClaimedOnce
CHECK_DEADLOCK FALSE
