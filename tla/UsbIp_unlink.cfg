SPECIFICATION FairSpec
CONSTANTS
  Seqnums = {1}
  MaxConns = 2
PROPERTY UnlinkedEnds
CHECK_DEADLOCK FALSE
