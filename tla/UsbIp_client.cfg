SPECIFICATION Spec
CONSTANTS
  Seqnums = {1, 2}
  MaxConns = 2
INVARIANT AnsweredToItsClient
CHECK_DEADLOCK FALSE
