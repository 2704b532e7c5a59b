SPECIFICATION Spec
CONSTANTS
  Seqnums = {1, 2}
  MaxConns = 2
INVARIANT AnsweredOnce
CHECK_DEADLOCK FALSE
