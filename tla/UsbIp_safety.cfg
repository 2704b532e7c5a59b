SPECIFICATION Spec
CONSTANTS
  Seqnums = {1, 2}
  MaxConns = 2
INVARIANTS ContextsSound UnlinkSuppresses NoUrbForgotten
CHECK_DEADLOCK FALSE
