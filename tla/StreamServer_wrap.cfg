\* Counters that wrap at sixteen: twenty-two bytes go past it.
CONSTANTS
  Clients = {a}
  BufSize = 4
  WordSize = 16
  MaxTotal = 22
SPECIFICATION Spec
INVARIANT PendingInRing
