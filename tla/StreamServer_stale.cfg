\* One client, and a channel whose device goes.
CONSTANTS
  Clients = {a}
  BufSize = 4
  WordSize = 16
  MaxTotal = 6
SPECIFICATION Spec
INVARIANT PendingIntact
