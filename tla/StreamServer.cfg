\* Two clients, a ring of four bytes and up to seven bytes, so that it goes
\* round and overflows, with a channel that comes and goes.  The counters do
\* not wrap.
CONSTANTS
  Clients = {a, b}
  BufSize = 4
  WordSize = 16
  MaxTotal = 7
SPECIFICATION FairSpec
INVARIANTS RingSound FreshBytesKept
PROPERTY ClientServed
