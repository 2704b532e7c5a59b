\* A device whose closing fails.  Two devices, one of them ours, that come and go at any moment, a queue of
\* three events, and requests that may fail.
CONSTANTS
  Devices = {ours, other}
  Ours = {ours}
  Objects = {o1, o2, o3}
  QueueSize = 4
  Free = Free
  NoObject = NoObject
SPECIFICATION Spec
INVARIANT NothingLeaked
