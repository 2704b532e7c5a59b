\* Requests of two to seven bytes for a buffer of six, two on the first
\* connection and one on the second.
CONSTANTS
  HeaderSize = 2
  ImportSize = 3
  CommandSize = 4
  PacketSize = 1
  BufferSize = 6
  ReplySize = 2
  Lengths = {2}
  Packets = {0, 1}
  MaxRequests = 2
  MaxConns = 2
SPECIFICATION Spec
CHECK_DEADLOCK FALSE
PROPERTY NothingAfterTorn
