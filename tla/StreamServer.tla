------------------------------ MODULE StreamServer ------------------------------
(***************************************************************************)
(* The TCP server of stream_server.cpp: what the UART receives goes to     *)
(* every client through one ring buffer in which each client has its own   *)
(* position.  Everything runs on the main loop; loop() is the five phases  *)
(* accept, read, flush, write, cleanup.  What is not in its hands is when  *)
(* clients come and go, how much each socket takes, how much the UART has  *)
(* available, and whether it hands that out: a channel that was            *)
(* disconnected gives nothing, but counts as available what came late.     *)
(*                                                                         *)
(* Positions are size_t counters that never go back: they are kept modulo  *)
(* WordSize.  Bytes are numbered by their place in the stream, and buf     *)
(* holds the number of the byte in each cell.                              *)
(***************************************************************************)
EXTENDS Integers, FiniteSets

CONSTANTS
  Clients,   \* the clients that may connect
  BufSize,   \* buf_size_, a power of two (stream_server/__init__.py)
  WordSize,  \* 2^32: where a size_t wraps, a multiple of BufSize
  MaxTotal   \* bound: how far the head goes in a behaviour

ASSUME ServerAssumption ==
  /\ IsFiniteSet(Clients)
  /\ BufSize \in Nat \ {0} /\ MaxTotal \in Nat
  /\ WordSize \in Nat /\ WordSize > BufSize /\ WordSize % BufSize = 0

NoByte == 0  \* a cell that holds no byte yet; bytes are numbered from 1

VARIABLES
  clients,       \* the clients in clients_
  disconnected,  \* those marked disconnected, until cleanup
  position,      \* Client::position
  buf_head,      \* buf_head_
  buf_tail,      \* buf_tail_
  buf,           \* buf_: the number of the byte in each cell
  total,         \* how many bytes have been read from the UART
  skipped,       \* how far the head went without bytes
  len,           \* read(): the length of its last read_array
  offered,       \* where the head was at the last flush()
  sensor,        \* the last state of the connection count sensor
  channel,       \* the UART: "ready", or disconnected with its ring "empty" or "full"
  pc             \* the phase of loop()

clientVars == <<clients, disconnected, position, sensor>>
bufVars == <<buf_head, buf_tail, buf, total, skipped, len, offered>>
vars == <<clientVars, bufVars, channel, pc>>

Phases == {"accept", "read", "flush", "write", "cleanup"}

TypeOK ==
  /\ clients \in SUBSET Clients
  /\ disconnected \in SUBSET clients
  /\ position \in [Clients -> 0 .. WordSize - 1]
  /\ buf_head \in 0 .. WordSize - 1
  /\ buf_tail \in 0 .. WordSize - 1
  /\ buf \in [0 .. BufSize - 1 -> Nat]
  /\ {total, skipped} \subseteq Nat /\ total + skipped <= MaxTotal
  /\ len \in 0 .. BufSize
  /\ offered \in 0 .. total + skipped
  /\ sensor \in 0 .. Cardinality(Clients)
  /\ channel \in {"ready", "empty", "full"}
  /\ pc \in Phases

Init ==
  /\ clients = {} /\ disconnected = {}
  /\ position = [c \in Clients |-> 0]
  /\ buf_head = 0 /\ buf_tail = 0
  /\ buf = [i \in 0 .. BufSize - 1 |-> NoByte]
  /\ total = 0 /\ skipped = 0 /\ len = 0 /\ offered = 0
  /\ sensor = 0 /\ channel = "empty"
  /\ pc = "accept"

------------------------------------------------------------------------------
Wrap(n) == n % WordSize
Smaller(m, n) == IF m <= n THEN m ELSE n

(* pos & (size - 1), and the cells from pos to the end of buf_, for a size *)
(* that is a power of two.                                                 *)
buf_index(pos) == pos % BufSize
buf_ahead(pos) == BufSize - (pos % BufSize)

(* How far b is ahead of a. *)
Distance(a, b) == Wrap(b - a)

Live == clients \ disconnected

------------------------------------------------------------------------------
(* Between two calls of loop() the device of the channel comes or goes.  It *)
(* goes with bytes left in the ring of the channel when chunks were queued *)
(* that its loop() moves there after on_disconnected has cleared the ring. *)
ChannelChanges(state) ==
  /\ pc = "accept"
  /\ (channel = "ready") # (state = "ready")
  /\ channel' = state
  /\ UNCHANGED <<clientVars, bufVars, pc>>

(* accept(): at most one new client a loop, which starts at the head. *)
Accept(c) ==
  /\ pc = "accept"
  /\ c \in Clients \ clients
  /\ clients' = clients \cup {c}
  /\ position' = [position EXCEPT ![c] = buf_head]
  /\ sensor' = Cardinality(clients')
  /\ len' = 0
  /\ pc' = "read"
  /\ UNCHANGED <<disconnected, buf_head, buf_tail, buf, total, skipped, offered, channel>>

AcceptNone ==
  /\ pc = "accept"
  /\ len' = 0
  /\ pc' = "read"
  /\ UNCHANGED <<clientVars, buf_head, buf_tail, buf, total, skipped, offered, channel>>

(* Mutant: the clients left behind are not moved up. *)
MovedUpMutant(tail) == position

(* The overflow branch moves up every client that is behind the tail. *)
MovedUp(tail) ==
  [c \in Clients |-> IF c \in clients /\ position[c] < tail THEN tail ELSE position[c]]

(* What fits without going round the end of the array. *)
FillLength(available, free) ==
  Smaller(available, Smaller(buf_ahead(buf_head), free))

(* read_array writes n cells, from the head on, wherever buf_ ends; that   *)
(* of a channel which is not ready returns false, and that is ignored.     *)
Fill(n) ==
  LET at == buf_index(buf_head)
      written == IF channel = "ready" THEN at .. at + n - 1 ELSE {}
  IN  /\ buf' = [i \in DOMAIN buf \cup written |->
                   IF i \in written THEN total + 1 + i - at ELSE buf[i]]
      /\ buf_head' = Wrap(buf_head + n)
      /\ total' = IF channel = "ready" THEN total + n ELSE total
      /\ skipped' = IF channel = "ready" THEN skipped ELSE skipped + n
      /\ len' = n

FreeSpace == Wrap(BufSize - Distance(buf_tail, buf_head))

(* read(): one turn of its loop with room in the ring ... *)
ReadFill(available) ==
  /\ pc = "read"
  /\ FreeSpace > 0
  /\ Fill(FillLength(available, FreeSpace))
  /\ UNCHANGED <<clientVars, buf_tail, offered, channel, pc>>

(* Mutant: overwrites what this read() has just added. *)
MayOverwriteMutant == TRUE
MayOverwrite == len = 0

(* ... with the ring full and nothing added yet: the oldest are dropped ... *)
ReadOverwrite(available) ==
  /\ pc = "read"
  /\ FreeSpace = 0
  /\ MayOverwrite
  /\ LET free == Smaller(available, BufSize)
     IN  /\ buf_tail' = Wrap(buf_tail + free)
         /\ position' = MovedUp(buf_tail')
         /\ Fill(FillLength(available, free))
  /\ UNCHANGED <<clients, disconnected, sensor, offered, channel, pc>>

(* ... with the ring full after something was added: flush() gets a chance. *)
ReadFull ==
  /\ pc = "read"
  /\ FreeSpace = 0
  /\ len > 0
  /\ channel # "empty"
  /\ pc' = "flush"
  /\ UNCHANGED <<clientVars, bufVars, channel>>

(* Nothing is available (any more).  What is left in a channel that is not *)
(* ready stays there; only the bound ends that.                            *)
ReadEnd ==
  /\ pc = "read"
  /\ channel # "full" \/ total + skipped = MaxTotal
  /\ pc' = "flush"
  /\ UNCHANGED <<clientVars, bufVars, channel>>

------------------------------------------------------------------------------
(* flush(): took is how many bytes the socket of each client with          *)
(* something to be sent takes, 0 on any error but the ones of the clients   *)
(* in closed, which are marked disconnected.                               *)

(* Mutant: compares cells instead of positions, and takes a full ring for  *)
(* an empty one.                                                           *)
PendingMutant(c) == buf_index(position[c]) # buf_index(buf_head)
Pending(c) == position[c] # buf_head
Behind == {c \in Live : Pending(c)}

(* The clients that count in the new tail. *)
Holders(took, closed) == Behind \ closed

(* The two iovecs make one write, of the bytes from the position to the    *)
(* head.  The tail is the least position, and at most the head.            *)
Flush(took, closed) ==
  /\ pc = "flush"
  /\ \A c \in Behind : took[c] <= Distance(position[c], buf_head)
  /\ position' = [c \in Clients |-> IF c \in Behind \ closed
                                      THEN Wrap(position[c] + took[c])
                                      ELSE position[c]]
  /\ disconnected' = disconnected \cup closed
  /\ LET held == {position'[c] : c \in Holders(took, closed)} \cup {buf_head}
     IN  buf_tail' = CHOOSE t \in held : \A u \in held : t <= u
  /\ offered' = total + skipped
  /\ pc' = "write"
  /\ UNCHANGED <<clients, sensor, buf_head, buf, total, skipped, len, channel>>

(* write(): what the clients sent goes to the UART; some have closed. *)
Write(closed) ==
  /\ pc = "write"
  /\ disconnected' = disconnected \cup closed
  /\ pc' = "cleanup"
  /\ UNCHANGED <<clients, position, sensor, bufVars, channel>>

(* cleanup(): drops the disconnected clients and publishes if there were. *)
Cleanup ==
  /\ pc = "cleanup"
  /\ clients' = Live
  /\ disconnected' = {}
  /\ sensor' = IF disconnected # {} THEN Cardinality(clients') ELSE sensor
  /\ pc' = "accept"
  /\ UNCHANGED <<position, bufVars, channel>>

------------------------------------------------------------------------------
Read ==
  /\ channel # "empty"
  /\ \E available \in 1 .. MaxTotal - total - skipped :
          ReadFill(available) \/ ReadOverwrite(available)

Flushing == \E took \in [Behind -> 0 .. BufSize], closed \in SUBSET Behind :
              Flush(took, closed)

Next ==
  \/ \E state \in {"ready", "empty", "full"} : ChannelChanges(state)
  \/ \E c \in Clients : Accept(c)
  \/ AcceptNone
  \/ Read \/ ReadFull \/ ReadEnd
  \/ Flushing
  \/ \E closed \in SUBSET Live : Write(closed)
  \/ Cleanup

Spec == Init /\ [][Next]_vars

(* loop() is called again and again, and a socket that is tried again and  *)
(* again takes something in the end, or fails.                             *)
Fairness ==
  /\ WF_vars(pc = "accept" /\ pc' = "read" /\ Next)
  /\ WF_vars(pc # "accept" /\ Next)
  /\ WF_vars(ReadEnd)
  /\ \A c \in Clients :
       SF_vars(c \in Behind /\ \E took \in [Behind -> 0 .. BufSize] :
                 \E closed \in SUBSET Behind :
                   (took[c] > 0 \/ c \in closed) /\ Flush(took, closed))

FairSpec == Spec /\ Fairness

------------------------------------------------------------------------------
(* No client is further behind than the ring is long, and none is behind   *)
(* the tail: the data a live client still needs is protected.              *)
PositionsInWindow ==
  /\ Distance(buf_tail, buf_head) <= BufSize
  /\ \A c \in Live :
       Distance(buf_tail, position[c]) + Distance(position[c], buf_head)
         = Distance(buf_tail, buf_head)

(* What is still to be sent to a client is what the UART received, byte by *)
(* byte: read() never overwrites it without moving the client up.          *)
PendingIntact ==
  \A c \in Live : \A k \in 0 .. Distance(position[c], buf_head) - 1 :
    buf[buf_index(position[c] + k)]
      = total + 1 + k - Distance(position[c], buf_head)

(* The ring is sound as long as the channel handed out all that it said it *)
(* had; the positions are, whatever it does.                               *)
RingSound ==
  /\ TypeOK
  /\ PositionsInWindow
  /\ skipped = 0 => PendingIntact

(* stream_server.cpp:127: "Only overwrite if nothing has been added yet,   *)
(* otherwise give flush() a chance": what read() has added since the last  *)
(* flush() stays in the ring until flush() has offered it to the clients.  *)
FreshBytesKept == Distance(buf_tail, buf_head) >= total + skipped - offered

(* A client that stays is never left behind for good, however slow the     *)
(* others are: its position comes up to the head again, by what it takes   *)
(* or, when the ring overflows, by being moved past the bytes it has lost. *)
ClientServed ==
  \A c \in Clients : c \in clients ~> (c \notin clients \/ position[c] = buf_head)

------------------------------------------------------------------------------
(* What the code does not guarantee, although it says so: TLC refutes the  *)
(* properties from here on (see README.md for how each of them fails).     *)

(* stream_server.cpp:156: "Split the write into two parts: from the        *)
(* current position to the end of the ring buffer, and from the start of   *)
(* the ring buffer until the head": what is pending for a client never     *)
(* exceeds the ring, or the two parts would send cells twice and reach     *)
(* past the array.                                                         *)
PendingInRing == \A c \in Live : Distance(position[c], buf_head) <= BufSize
==============================================================================
