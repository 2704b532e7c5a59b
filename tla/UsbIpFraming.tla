------------------------------ MODULE UsbIpFraming ------------------------------
(***************************************************************************)
(* The byte streams of a USB/IP connection (usb_ip.cpp).  The task         *)
(* usbip_tcp collects what it receives in rx_buf_, takes one request after *)
(* the other out of it, and answers; the task usbip_usb answers the        *)
(* requests whose transfers are through.  Both write to the socket, each   *)
(* reply under send_mutex_, while the connection may end at any time.      *)
(*                                                                         *)
(* A byte of a request stands for some number of bytes of the code, and    *)
(* knows where it comes from, so that the buffer can be compared with what *)
(* the client sent.  What the requests do is UsbIp.                        *)
(***************************************************************************)
EXTENDS Naturals, Sequences

CONSTANTS
  HeaderSize, ImportSize, CommandSize,  \* 8, 40 and 48 bytes
  PacketSize,   \* the descriptor of an isochronous packet, 16 bytes
  BufferSize,   \* sizeof(rx_buf_), 4096 bytes
  ReplySize,    \* the bytes of a reply
  Lengths,      \* transfer_buffer_length
  Packets,      \* number_of_packets
  MaxRequests,  \* bound: the requests on the first connection, on each
                \* later one there is one less
  MaxConns      \* bound: the connections in a behaviour

ASSUME FramingAssumption ==
  /\ HeaderSize \in Nat \ {0} /\ ImportSize \in Nat /\ CommandSize \in Nat
  /\ HeaderSize < ImportSize /\ ImportSize < CommandSize /\ CommandSize < BufferSize
  /\ PacketSize \in Nat /\ BufferSize \in Nat /\ ReplySize \in Nat \ {0}
  /\ Lengths \subseteq Nat /\ Packets \subseteq Nat
  /\ MaxRequests \in Nat \ {0} /\ MaxConns \in Nat \ {0}

(* What a client sends.  OTHER is no request of the protocol. *)
Requests ==
  {[command |-> c, direction |-> "in", length |-> 0, packets |-> 0] :
     c \in {"DEVLIST", "IMPORT", "UNLINK", "OTHER"}}
  \cup [command : {"SUBMIT"}, direction : {"in", "out"}, length : Lengths, packets : Packets]

(* The protocol: the data of an OUT transfer and the packet descriptors    *)
(* follow the command.                                                     *)
Size(r) ==
  CASE r.command = "DEVLIST" -> HeaderSize
    [] r.command = "IMPORT" -> ImportSize
    [] r.command \in {"UNLINK", "OTHER"} -> CommandSize
    [] r.command = "SUBMIT" /\ r.direction = "in" -> CommandSize + r.packets * PacketSize
    [] r.command = "SUBMIT" /\ r.direction = "out" ->
         CommandSize + r.length + r.packets * PacketSize

Fits(r) == Size(r) <= BufferSize

Tasks == {"tcp", "usb"}
NoSock == 0
NoByte == [conn |-> 0, nr |-> 0, at |-> 0, request |-> "none"]
NoReply == [conn |-> 0, nr |-> 0]
Unlocked == [task |-> "none", began |-> 0, done |-> 0]

VARIABLES
  conn,         \* the connections so far; each stands for its socket
  client_sock,  \* client_sock_
  sent,         \* the requests the client has sent on this connection
  wire,         \* the bytes of them that have not been received
  rx_buf,       \* rx_buf_, with what is left in it from before
  buf_len,      \* how much of it is to be parsed
  pc,           \* where the task usbip_tcp is
  handled,      \* what parse_request was given on this connection
  submitted,    \* the requests whose transfers are on their way
  replying,     \* the reply each task is in send_response with
  send_mutex,   \* who holds it, on which socket it began, how much it sent
  received,     \* the bytes of replies that this client has received
  torn          \* a reply on this connection was left incomplete

requestVars == <<sent, wire, rx_buf, buf_len, handled>>
replyVars == <<submitted, replying, send_mutex, received, torn>>
vars == <<conn, client_sock, pc, requestVars, replyVars>>

Bytes(c, nr, r) ==
  [at \in 1 .. Size(r) |-> [conn |-> c, nr |-> nr, at |-> at, request |-> r]]

Replies == [conn : 0 .. MaxConns, nr : 0 .. MaxRequests]

TypeOK ==
  /\ conn \in 0 .. MaxConns /\ client_sock \in {NoSock, conn}
  /\ sent \in Seq(Requests)
  /\ DOMAIN rx_buf = 1 .. BufferSize
  /\ buf_len \in 0 .. BufferSize
  /\ pc \in {"accept", "recv", "parse", "reply", "cleanup"}
  /\ pc = "recv" => buf_len < BufferSize
  /\ submitted \subseteq Replies
  /\ replying \in [Tasks -> Replies]
  /\ send_mutex \in [task : Tasks \cup {"none"}, began : 0 .. MaxConns, done : 0 .. ReplySize - 1]
  /\ torn \in BOOLEAN

Init ==
  /\ conn = 0 /\ client_sock = NoSock /\ pc = "accept"
  /\ sent = <<>> /\ wire = <<>>
  /\ rx_buf = [i \in 1 .. BufferSize |-> NoByte] /\ buf_len = 0
  /\ handled = <<>>
  /\ submitted = {} /\ replying = [t \in Tasks |-> NoReply]
  /\ send_mutex = Unlocked /\ received = <<>> /\ torn = FALSE

------------------------------------------------------------------------------
(* The client and the network. *)
Send(r) ==
  /\ pc # "accept"
  /\ Len(sent) + conn <= MaxRequests
  /\ sent' = Append(sent, r)
  /\ wire' = wire \o Bytes(conn, Len(sent'), r)
  /\ UNCHANGED <<conn, client_sock, pc, rx_buf, buf_len, handled, replyVars>>

------------------------------------------------------------------------------
(* tcp_task_ *)

(* Mutant: what the last connection left in the buffer counts. *)
StartEmptyMutant == UNCHANGED buf_len
StartEmpty == buf_len' = 0

Accept ==
  /\ pc = "accept"
  /\ conn < MaxConns
  /\ conn' = conn + 1
  /\ StartEmpty
  /\ sent' = <<>> /\ wire' = <<>> /\ handled' = <<>>
  /\ received' = <<>> /\ torn' = FALSE
  /\ pc' = "recv"
  /\ UNCHANGED <<client_sock, rx_buf, submitted, replying, send_mutex>>

(* recv() returns some of what has arrived, up to the room there is. *)
Recv(n) ==
  /\ pc = "recv"
  /\ n <= Len(wire) /\ n <= BufferSize - buf_len
  /\ rx_buf' = [i \in 1 .. BufferSize |->
                  IF i > buf_len /\ i <= buf_len + n THEN wire[i - buf_len] ELSE rx_buf[i]]
  /\ wire' = SubSeq(wire, n + 1, Len(wire))
  /\ buf_len' = buf_len + n
  /\ pc' = "parse"
  /\ UNCHANGED <<conn, client_sock, sent, handled, replyVars>>

(* The client closes, the connection breaks, or nothing comes for a minute. *)
RecvEnds ==
  /\ pc = "recv"
  /\ pc' = "cleanup"
  /\ UNCHANGED <<conn, client_sock, requestVars, replyVars>>

(* The request whose first n bytes are at the start of the buffer.  Read   *)
(* from other bytes, the fields could be anything.                         *)
RequestAt(n) ==
  IF rx_buf[1] # NoByte /\ \A i \in 1 .. n : rx_buf[i] = [rx_buf[1] EXCEPT !.at = i]
    THEN rx_buf[1].request
    ELSE [command |-> "OTHER", direction |-> "in", length |-> 0, packets |-> 0]

Command(n) == RequestAt(n).command

(* Mutant: the data of an IN transfer is waited for, too. *)
SubmitSizeMutant(r) == CommandSize + r.length + r.packets * PacketSize

SubmitSize(r) ==
  CommandSize + (IF r.direction = "out" THEN r.length ELSE 0) + r.packets * PacketSize

(* needed, once enough has come to tell. *)
IsOp == Command(HeaderSize) \in {"DEVLIST", "IMPORT"}
SizeKnown == buf_len >= IF IsOp THEN HeaderSize ELSE CommandSize

Needed ==
  CASE Command(HeaderSize) = "DEVLIST" -> HeaderSize
    [] Command(HeaderSize) = "IMPORT" -> ImportSize
    [] Command(CommandSize) = "UNLINK" -> CommandSize
    [] Command(CommandSize) = "SUBMIT" -> SubmitSize(RequestAt(CommandSize))
    [] OTHER -> 0

Recognised == IsOp \/ Command(CommandSize) \in {"UNLINK", "SUBMIT"}
Complete == buf_len >= HeaderSize /\ SizeKnown /\ Recognised /\ buf_len >= Needed

(* Mutant: the buffer is not shifted. *)
ShiftedMutant(n) == rx_buf

(* memmove: what follows the request goes to the start of the buffer. *)
Shifted(n) ==
  [i \in 1 .. BufferSize |-> IF i <= buf_len - n THEN rx_buf[i + n] ELSE rx_buf[i]]

(* parse_request of what is in the buffer.  The reply is sent at once, or, *)
(* if a transfer was submitted, when that is through.                      *)
ParseRequest ==
  /\ pc = "parse"
  /\ Complete
  /\ client_sock' = conn
  /\ handled' = Append(handled, SubSeq(rx_buf, 1, Needed))
  /\ rx_buf' = Shifted(Needed)
  /\ buf_len' = buf_len - Needed
  /\ LET reply == [conn |-> conn, nr |-> Len(handled')]
     IN  \/ /\ pc' = "reply"
            /\ replying' = [replying EXCEPT !["tcp"] = reply]
            /\ UNCHANGED submitted
         \/ /\ Command(HeaderSize) = "SUBMIT"
            /\ submitted' = submitted \cup {reply}
            /\ UNCHANGED <<pc, replying>>
  /\ UNCHANGED <<conn, sent, wire, send_mutex, received, torn>>

Unrecognized ==
  /\ pc = "parse"
  /\ buf_len >= HeaderSize /\ SizeKnown /\ ~Recognised
  /\ pc' = "cleanup"
  /\ UNCHANGED <<conn, client_sock, requestVars, replyVars>>

(* Mutant: recv() is called although it has no room.                       *)
FullMutant == FALSE
Full == buf_len >= BufferSize

Incomplete ==
  /\ pc = "parse"
  /\ buf_len < HeaderSize \/ ~SizeKnown \/ (Recognised /\ buf_len < Needed)
  /\ pc' = IF Full THEN "cleanup" ELSE "recv"
  /\ UNCHANGED <<conn, client_sock, requestVars, replyVars>>

(* cleanup_connection_: the transfers on their way will not be answered. *)
Cleanup ==
  /\ pc = "cleanup"
  /\ client_sock' = NoSock
  /\ submitted' = {}
  /\ pc' = "accept"
  /\ UNCHANGED <<conn, requestVars, replying, send_mutex, received, torn>>

------------------------------------------------------------------------------
(* The callback of a transfer begins its reply. *)
TransferDone(reply) ==
  /\ replying["usb"] = NoReply
  /\ reply \in submitted
  /\ submitted' = submitted \ {reply}
  /\ replying' = [replying EXCEPT !["usb"] = reply]
  /\ UNCHANGED <<conn, client_sock, pc, requestVars, send_mutex, received, torn>>

(* send_response of task t. *)
Return(t) ==
  /\ replying' = [replying EXCEPT ![t] = NoReply]
  /\ send_mutex' = Unlocked
  /\ pc' = IF t = "tcp" THEN "parse" ELSE pc

(* Mutant: send_mutex_ is not taken. *)
MayLockMutant == TRUE
MayLock == send_mutex = Unlocked

SendBegin(t) ==
  /\ replying[t] # NoReply /\ send_mutex.task # t
  /\ MayLock
  /\ IF client_sock = NoSock
       THEN Return(t)
       ELSE /\ send_mutex' = [task |-> t, began |-> client_sock, done |-> 0]
            /\ UNCHANGED <<replying, pc>>
  /\ UNCHANGED <<conn, client_sock, requestVars, submitted, received, torn>>

(* send() takes n bytes of what is left, on what is client_sock_ by now. *)
SendSome(t, n) ==
  /\ send_mutex.task = t
  /\ client_sock # NoSock
  /\ n <= ReplySize - send_mutex.done
  /\ received' = received \o [k \in 1 .. n |-> [of |-> replying[t], at |-> send_mutex.done + k]]
  /\ torn' = (torn \/ send_mutex.began # client_sock)
  /\ IF send_mutex.done + n = ReplySize
       THEN Return(t)
       ELSE /\ send_mutex' = [send_mutex EXCEPT !.done = @ + n]
            /\ UNCHANGED <<replying, pc>>
  /\ UNCHANGED <<conn, client_sock, requestVars, submitted>>

(* send() fails, and the rest of the reply is dropped. *)
SendFails(t) ==
  /\ send_mutex.task = t
  /\ torn' = (torn \/ (send_mutex.done > 0 /\ send_mutex.began = conn))
  /\ Return(t)
  /\ UNCHANGED <<conn, client_sock, requestVars, submitted, received>>

------------------------------------------------------------------------------
Parse == ParseRequest \/ Unrecognized \/ Incomplete
Receive == \E n \in 1 .. BufferSize : Recv(n)
Sending(t) == SendBegin(t) \/ SendFails(t) \/ \E n \in 1 .. ReplySize : SendSome(t, n)

Next ==
  \/ Accept \/ Receive \/ RecvEnds \/ Parse \/ Cleanup
  \/ \E r \in Requests : Send(r)
  \/ \E reply \in submitted : TransferDone(reply)
  \/ \E t \in Tasks : Sending(t)

Spec == Init /\ [][Next]_vars

(* The tasks run, the network delivers what the client has sent, and       *)
(* send() returns.                                                         *)
FairSpec ==
  /\ Spec
  /\ WF_vars(Receive) /\ WF_vars(Parse) /\ WF_vars(Cleanup)
  /\ \A t \in Tasks : WF_vars(Sending(t))

------------------------------------------------------------------------------
(* requirements.md:167-168: however the stream is cut into segments, the   *)
(* requests are parsed whole, once and in order: the server implements     *)
(* MessageStream.                                                          *)
Stream == INSTANCE MessageStream WITH
  Messages <- {Bytes(c, nr, r) : c \in 1 .. MaxConns, nr \in 1 .. MaxRequests, r \in Requests},
  open <- pc # "accept",
  sent <- [nr \in 1 .. Len(sent) |-> Bytes(conn, nr, sent[nr])]

RequestsInOrder == Stream!Spec

(* The parser ends a connection only if the next request is not of the     *)
(* protocol or does not fit the buffer (usb_ip.cpp:651, :666).  Out of     *)
(* recv() the server ends it as well, after 60 s of silence (RecvEnds).    *)
ClosedForCause ==
  [][pc = "parse" /\ pc' = "cleanup" =>
       /\ Len(handled) < Len(sent)
       /\ LET next == sent[Len(handled) + 1] IN next.command = "OTHER" \/ ~Fits(next)]_vars

(* A request that has been sent is parsed, unless the connection ends: the *)
(* parser does not wait for bytes that will not come.                      *)
RequestsHandled ==
  \A n \in 1 .. MaxRequests :
    pc # "accept" /\ Len(sent) >= n ~> Len(handled) >= n \/ pc \in {"cleanup", "accept"}

(* design.md:473, "contiguous, non-interleaved units": until a reply is    *)
(* left incomplete, what the client has received is whole replies one      *)
(* after the other, and the beginning of the one that is being sent.       *)
RepliesWhole ==
  ~torn => \A i \in 1 .. Len(received) :
    /\ received[i].at = 1 \/ (i > 1 /\ received[i - 1] = [received[i] EXCEPT !.at = @ - 1])
    /\ \/ received[i].at = ReplySize
       \/ i < Len(received) /\ received[i + 1] = [received[i] EXCEPT !.at = @ + 1]
       \/ /\ i = Len(received)
          /\ send_mutex.task # "none" /\ replying[send_mutex.task] = received[i].of

------------------------------------------------------------------------------
(* What the code does not guarantee: TLC refutes this (README.md).         *)

(* requirements.md:129: after a failed send the server stops "sending      *)
(* further responses on that socket".                                      *)
NothingAfterTorn == [][torn => received' \in {received, <<>>}]_vars
==============================================================================
