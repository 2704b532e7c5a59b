-------------------------- MODULE UsbIpFraming_proofs --------------------------
(***************************************************************************)
(* What TLAPS proves about the byte streams of a USB/IP connection, for    *)
(* requests and buffers of every size and any number of connections: what  *)
(* is in rx_buf_ and on the wire is always the requests that have not been *)
(* parsed, whole and in order, so that the server implements               *)
(* MessageStream, gives up a connection only for a cause, and sends whole  *)
(* replies one after the other as long as none is left incomplete.         *)
(***************************************************************************)
EXTENDS UsbIpFraming, SequenceTheorems, TLAPS

------------------------------------------------------------------------------
(* The inductive invariant. *)

Byte == [conn : Nat, nr : Nat, at : Nat, request : Requests]
Piece == [of : Replies, at : 1 .. ReplySize]

BufferTypes ==
  /\ wire \in Seq(Byte)
  /\ rx_buf \in [1 .. BufferSize -> Byte \cup {NoByte}]
  /\ handled \in Seq(Seq(Byte))
  /\ received \in Seq(Piece)

Sessions ==
  /\ pc # "accept" => conn >= 1
  /\ pc = "accept" => client_sock = NoSock
  /\ Len(sent) <= MaxRequests

(* Who may be in send_response, and with what. *)
Claims ==
  /\ replying["tcp"] # NoReply <=> pc = "reply"
  /\ NoReply \notin submitted
  /\ send_mutex.task = "none" => send_mutex = Unlocked
  /\ send_mutex.task # "none" => replying[send_mutex.task] # NoReply
  /\ send_mutex.began <= conn

(* The bytes that have not been parsed: those in the buffer, then those on *)
(* the wire.                                                               *)
Unparsed ==
  [i \in 1 .. buf_len + Len(wire) |-> IF i <= buf_len THEN rx_buf[i] ELSE wire[i - buf_len]]

(* The stream of connection c is the requests after the first h, one after *)
(* the other: each is whole, request n from start[n] on.                   *)
Cuts(start, stream, c, h, requests) ==
  /\ start[h + 1] = 1
  /\ start[Len(requests) + 1] = Len(stream) + 1
  /\ \A n \in h + 1 .. Len(requests) :
       /\ start[n + 1] = start[n] + Size(requests[n])
       /\ \A m \in n + 1 .. Len(requests) + 1 : start[n] + Size(requests[n]) <= start[m]
       /\ \A k \in 1 .. Size(requests[n]) :
            stream[start[n] + k - 1] = Bytes(c, n, requests[n])[k]

Whole(stream, c, h, requests) ==
  /\ h <= Len(requests)
  /\ \E start \in [h + 1 .. Len(requests) + 1 -> 1 .. Len(stream) + 1] :
       Cuts(start, stream, c, h, requests)

StreamWhole == Whole(Unparsed, conn, Len(handled), sent)

(* The task that holds send_mutex_ has sent a part of its reply on this    *)
(* connection.                                                             *)
Under == send_mutex.task # "none" /\ send_mutex.began = conn /\ send_mutex.done > 0

Follows(b, a) == a.at < ReplySize /\ b = [a EXCEPT !.at = @ + 1]
Last == received[Len(received)]

PiecesInOrder ==
  /\ received # <<>> => received[1].at = 1
  /\ \A i \in 1 .. Len(received) - 1 :
       \/ received[i].at = ReplySize /\ received[i + 1].at = 1
       \/ Follows(received[i + 1], received[i])
  /\ Under => received # <<>> /\ Last = [of |-> replying[send_mutex.task], at |-> send_mutex.done]
  /\ ~Under => received = <<>> \/ Last.at = ReplySize

StateInv == TypeOK /\ BufferTypes /\ Sessions /\ Claims

IInv == StateInv /\ StreamWhole /\ (~torn => PiecesInOrder)

------------------------------------------------------------------------------
(* Requests and their bytes. *)

(* The sizes of the requests of the protocol, by their commands. *)
LEMMA SizeFacts ==
  ASSUME NEW r \in Requests
  PROVE  /\ Size(r) \in Nat /\ Size(r) >= HeaderSize /\ Size(r) >= 1
         /\ r.command \in {"DEVLIST", "IMPORT", "UNLINK", "SUBMIT", "OTHER"}
         /\ r.command = "DEVLIST" => Size(r) = HeaderSize
         /\ r.command = "IMPORT" => Size(r) = ImportSize
         /\ r.command \in {"UNLINK", "OTHER"} => Size(r) = CommandSize
         /\ r.command = "SUBMIT" => Size(r) = SubmitSize(r) /\ Size(r) >= CommandSize
<1>1. CASE r \in {[command |-> c, direction |-> "in", length |-> 0, packets |-> 0] :
                    c \in {"DEVLIST", "IMPORT", "UNLINK", "OTHER"}}
  <2>1. r.command \in {"DEVLIST", "IMPORT", "UNLINK", "OTHER"}
    BY <1>1
  <2>2. /\ r.command = "DEVLIST" => Size(r) = HeaderSize
        /\ r.command = "IMPORT" => Size(r) = ImportSize
        /\ r.command \in {"UNLINK", "OTHER"} => Size(r) = CommandSize
    BY DEF Size
  <2> QED  BY <2>1, <2>2, FramingAssumption
<1>2. CASE r \in [command : {"SUBMIT"}, direction : {"in", "out"},
                  length : Lengths, packets : Packets]
  <2>1. /\ r.command = "SUBMIT" /\ r.direction \in {"in", "out"}
        /\ r.length \in Nat /\ r.packets \in Nat
    BY <1>2, FramingAssumption
  <2>2. r.packets * PacketSize \in Nat
    BY <2>1, FramingAssumption
  <2>3. Size(r) = SubmitSize(r)
    <3>1. CASE r.direction = "in"
      BY <2>1, <2>2, <3>1, FramingAssumption DEF Size, SubmitSize
    <3>2. CASE r.direction = "out"
      BY <2>1, <2>2, <3>2, FramingAssumption DEF Size, SubmitSize
    <3> QED  BY <2>1, <3>1, <3>2
  <2>4. SubmitSize(r) \in Nat /\ SubmitSize(r) >= CommandSize
    BY <2>1, <2>2, FramingAssumption DEF SubmitSize
  <2>5. Size(r) >= HeaderSize /\ Size(r) >= 1
    BY <2>3, <2>4, FramingAssumption
  <2> QED  BY <2>1, <2>3, <2>4, <2>5
<1> QED  BY <1>1, <1>2 DEF Requests

(* The bytes of a request, one by one.                                     *)
LEMMA BytesFacts ==
  ASSUME NEW r \in Requests, NEW c \in Nat, NEW nr \in Nat
  PROVE  /\ Bytes(c, nr, r) \in Seq(Byte)
         /\ Len(Bytes(c, nr, r)) = Size(r)
         /\ \A k \in 1 .. Size(r) :
              Bytes(c, nr, r)[k] = [conn |-> c, nr |-> nr, at |-> k, request |-> r]
<1>1. Size(r) \in Nat
  BY SizeFacts
<1>2. \A k \in 1 .. Size(r) : [conn |-> c, nr |-> nr, at |-> k, request |-> r] \in Byte
  BY <1>1 DEF Byte
<1> QED  BY <1>1, <1>2 DEF Bytes

------------------------------------------------------------------------------
(* Streams of whole requests.  A byte of the buffer that was never written *)
(* is NoByte.                                                              *)

Streams == Seq(Byte \cup {NoByte})

(* A new connection: nothing was sent, and the stream is empty.            *)
LEMMA WholeEmpty ==
  ASSUME NEW c \in Nat
  PROVE  Whole(<<>>, c, 0, <<>>)
<1> DEFINE start == [n \in 1 .. 1 |-> 1]
<1>1. start \in [0 + 1 .. Len(<<>>) + 1 -> 1 .. Len(<<>>) + 1]
  OBVIOUS
<1>2. Cuts(start, <<>>, c, 0, <<>>)
  BY DEF Cuts
<1> QED  BY <1>1, <1>2 DEF Whole

(* A stream begins with the next request.                                  *)
LEMMA WholeHead ==
  ASSUME NEW u \in Streams, NEW c \in Nat, NEW h \in Nat, NEW s \in Seq(Requests),
         Whole(u, c, h, s), h < Len(s)
  PROVE  /\ s[h + 1] \in Requests
         /\ Size(s[h + 1]) \in Nat /\ Size(s[h + 1]) >= 1 /\ Size(s[h + 1]) <= Len(u)
         /\ \A k \in 1 .. Size(s[h + 1]) :
              u[k] = [conn |-> c, nr |-> h + 1, at |-> k, request |-> s[h + 1]]
<1> DEFINE n == h + 1
<1>1. n \in 1 .. Len(s) /\ s[n] \in Requests /\ Len(s) \in Nat /\ Len(u) \in Nat
  BY DEF Streams
<1>2. Size(s[n]) \in Nat /\ Size(s[n]) >= 1
  BY <1>1, SizeFacts
<1>3. PICK start \in [h + 1 .. Len(s) + 1 -> 1 .. Len(u) + 1] : Cuts(start, u, c, h, s)
  BY DEF Whole
<1>4. start[n] = 1 /\ start[Len(s) + 1] = Len(u) + 1
  BY <1>3 DEF Cuts
<1>5. n \in h + 1 .. Len(s) /\ Len(s) + 1 \in n + 1 .. Len(s) + 1
  BY <1>1
<1>6. start[n] + Size(s[n]) <= start[Len(s) + 1]
  BY <1>3, <1>5 DEF Cuts
<1>7. Size(s[n]) <= Len(u)
  BY ONLY <1>1, <1>2, <1>4, <1>6
<1>8. ASSUME NEW k \in 1 .. Size(s[n])
      PROVE  u[k] = [conn |-> c, nr |-> n, at |-> k, request |-> s[n]]
  <2>1. u[start[n] + k - 1] = Bytes(c, n, s[n])[k]
    BY <1>3, <1>5 DEF Cuts
  <2>2. start[n] + k - 1 = k
    BY <1>2, <1>4
  <2>3. Bytes(c, n, s[n])[k] = [conn |-> c, nr |-> n, at |-> k, request |-> s[n]]
    BY DEF Bytes
  <2> QED  BY ONLY <2>1, <2>2, <2>3
<1> QED  BY <1>1, <1>2, <1>7, <1>8

(* Without a next request there is nothing.                                *)
LEMMA WholeDone ==
  ASSUME NEW u \in Streams, NEW c \in Nat, NEW s \in Seq(Requests), Whole(u, c, Len(s), s)
  PROVE  Len(u) = 0
<1>1. PICK start \in [Len(s) + 1 .. Len(s) + 1 -> 1 .. Len(u) + 1] : Cuts(start, u, c, Len(s), s)
  BY DEF Whole
<1>2. Len(u) + 1 = 1 /\ Len(u) \in Nat
  BY <1>1 DEF Cuts, Streams
<1> QED  BY <1>2

(* The next request is taken off the stream.                               *)
LEMMA WholeTail ==
  ASSUME NEW u \in Streams, NEW c \in Nat, NEW h \in Nat, NEW s \in Seq(Requests),
         Whole(u, c, h, s), h < Len(s),
         NEW v \in Streams, Len(v) = Len(u) - Size(s[h + 1]),
         \A i \in 1 .. Len(v) : v[i] = u[i + Size(s[h + 1])]
  PROVE  Whole(v, c, h + 1, s)
<1>1. PICK z \in Nat : z = Size(s[h + 1]) /\ z <= Len(u)
  BY WholeHead
<1>2. PICK start \in [h + 1 .. Len(s) + 1 -> 1 .. Len(u) + 1] : Cuts(start, u, c, h, s)
  BY DEF Whole
<1>3. Len(s) \in Nat /\ Len(u) \in Nat /\ Len(v) \in Nat /\ Len(v) = Len(u) - z
  BY <1>1 DEF Streams
<1>4. start[h + 1] = 1 /\ start[Len(s) + 1] = Len(u) + 1 /\ start[h + 2] = 1 + z
  <2>1. h + 1 \in h + 1 .. Len(s) /\ (h + 1) + 1 = h + 2
    BY <1>3
  <2> QED  BY <1>1, <1>2, <2>1 DEF Cuts
<1>5. \A n \in h + 2 .. Len(s) + 1 : start[n] \in 1 + z .. Len(u) + 1
  <2> TAKE n \in h + 2 .. Len(s) + 1
  <2>1. h + 1 \in h + 1 .. Len(s) /\ n \in (h + 1) + 1 .. Len(s) + 1 /\ n \in h + 1 .. Len(s) + 1
    BY <1>3
  <2>2. start[h + 1] + Size(s[h + 1]) <= start[n]
    BY <1>2, <2>1 DEF Cuts
  <2>3. start[n] \in 1 .. Len(u) + 1
    BY <1>2, <2>1
  <2>4. 1 + z <= start[n]
    BY ONLY <1>1, <1>4, <2>2
  <2> QED  BY ONLY <1>1, <1>3, <2>3, <2>4
<1> DEFINE f == [n \in h + 2 .. Len(s) + 1 |-> start[n] - z]
<1>6. \A n \in h + 2 .. Len(s) + 1 : f[n] = start[n] - z /\ f[n] \in 1 .. Len(v) + 1
  <2> TAKE n \in h + 2 .. Len(s) + 1
  <2>1. f[n] = start[n] - z
    OBVIOUS
  <2>2. start[n] \in 1 + z .. Len(u) + 1
    BY <1>5
  <2> HIDE DEF f
  <2> QED  BY ONLY <1>1, <1>3, <2>1, <2>2, SMTT(30)
<1>7. f \in [h + 2 .. Len(s) + 1 -> 1 .. Len(v) + 1]
  BY <1>6
<1> HIDE DEF f
<1>8. f[h + 2] = 1 /\ f[Len(s) + 1] = Len(v) + 1
  <2>1. h + 2 \in h + 2 .. Len(s) + 1 /\ Len(s) + 1 \in h + 2 .. Len(s) + 1
    BY <1>3
  <2>2. f[h + 2] = start[h + 2] - z /\ f[Len(s) + 1] = start[Len(s) + 1] - z
    BY <1>6, <2>1
  <2> QED  BY ONLY <1>1, <1>3, <1>4, <2>2, SMTT(30)
<1>9. ASSUME NEW n \in h + 2 .. Len(s)
      PROVE  /\ f[n + 1] = f[n] + Size(s[n])
             /\ \A m \in n + 1 .. Len(s) + 1 : f[n] + Size(s[n]) <= f[m]
             /\ \A k \in 1 .. Size(s[n]) : v[f[n] + k - 1] = Bytes(c, n, s[n])[k]
  <2>1. /\ n \in h + 1 .. Len(s) /\ n \in h + 2 .. Len(s) + 1 /\ n + 1 \in h + 2 .. Len(s) + 1
        /\ n \in 1 .. Len(s) /\ n \in Nat /\ Len(s) + 1 \in n + 1 .. Len(s) + 1
    BY <1>3
  <2>2. Size(s[n]) \in Nat
    BY <2>1, SizeFacts, SMTT(30)
  <2>3. /\ start[n + 1] = start[n] + Size(s[n])
        /\ \A m \in n + 1 .. Len(s) + 1 : start[n] + Size(s[n]) <= start[m]
        /\ \A k \in 1 .. Size(s[n]) : u[start[n] + k - 1] = Bytes(c, n, s[n])[k]
    BY <1>2, <2>1 DEF Cuts
  <2>4. start[n] \in Nat /\ f[n] = start[n] - z /\ f[n] \in 1 .. Len(v) + 1
    BY <1>3, <1>5, <1>6, <2>1, SMTT(30)
  <2>5. f[n + 1] = f[n] + Size(s[n])
    <3>1. f[n + 1] = start[n + 1] - z
      BY <1>6, <2>1
    <3>2. start[n + 1] = start[n] + Size(s[n])
      BY ONLY <2>3
    <3> QED  BY ONLY <1>1, <2>2, <2>4, <3>1, <3>2
  <2>6. ASSUME NEW m \in n + 1 .. Len(s) + 1  PROVE f[n] + Size(s[n]) <= f[m]
    <3>1. m \in h + 2 .. Len(s) + 1
      BY <1>3, <2>1
    <3>2. f[m] = start[m] - z /\ start[m] \in Nat
      BY <1>3, <1>5, <1>6, <3>1, SMTT(30)
    <3>3. start[n] + Size(s[n]) <= start[m]
      BY <2>3
    <3> QED  BY ONLY <1>1, <2>2, <2>4, <3>2, <3>3, SMTT(30)
  <2>7. ASSUME NEW k \in 1 .. Size(s[n])  PROVE v[f[n] + k - 1] = Bytes(c, n, s[n])[k]
    <3>1. f[n] + Size(s[n]) <= Len(v) + 1
      BY <1>8, <2>1, <2>6
    <3>2. f[n] + k - 1 \in 1 .. Len(v)
      <4>1. k \in 1 .. Size(s[n])
        OBVIOUS
      <4> QED  BY ONLY <1>3, <2>2, <2>4, <3>1, <4>1, SMTT(30)
    <3>3. v[f[n] + k - 1] = u[(f[n] + k - 1) + z]
      BY <1>1, <3>2
    <3>4. (f[n] + k - 1) + z = start[n] + k - 1
      <4>1. k \in Int /\ f[n] = start[n] - z
        BY <2>2, <2>4
      <4> QED  BY ONLY <1>1, <2>4, <4>1, SMTT(30)
    <3> QED  BY <2>3, <3>3, <3>4
  <2> QED  BY <2>5, <2>6, <2>7
<1>10. Cuts(f, v, c, h + 1, s)
  <2>1. (h + 1) + 1 = h + 2
    OBVIOUS
  <2> QED  BY <1>8, <1>9, <2>1 DEF Cuts
<1>11. h + 1 <= Len(s) /\ (h + 1) + 1 = h + 2
  BY <1>3
<1> QED  BY <1>7, <1>10, <1>11 DEF Whole

(* Another request is put behind the stream.                               *)
LEMMA WholeAppend ==
  ASSUME NEW u \in Streams, NEW c \in Nat, NEW h \in Nat, NEW s \in Seq(Requests),
         Whole(u, c, h, s), NEW r \in Requests
  PROVE  Whole(u \o Bytes(c, Len(s) + 1, r), c, h, Append(s, r))
<1>1. PICK last \in Nat : last = Len(s) + 1
  OBVIOUS
<1>2. PICK z \in Nat : z = Size(r)
  BY SizeFacts
<1> DEFINE bytes == Bytes(c, last, r)
<1> DEFINE v == u \o bytes
<1> DEFINE s2 == Append(s, r)
<1>3. bytes \in Streams /\ Len(bytes) = z
  BY <1>2, BytesFacts, SMTT(30) DEF Streams
<1> HIDE DEF bytes
<1>4. Len(v) = Len(u) + z /\ Len(u) \in Nat
  <2>1. Len(u \o bytes) = Len(u) + Len(bytes)
    BY <1>3, ConcatProperties DEF Streams
  <2> QED  BY <1>3, <2>1 DEF Streams
<1>5. \A i \in 1 .. Len(u) + z : v[i] = IF i <= Len(u) THEN u[i] ELSE bytes[i - Len(u)]
  BY <1>3, ConcatProperties DEF Streams
<1>6. /\ Len(s2) = last /\ s2[last] = r /\ \A n \in 1 .. Len(s) : s2[n] = s[n]
      /\ Len(s) \in Nat /\ h <= Len(s)
  BY <1>1 DEF Whole
<1> HIDE DEF v, s2
<1>7. PICK start \in [h + 1 .. Len(s) + 1 -> 1 .. Len(u) + 1] : Cuts(start, u, c, h, s)
  BY DEF Whole
<1> DEFINE f == [n \in h + 1 .. last + 1 |-> IF n = last + 1 THEN Len(u) + z + 1 ELSE start[n]]
<1>8. /\ f[last + 1] = Len(u) + z + 1
      /\ \A n \in h + 1 .. last : f[n] = start[n] /\ f[n] \in 1 .. Len(u) + 1
  BY <1>1, <1>6, <1>7
<1>9. f \in [h + 1 .. last + 1 -> 1 .. Len(v) + 1]
  <2> SUFFICES ASSUME NEW n \in h + 1 .. last + 1  PROVE f[n] \in 1 .. Len(v) + 1
    OBVIOUS
  <2>1. n = last + 1 \/ n \in h + 1 .. last
    BY <1>1, <1>6
  <2> HIDE DEF f
  <2>2. CASE n = last + 1
    BY <1>4, <1>8, <2>2
  <2>3. CASE n \in h + 1 .. last
    BY <1>4, <1>8, <2>3
  <2> QED  BY <2>1, <2>2, <2>3
<1> HIDE DEF f
<1>10. f[h + 1] = 1 /\ f[last] = Len(u) + 1
  <2>1. h + 1 \in h + 1 .. last /\ last \in h + 1 .. last
    BY <1>1, <1>6
  <2>2. start[h + 1] = 1 /\ start[last] = Len(u) + 1
    BY <1>1, <1>7 DEF Cuts
  <2> QED  BY <1>8, <2>1, <2>2
<1>11. ASSUME NEW n \in h + 1 .. last
       PROVE  /\ f[n + 1] = f[n] + Size(s2[n])
              /\ \A m \in n + 1 .. last + 1 : f[n] + Size(s2[n]) <= f[m]
              /\ \A k \in 1 .. Size(s2[n]) : v[f[n] + k - 1] = Bytes(c, n, s2[n])[k]
  <2>1. CASE n = last
    <3>1. Size(s2[n]) = z /\ s2[n] = r /\ f[n] = Len(u) + 1
      BY <1>2, <1>6, <1>10, <2>1
    <3>2. f[n + 1] = f[n] + z
      BY <1>4, <1>8, <2>1, <3>1
    <3>3. ASSUME NEW m \in n + 1 .. last + 1  PROVE f[n] + z <= f[m]
      <4>1. m = last + 1 /\ m = n + 1
        BY <2>1
      <4> QED  BY <1>4, <3>1, <3>2, <4>1, SMTT(30)
    <3>4. ASSUME NEW k \in 1 .. z  PROVE v[f[n] + k - 1] = Bytes(c, n, r)[k]
      <4>1. f[n] + k - 1 = Len(u) + k
        BY <1>4, <3>1
      <4>2. /\ Len(u) + k \in 1 .. Len(u) + z /\ ~(Len(u) + k <= Len(u))
            /\ Len(u) + k - Len(u) = k
        BY <1>4
      <4>3. v[Len(u) + k] = bytes[k]
        BY <1>5, <4>2
      <4> QED  BY <2>1, <4>1, <4>3 DEF bytes
    <3> QED  BY <3>1, <3>2, <3>3, <3>4
  <2>2. CASE n # last
    <3>1. /\ n \in 1 .. Len(s) /\ n \in h + 1 .. Len(s) /\ n \in Nat /\ n + 1 \in h + 1 .. last
          /\ last \in n + 1 .. Len(s) + 1
      BY <1>1, <1>6, <2>2
    <3>2. s2[n] = s[n] /\ s[n] \in Requests
      BY <1>6, <3>1
    <3>3. Size(s[n]) \in Nat
      BY <3>2, SizeFacts
    <3>4. /\ start[n + 1] = start[n] + Size(s[n])
          /\ \A m \in n + 1 .. Len(s) + 1 : start[n] + Size(s[n]) <= start[m]
          /\ \A k \in 1 .. Size(s[n]) : u[start[n] + k - 1] = Bytes(c, n, s[n])[k]
      BY <1>7, <3>1 DEF Cuts
    <3>5. f[n] = start[n] /\ f[n + 1] = start[n + 1] /\ f[n] \in 1 .. Len(u) + 1
      BY <1>8, <3>1
    <3>6. ASSUME NEW m \in n + 1 .. last  PROVE f[n] + Size(s[n]) <= f[m]
      <4>1. m \in h + 1 .. last /\ m \in n + 1 .. Len(s) + 1
        BY <1>1, <1>6, <3>1
      <4>2. start[n] + Size(s[n]) <= start[m]
        BY <3>4, <4>1
      <4>3. f[m] = start[m]
        BY <1>8, <4>1
      <4> QED  BY ONLY <3>5, <4>2, <4>3
    <3>7. f[n] + Size(s[n]) <= Len(u) + 1
      <4>1. last \in n + 1 .. last
        BY <1>1, <3>1
      <4> QED  BY <1>10, <3>6, <4>1
    <3>8. f[n] + Size(s[n]) <= f[last + 1]
      BY <1>4, <1>8, <3>3, <3>5, <3>7, SMTT(30)
    <3>9. ASSUME NEW m \in n + 1 .. last + 1  PROVE f[n] + Size(s[n]) <= f[m]
      <4>1. m = last + 1 \/ m \in n + 1 .. last
        BY <1>1, <3>1
      <4> QED  BY <3>6, <3>8, <4>1
    <3>10. ASSUME NEW k \in 1 .. Size(s[n])  PROVE v[f[n] + k - 1] = Bytes(c, n, s[n])[k]
      <4>1. f[n] + k - 1 \in 1 .. Len(u)
        BY <1>4, <3>3, <3>5, <3>7, SMTT(30)
      <4>2. f[n] + k - 1 \in 1 .. Len(u) + z /\ f[n] + k - 1 <= Len(u)
        BY <1>4, <4>1
      <4>3. v[f[n] + k - 1] = u[f[n] + k - 1]
        BY <1>5, <4>2
      <4>4. u[start[n] + k - 1] = Bytes(c, n, s[n])[k]
        BY <3>4
      <4> QED  BY <3>5, <4>3, <4>4
    <3> QED  BY <3>2, <3>4, <3>5, <3>9, <3>10
  <2> QED  BY <2>1, <2>2
<1>12. Cuts(f, v, c, h, s2)
  BY <1>4, <1>6, <1>8, <1>10, <1>11 DEF Cuts
<1>13. Whole(v, c, h, s2)
  BY <1>1, <1>6, <1>9, <1>12 DEF Whole
<1> QED  BY <1>1, <1>13 DEF v, s2, bytes

------------------------------------------------------------------------------
(* The buffer and the parser. *)

(* The unparsed bytes are a stream, as long as its two parts.              *)
LEMMA UnparsedType ==
  StateInv => Unparsed \in Streams /\ Len(Unparsed) = buf_len + Len(wire)
<1> SUFFICES ASSUME StateInv  PROVE Unparsed \in Streams /\ Len(Unparsed) = buf_len + Len(wire)
  OBVIOUS
<1>1. /\ buf_len \in Nat /\ buf_len <= BufferSize /\ BufferSize \in Nat
      /\ wire \in Seq(Byte) /\ Len(wire) \in Nat
      /\ rx_buf \in [1 .. BufferSize -> Byte \cup {NoByte}]
  BY FramingAssumption DEF StateInv, TypeOK, BufferTypes
<1>2. ASSUME NEW i \in 1 .. buf_len + Len(wire)
      PROVE  (IF i <= buf_len THEN rx_buf[i] ELSE wire[i - buf_len]) \in Byte \cup {NoByte}
  <2>1. CASE i <= buf_len
    BY <1>1, <2>1
  <2>2. CASE ~(i <= buf_len)
    <3>1. i - buf_len \in 1 .. Len(wire)
      BY <1>1, <2>2
    <3> QED  BY <1>1, <2>2, <3>1
  <2> QED  BY <2>1, <2>2
<1> QED  BY <1>1, <1>2 DEF Unparsed, Streams

(* The types and ranges the steps on the stream need, and the byte at each *)
(* place of the unparsed ones.                                             *)
LEMMA UnparsedFacts ==
  ASSUME StateInv
  PROVE  /\ Unparsed \in Streams /\ Len(Unparsed) = buf_len + Len(wire)
         /\ \A i \in 1 .. buf_len + Len(wire) :
              Unparsed[i] = IF i <= buf_len THEN rx_buf[i] ELSE wire[i - buf_len]
         /\ conn \in Nat /\ sent \in Seq(Requests) /\ Len(sent) \in Nat /\ Len(handled) \in Nat
         /\ buf_len \in Nat /\ buf_len <= BufferSize /\ BufferSize \in Nat
         /\ wire \in Seq(Byte) /\ Len(wire) \in Nat
         /\ rx_buf \in [1 .. BufferSize -> Byte \cup {NoByte}]
<1>1. /\ conn \in Nat /\ sent \in Seq(Requests) /\ Len(sent) \in Nat /\ Len(handled) \in Nat
      /\ buf_len \in Nat /\ buf_len <= BufferSize /\ BufferSize \in Nat
      /\ wire \in Seq(Byte) /\ Len(wire) \in Nat
      /\ rx_buf \in [1 .. BufferSize -> Byte \cup {NoByte}]
  BY FramingAssumption DEF StateInv, TypeOK, BufferTypes
<1> QED  BY <1>1, UnparsedType DEF Unparsed

(* The next request is at the start of what has not been parsed. *)
LEMMA NextAtHead ==
  ASSUME StateInv, StreamWhole, Len(handled) < Len(sent)
  PROVE  LET next == sent[Len(handled) + 1]
         IN  /\ next \in Requests
             /\ Size(next) \in Nat /\ Size(next) >= 1 /\ Size(next) <= Len(Unparsed)
             /\ \A k \in 1 .. Size(next) :
                  Unparsed[k] = [conn |-> conn, nr |-> Len(handled) + 1, at |-> k, request |-> next]
<1>1. Whole(Unparsed, conn, Len(handled), sent)
  BY DEF StreamWhole
<1>2. Unparsed \in Streams /\ conn \in Nat /\ Len(handled) \in Nat /\ sent \in Seq(Requests)
  BY UnparsedFacts
<1> QED  BY <1>1, <1>2, WholeHead

(* What is in the buffer is the beginning of the next request. *)
LEMMA RequestAtHead ==
  ASSUME StateInv, StreamWhole, Len(handled) < Len(sent),
         NEW n \in Nat, n >= 1, n <= buf_len, n <= Size(sent[Len(handled) + 1])
  PROVE  RequestAt(n) = sent[Len(handled) + 1]
<1> DEFINE next == sent[Len(handled) + 1]
<1>1. /\ Size(next) \in Nat /\ Size(next) <= Len(Unparsed)
      /\ \A k \in 1 .. Size(next) :
           Unparsed[k] = [conn |-> conn, nr |-> Len(handled) + 1, at |-> k, request |-> next]
  BY NextAtHead
<1>2. \A k \in 1 .. n :
        rx_buf[k] = [conn |-> conn, nr |-> Len(handled) + 1, at |-> k, request |-> next]
  <2> TAKE k \in 1 .. n
  <2>1. k \in 1 .. Size(next) /\ k <= buf_len /\ k \in 1 .. buf_len + Len(wire)
    BY <1>1, UnparsedFacts, SMTT(30)
  <2> QED  BY <1>1, <2>1, UnparsedFacts
<1>3. rx_buf[1] = [conn |-> conn, nr |-> Len(handled) + 1, at |-> 1, request |-> next]
  BY <1>2
<1>4. rx_buf[1] # NoByte
  BY <1>3 DEF NoByte
<1>5. \A i \in 1 .. n : rx_buf[i] = [rx_buf[1] EXCEPT !.at = i]
  BY <1>2, <1>3
<1> QED  BY <1>3, <1>4, <1>5 DEF RequestAt

(* Once a header is in the buffer, the parser takes for the next request   *)
(* what is the next request, and waits for just its bytes.                 *)
LEMMA NextParsed ==
  ASSUME StateInv, StreamWhole, buf_len >= HeaderSize
  PROVE  LET next == sent[Len(handled) + 1]
         IN  /\ Len(handled) < Len(sent)
             /\ next \in Requests
             /\ SizeKnown => (Recognised <=> next.command # "OTHER")
             /\ SizeKnown /\ Recognised => Needed = Size(next)
<1> DEFINE next == sent[Len(handled) + 1]
<1>1. /\ sent \in Seq(Requests) /\ Len(sent) \in Nat /\ Len(handled) \in Nat
      /\ buf_len \in Nat /\ Len(wire) \in Nat
  BY FramingAssumption DEF StateInv, TypeOK, BufferTypes
<1>2. Len(handled) < Len(sent)
  <2>1. SUFFICES ASSUME Len(handled) = Len(sent)  PROVE FALSE
    BY <1>1 DEF StreamWhole, Whole
  <2>2. Len(Unparsed) = 0
    BY <2>1, WholeDone, UnparsedFacts DEF StreamWhole
  <2> QED  BY <1>1, <2>2, UnparsedFacts, FramingAssumption
<1>3. next \in Requests
  BY <1>2, NextAtHead
<1>4. /\ Size(next) \in Nat /\ Size(next) >= HeaderSize
      /\ next.command \in {"DEVLIST", "IMPORT", "UNLINK", "SUBMIT", "OTHER"}
      /\ next.command = "DEVLIST" => Size(next) = HeaderSize
      /\ next.command = "IMPORT" => Size(next) = ImportSize
      /\ next.command \in {"UNLINK", "OTHER"} => Size(next) = CommandSize
      /\ next.command = "SUBMIT" => Size(next) = SubmitSize(next) /\ Size(next) >= CommandSize
  BY <1>3, SizeFacts
<1>5. RequestAt(HeaderSize) = next
  BY <1>2, <1>4, RequestAtHead, FramingAssumption
<1>6. IsOp <=> next.command \in {"DEVLIST", "IMPORT"}
  BY <1>5 DEF IsOp, Command
<1>7. RequestAt(CommandSize).command \in {next.command, "OTHER"}
  <2>1. 1 \in 1 .. Size(next) /\ 1 <= buf_len
    BY <1>1, <1>4, FramingAssumption
  <2>2. Unparsed[1] = [conn |-> conn, nr |-> Len(handled) + 1, at |-> 1, request |-> next]
    BY <1>2, <2>1, NextAtHead
  <2>3. rx_buf[1].request = next
    BY <1>1, <2>1, <2>2, UnparsedFacts
  <2> QED  BY <2>3 DEF RequestAt
<1>8. ASSUME SizeKnown, ~IsOp  PROVE RequestAt(CommandSize) = next
  <2>1. buf_len >= CommandSize
    BY <1>8 DEF SizeKnown
  <2>2. Size(next) >= CommandSize
    BY <1>4, <1>6, <1>8, FramingAssumption
  <2> QED  BY <1>2, <2>1, <2>2, RequestAtHead, FramingAssumption
<1>9. SizeKnown => (Recognised <=> next.command # "OTHER")
  BY <1>4, <1>6, <1>8 DEF Recognised, Command
<1>10. ASSUME SizeKnown, Recognised  PROVE Needed = Size(next)
  <2>1. CASE next.command = "DEVLIST"
    BY <1>4, <1>5, <1>7, <2>1 DEF Needed, Command
  <2>2. CASE next.command = "IMPORT"
    BY <1>4, <1>5, <1>7, <2>2 DEF Needed, Command
  <2>3. CASE next.command = "UNLINK"
    BY <1>4, <1>5, <1>6, <1>8, <1>10, <2>3 DEF Needed, Command
  <2>4. CASE next.command = "SUBMIT"
    BY <1>4, <1>5, <1>6, <1>8, <1>10, <2>4 DEF Needed, Command
  <2> QED  BY <1>4, <1>9, <1>10, <2>1, <2>2, <2>3, <2>4
<1> QED  BY <1>2, <1>3, <1>9, <1>10

(* A complete request is the next one, whole. *)
LEMMA CompleteWhole ==
  ASSUME StateInv, StreamWhole, Complete
  PROVE  /\ Len(handled) < Len(sent)
         /\ Needed = Size(sent[Len(handled) + 1])
         /\ Needed \in Nat /\ Needed >= 1 /\ Needed <= buf_len
         /\ SubSeq(rx_buf, 1, Needed) = Bytes(conn, Len(handled) + 1, sent[Len(handled) + 1])
         /\ SubSeq(rx_buf, 1, Needed) \in Seq(Byte)
<1> DEFINE next == sent[Len(handled) + 1]
<1>1. /\ buf_len >= HeaderSize /\ SizeKnown /\ Recognised /\ buf_len >= Needed
  BY DEF Complete
<1>2. Len(handled) < Len(sent) /\ next \in Requests /\ Needed = Size(next)
  BY <1>1, NextParsed
<1>3. Size(next) \in Nat /\ Size(next) >= 1
  BY <1>2, SizeFacts
<1>4. /\ buf_len \in 0 .. BufferSize /\ BufferSize \in Nat /\ conn \in Nat
      /\ Len(handled) + 1 \in Nat
      /\ rx_buf \in [1 .. BufferSize -> Byte \cup {NoByte}]
  BY FramingAssumption DEF StateInv, TypeOK, BufferTypes
<1>5. \A k \in 1 .. Needed : Unparsed[k] =
        [conn |-> conn, nr |-> Len(handled) + 1, at |-> k, request |-> next]
  BY <1>2, NextAtHead
<1>6. \A k \in 1 .. Needed : rx_buf[k] =
        [conn |-> conn, nr |-> Len(handled) + 1, at |-> k, request |-> next]
  <2> TAKE k \in 1 .. Needed
  <2>1. k <= buf_len /\ k \in 1 .. buf_len + Len(wire)
    BY <1>1, <1>2, <1>3, UnparsedFacts
  <2> QED  BY <1>5, <2>1, UnparsedFacts
<1>7. rx_buf \in Seq(Byte \cup {NoByte}) /\ Len(rx_buf) = BufferSize
  BY <1>4
<1>8. SubSeq(rx_buf, 1, Needed) = [k \in 1 .. Needed |-> rx_buf[k]]
  BY <1>1, <1>2, <1>3, <1>4, <1>7
<1>9. SubSeq(rx_buf, 1, Needed) = Bytes(conn, Len(handled) + 1, next)
  BY <1>2, <1>6, <1>8 DEF Bytes
<1>10. Bytes(conn, Len(handled) + 1, next) \in Seq(Byte)
  BY <1>2, <1>4, BytesFacts
<1> QED  BY <1>1, <1>2, <1>3, <1>9, <1>10

------------------------------------------------------------------------------
(* Types, sessions and the claims on send_response. *)

(* The types and the claims on send_response hold at the start.            *)
LEMMA StateInit == Init => StateInv
<1> SUFFICES ASSUME Init  PROVE StateInv
  OBVIOUS
<1>1. TypeOK
  <2>1. conn \in 0 .. MaxConns /\ client_sock \in {NoSock, conn} /\ sent \in Seq(Requests)
    BY FramingAssumption DEF Init, NoSock
  <2>2. DOMAIN rx_buf = 1 .. BufferSize /\ buf_len \in 0 .. BufferSize
    BY FramingAssumption DEF Init
  <2>3. replying \in [Tasks -> Replies]
    BY FramingAssumption DEF Init, Replies, NoReply
  <2>4. send_mutex \in [task : Tasks \cup {"none"}, began : 0 .. MaxConns, done : 0 .. ReplySize - 1]
    BY FramingAssumption DEF Init, Unlocked
  <2> QED  BY <2>1, <2>2, <2>3, <2>4 DEF Init, TypeOK
<1>2. BufferTypes
  BY DEF Init, BufferTypes
<1>3. Sessions
  BY FramingAssumption DEF Init, Sessions
<1>4. Claims
  BY DEF Init, Claims, Unlocked, Tasks
<1> QED  BY <1>1, <1>2, <1>3, <1>4 DEF StateInv

(* What the client and the network do. *)
LEMMA SendState ==
  ASSUME StateInv, NEW r \in Requests, Send(r)
  PROVE  StateInv'
<1>1. /\ conn \in Nat /\ conn >= 1 /\ Len(sent) \in Nat /\ sent \in Seq(Requests)
  BY FramingAssumption DEF StateInv, TypeOK, Sessions, Send
<1>2. Len(sent) + 1 <= MaxRequests
  BY <1>1, FramingAssumption DEF Send
<1>3. sent' = Append(sent, r) /\ sent' \in Seq(Requests) /\ Len(sent') = Len(sent) + 1
  BY <1>1 DEF Send
<1>4. Bytes(conn, Len(sent) + 1, r) \in Seq(Byte)
  <2>1. Len(sent) + 1 \in Nat
    BY <1>1
  <2> QED  BY <1>1, <2>1, BytesFacts
<1>5. wire' \in Seq(Byte)
  BY <1>3, <1>4 DEF Send, StateInv, BufferTypes
<1>6. TypeOK'
  BY <1>3 DEF StateInv, TypeOK, Send, replyVars
<1>7. BufferTypes'
  BY <1>5 DEF StateInv, BufferTypes, Send, replyVars
<1>8. Sessions' /\ Claims'
  BY <1>2, <1>3 DEF StateInv, Sessions, Claims, Send, replyVars
<1> QED  BY <1>6, <1>7, <1>8 DEF StateInv

(* One lemma per group of actions: StateInv is kept.  A connection is      *)
(* accepted.                                                               *)
LEMMA AcceptState ==
  ASSUME StateInv, Accept
  PROVE  StateInv'
<1>1. TypeOK'
  <2>1. conn' \in 0 .. MaxConns /\ client_sock' \in {NoSock, conn'}
    BY FramingAssumption DEF StateInv, TypeOK, Sessions, Accept
  <2>2. sent' \in Seq(Requests) /\ buf_len' \in 0 .. BufferSize /\ buf_len' < BufferSize
    BY FramingAssumption DEF Accept, StartEmpty
  <2> QED  BY <2>1, <2>2 DEF StateInv, TypeOK, Accept
<1>2. BufferTypes'
  BY DEF StateInv, BufferTypes, Accept
<1>3. Sessions' /\ Claims'
  BY FramingAssumption DEF StateInv, TypeOK, Sessions, Claims, Accept, NoReply
<1> QED  BY <1>1, <1>2, <1>3 DEF StateInv

(* recv() appends bytes of the wire to the buffer.                         *)
LEMMA RecvState ==
  ASSUME StateInv, NEW n \in 1 .. BufferSize, Recv(n)
  PROVE  StateInv'
<1>1. /\ wire \in Seq(Byte) /\ n \in Nat /\ n <= Len(wire) /\ Len(wire) \in Nat
      /\ buf_len \in 0 .. BufferSize /\ BufferSize \in Nat /\ n <= BufferSize - buf_len
      /\ rx_buf \in [1 .. BufferSize -> Byte \cup {NoByte}]
  BY FramingAssumption DEF StateInv, TypeOK, BufferTypes, Recv
<1>2. wire' \in Seq(Byte)
  BY <1>1 DEF Recv
<1>3. rx_buf' \in [1 .. BufferSize -> Byte \cup {NoByte}]
  <2>1. \A i \in 1 .. BufferSize : i > buf_len /\ i <= buf_len + n => wire[i - buf_len] \in Byte
    BY <1>1
  <2> QED  BY <1>1, <2>1 DEF Recv
<1>4. buf_len' \in 0 .. BufferSize /\ pc' = "parse"
  BY <1>1 DEF Recv
<1>5. TypeOK'
  BY <1>3, <1>4 DEF StateInv, TypeOK, Recv, replyVars
<1>6. BufferTypes'
  BY <1>2, <1>3 DEF StateInv, BufferTypes, Recv, replyVars
<1>7. Sessions' /\ Claims'
  BY DEF StateInv, Sessions, Claims, Recv, replyVars
<1> QED  BY <1>5, <1>6, <1>7 DEF StateInv

(* What follows a request is moved to the start of the buffer. *)
LEMMA ParseRequestState ==
  ASSUME StateInv, StreamWhole, ParseRequest
  PROVE  StateInv'
<1> DEFINE reply == [conn |-> conn, nr |-> Len(handled')]
<1>1. /\ buf_len \in 0 .. BufferSize /\ BufferSize \in Nat /\ conn \in 1 .. MaxConns
      /\ MaxConns \in Nat /\ MaxRequests \in Nat /\ Len(sent) \in Nat /\ Len(sent) <= MaxRequests
      /\ handled \in Seq(Seq(Byte)) /\ Len(handled) \in Nat
      /\ rx_buf \in [1 .. BufferSize -> Byte \cup {NoByte}]
  BY FramingAssumption, SMTT(30) DEF StateInv, TypeOK, BufferTypes, Sessions, ParseRequest
<1>2. /\ Len(handled) < Len(sent) /\ Needed \in Nat /\ Needed >= 1 /\ Needed <= buf_len
      /\ SubSeq(rx_buf, 1, Needed) \in Seq(Byte)
  BY CompleteWhole DEF ParseRequest
<1>3. handled' \in Seq(Seq(Byte)) /\ Len(handled') = Len(handled) + 1
  BY <1>1, <1>2 DEF ParseRequest
<1>4. reply \in Replies /\ reply # NoReply
  BY <1>1, <1>2, <1>3 DEF Replies, NoReply
<1>5. rx_buf' \in [1 .. BufferSize -> Byte \cup {NoByte}]
  <2>1. \A i \in 1 .. BufferSize : i <= buf_len - Needed => i + Needed \in 1 .. BufferSize
    BY <1>1, <1>2
  <2> QED  BY <1>1, <2>1 DEF ParseRequest, Shifted
<1>6. buf_len' \in 0 .. BufferSize
  BY <1>1, <1>2 DEF ParseRequest
<1>7. BufferTypes'
  BY <1>3, <1>5 DEF StateInv, BufferTypes, ParseRequest
<1>8. Sessions'
  BY <1>1 DEF StateInv, Sessions, ParseRequest
<1>9. replying["tcp"] = NoReply /\ send_mutex.task # "tcp"
  BY DEF StateInv, Claims, ParseRequest
<1>10. CASE /\ pc' = "reply"
            /\ replying' = [replying EXCEPT !["tcp"] = reply]
            /\ UNCHANGED submitted
  <2>1. TypeOK'
    BY <1>1, <1>4, <1>5, <1>6, <1>10 DEF StateInv, TypeOK, ParseRequest, Tasks
  <2>2. Claims'
    BY <1>4, <1>9, <1>10 DEF StateInv, TypeOK, Claims, ParseRequest, Tasks
  <2> QED  BY <1>7, <1>8, <2>1, <2>2 DEF StateInv
<1>11. CASE submitted' = submitted \cup {reply} /\ UNCHANGED <<pc, replying>>
  <2>1. TypeOK'
    BY <1>1, <1>4, <1>5, <1>6, <1>11 DEF StateInv, TypeOK, ParseRequest
  <2>2. Claims'
    BY <1>4, <1>11 DEF StateInv, Claims, ParseRequest
  <2> QED  BY <1>7, <1>8, <2>1, <2>2 DEF StateInv
<1> QED  BY <1>10, <1>11 DEF ParseRequest

(* The other steps of usbip_tcp. *)
LEMMA TcpState ==
  ASSUME StateInv, RecvEnds \/ Unrecognized \/ Incomplete \/ Cleanup
  PROVE  StateInv'
<1>1. CASE RecvEnds \/ Unrecognized
  <2>1. TypeOK'
    BY <1>1 DEF StateInv, TypeOK, RecvEnds, Unrecognized, requestVars, replyVars
  <2>2. (BufferTypes /\ Sessions /\ Claims)'
    BY <1>1 DEF StateInv, BufferTypes, Sessions, Claims, RecvEnds, Unrecognized,
                requestVars, replyVars
  <2> QED  BY <2>1, <2>2 DEF StateInv
<1>2. CASE Incomplete
  <2>1. TypeOK'
    BY <1>2, FramingAssumption DEF StateInv, TypeOK, Incomplete, Full, requestVars, replyVars
  <2>2. (BufferTypes /\ Sessions /\ Claims)'
    BY <1>2 DEF StateInv, BufferTypes, Sessions, Claims, Incomplete, requestVars, replyVars
  <2> QED  BY <2>1, <2>2 DEF StateInv
<1>3. CASE Cleanup
  <2>1. TypeOK'
    BY <1>3 DEF StateInv, TypeOK, Cleanup, NoSock, requestVars
  <2>2. (BufferTypes /\ Sessions /\ Claims)'
    BY <1>3 DEF StateInv, BufferTypes, Sessions, Claims, Cleanup, requestVars
  <2> QED  BY <2>1, <2>2 DEF StateInv
<1> QED  BY <1>1, <1>2, <1>3

(* The USB task begins to answer a completed transfer.                     *)
LEMMA TransferDoneState ==
  ASSUME StateInv, NEW reply \in submitted, TransferDone(reply)
  PROVE  StateInv'
<1>1. reply \in Replies /\ reply # NoReply
  BY DEF StateInv, TypeOK, Claims
<1>2. TypeOK'
  BY <1>1 DEF StateInv, TypeOK, TransferDone, Tasks, requestVars
<1>3. (BufferTypes /\ Sessions)'
  BY DEF StateInv, BufferTypes, Sessions, TransferDone, requestVars
<1>4. Claims'
  BY <1>1 DEF StateInv, TypeOK, Claims, TransferDone, Tasks
<1> QED  BY <1>2, <1>3, <1>4 DEF StateInv

(* A task leaves send_response. *)
LEMMA ReturnState ==
  ASSUME StateInv, NEW t \in Tasks, replying[t] # NoReply, Return(t), received' \in Seq(Piece),
         torn' \in BOOLEAN, UNCHANGED <<conn, client_sock, requestVars, submitted>>
  PROVE  StateInv'
<1>1. NoReply \in Replies
  BY FramingAssumption DEF NoReply, Replies
<1>2. Unlocked \in [task : Tasks \cup {"none"}, began : 0 .. MaxConns, done : 0 .. ReplySize - 1]
  BY FramingAssumption DEF Unlocked
<1>3. TypeOK'
  <2>1. replying' \in [Tasks -> Replies]
    BY <1>1 DEF StateInv, TypeOK, Return
  <2>2. send_mutex' = Unlocked
    BY DEF Return
  <2>3. pc' \in {"accept", "recv", "parse", "reply", "cleanup"} /\ (pc' = "recv" => pc = "recv")
    BY DEF StateInv, TypeOK, Return
  <2> QED  BY <1>2, <2>1, <2>2, <2>3 DEF StateInv, TypeOK, requestVars
<1>4. t = "tcp" => pc = "reply"
  BY DEF StateInv, Claims
<1>5. BufferTypes'
  BY DEF StateInv, BufferTypes, requestVars
<1>6. Sessions'
  BY <1>4 DEF StateInv, Sessions, Return, requestVars
<1>7. Claims'
  <2>1. (replying["tcp"] # NoReply)' <=> (pc = "reply")'
    BY <1>4 DEF StateInv, TypeOK, Claims, Return, Tasks
  <2>2. /\ NoReply \notin submitted' /\ send_mutex' = Unlocked /\ send_mutex'.task = "none"
        /\ send_mutex'.began = 0 /\ conn' \in Nat
    BY FramingAssumption DEF StateInv, TypeOK, Claims, Return, Unlocked
  <2> QED  BY <2>1, <2>2 DEF Claims
<1> QED  BY <1>3, <1>5, <1>6, <1>7 DEF StateInv

(* What a task sends are pieces of its reply. *)
LEMMA PiecesSent ==
  ASSUME StateInv, NEW t \in Tasks, NEW n \in 1 .. ReplySize, SendSome(t, n)
  PROVE  LET done == send_mutex.done
             more == [k \in 1 .. n |-> [of |-> replying[t], at |-> done + k]]
         IN  /\ replying[t] # NoReply /\ n \in Nat /\ n >= 1
             /\ done \in Nat /\ done + n <= ReplySize /\ done < ReplySize
             /\ more \in Seq(Piece) /\ Len(more) = n
             /\ received' = received \o more /\ received' \in Seq(Piece)
<1> DEFINE done == send_mutex.done
<1> DEFINE more == [k \in 1 .. n |-> [of |-> replying[t], at |-> done + k]]
<1>1. /\ replying[t] \in Replies /\ ReplySize \in Nat /\ n \in Nat /\ n >= 1
      /\ done \in 0 .. ReplySize - 1 /\ n <= ReplySize - done
  BY FramingAssumption, SMTT(30) DEF StateInv, TypeOK, SendSome
<1>2. replying[t] # NoReply
  BY DEF StateInv, Claims, SendSome, Tasks
<1>3. \A k \in 1 .. n : [of |-> replying[t], at |-> done + k] \in Piece
  BY <1>1 DEF Piece
<1>4. more \in Seq(Piece) /\ Len(more) = n
  BY <1>1, <1>3
<1>5. received' = received \o more
  BY DEF SendSome
<1>6. received' \in Seq(Piece)
  BY <1>4, <1>5 DEF StateInv, BufferTypes
<1> QED  BY <1>1, <1>2, <1>4, <1>5, <1>6

(* A task goes through send_response.                                      *)
LEMMA SendingState ==
  ASSUME StateInv, NEW t \in Tasks, Sending(t)
  PROVE  StateInv'
<1>1. CASE SendBegin(t)
  <2>1. CASE client_sock = NoSock
    BY <1>1, <2>1, ReturnState DEF SendBegin, StateInv, TypeOK, BufferTypes
  <2>2. CASE client_sock # NoSock
    <3>1. /\ send_mutex' = [task |-> t, began |-> client_sock, done |-> 0]
          /\ UNCHANGED <<conn, client_sock, requestVars, submitted, replying, pc, received, torn>>
          /\ replying[t] # NoReply
      BY <1>1, <2>2 DEF SendBegin
    <3>2. client_sock = conn /\ conn \in 0 .. MaxConns
      BY <2>2 DEF StateInv, TypeOK
    <3>3. send_mutex' \in [task : Tasks \cup {"none"}, began : 0 .. MaxConns,
                           done : 0 .. ReplySize - 1]
      BY <3>1, <3>2, FramingAssumption
    <3>4. TypeOK'
      BY <3>1, <3>3 DEF StateInv, TypeOK, requestVars
    <3>5. (BufferTypes /\ Sessions)'
      BY <3>1 DEF StateInv, BufferTypes, Sessions, requestVars
    <3>6. Claims'
      BY <3>1, <3>2, FramingAssumption DEF StateInv, Claims, Tasks
    <3> QED  BY <3>4, <3>5, <3>6 DEF StateInv
  <2> QED  BY <2>1, <2>2
<1>2. CASE SendFails(t)
  <2>1. replying[t] # NoReply
    BY <1>2 DEF SendFails, StateInv, Claims, Tasks
  <2>2. torn' \in BOOLEAN /\ received' \in Seq(Piece)
    BY <1>2 DEF SendFails, StateInv, TypeOK, BufferTypes
  <2> QED  BY <1>2, <2>1, <2>2, ReturnState DEF SendFails
<1>3. ASSUME NEW n \in 1 .. ReplySize, SendSome(t, n)  PROVE StateInv'
  <2>1. /\ replying[t] # NoReply /\ received' \in Seq(Piece) /\ n \in Nat /\ n >= 1
        /\ send_mutex.done \in Nat /\ send_mutex.done + n <= ReplySize
    BY <1>3, PiecesSent
  <2>2. torn' \in BOOLEAN
    BY <1>3 DEF SendSome, StateInv, TypeOK
  <2>3. CASE send_mutex.done + n = ReplySize
    BY <1>3, <2>1, <2>2, <2>3, ReturnState DEF SendSome
  <2>4. CASE send_mutex.done + n # ReplySize
    <3>1. /\ send_mutex' = [send_mutex EXCEPT !.done = @ + n]
          /\ UNCHANGED <<replying, pc, conn, client_sock, requestVars, submitted>>
          /\ send_mutex.task = t
      BY <1>3, <2>4 DEF SendSome
    <3>2. send_mutex.done + n \in 0 .. ReplySize - 1
      BY <2>1, <2>4, FramingAssumption
    <3>3. send_mutex' \in [task : Tasks \cup {"none"}, began : 0 .. MaxConns,
                           done : 0 .. ReplySize - 1]
      BY <3>1, <3>2 DEF StateInv, TypeOK
    <3>4. TypeOK'
      BY <3>1, <3>3, <2>2 DEF StateInv, TypeOK, requestVars
    <3>5. (BufferTypes /\ Sessions)'
      BY <2>1, <3>1 DEF StateInv, BufferTypes, Sessions, requestVars
    <3>6. Claims'
      BY <2>1, <3>1 DEF StateInv, TypeOK, Claims, Tasks
    <3> QED  BY <3>4, <3>5, <3>6 DEF StateInv
  <2> QED  BY <2>3, <2>4
<1> QED  BY <1>1, <1>2, <1>3 DEF Sending

(* No step breaks the types or the claims on send_response.                *)
LEMMA StateStep ==
  ASSUME StateInv, StreamWhole, [Next]_vars
  PROVE  StateInv'
<1>1. CASE Accept
  BY <1>1, AcceptState
<1>2. CASE Receive
  BY <1>2, RecvState DEF Receive
<1>3. CASE RecvEnds \/ Unrecognized \/ Incomplete \/ Cleanup
  BY <1>3, TcpState
<1>4. CASE ParseRequest
  BY <1>4, ParseRequestState
<1>5. ASSUME NEW r \in Requests, Send(r)  PROVE StateInv'
  BY <1>5, SendState
<1>6. ASSUME NEW reply \in submitted, TransferDone(reply)  PROVE StateInv'
  BY <1>6, TransferDoneState
<1>7. ASSUME NEW t \in Tasks, Sending(t)  PROVE StateInv'
  BY <1>7, SendingState
<1>8. CASE UNCHANGED vars
  BY <1>8 DEF vars, requestVars, replyVars, StateInv, TypeOK, BufferTypes, Sessions, Claims
<1> QED  BY <1>1, <1>2, <1>3, <1>4, <1>5, <1>6, <1>7, <1>8 DEF Next, Parse

------------------------------------------------------------------------------
(* The requests that have not been parsed are in the buffer and on the     *)
(* wire.                                                                   *)

(* Before the first connection there is nothing to parse.                  *)
LEMMA StreamInit == Init => StreamWhole
<1> SUFFICES ASSUME Init  PROVE StreamWhole
  OBVIOUS
<1>1. /\ Unparsed = <<>> /\ conn = 0 /\ handled = <<>> /\ sent = <<>>
  BY DEF Init, Unparsed
<1>2. Len(handled) = 0
  BY <1>1
<1> QED  BY <1>1, <1>2, WholeEmpty DEF StreamWhole

(* A connection begins with an empty buffer and nothing on the wire.       *)
LEMMA AcceptStream ==
  ASSUME StateInv, Accept
  PROVE  StreamWhole'
<1>1. Unparsed' = <<>> /\ handled' = <<>> /\ sent' = <<>> /\ conn' \in Nat
  BY UnparsedFacts DEF Accept, StartEmpty, Unparsed
<1>2. Len(handled') = 0
  BY <1>1
<1> QED  BY <1>1, <1>2, WholeEmpty DEF StreamWhole

(* recv() moves the cut between the buffer and the wire. *)
LEMMA RecvStream ==
  ASSUME StateInv, StreamWhole, NEW n \in 1 .. BufferSize, Recv(n)
  PROVE  StreamWhole'
<1>1. /\ n \in Nat /\ n <= Len(wire) /\ n <= BufferSize - buf_len /\ buf_len' = buf_len + n
      /\ rx_buf' = [i \in 1 .. BufferSize |->
                      IF i > buf_len /\ i <= buf_len + n THEN wire[i - buf_len] ELSE rx_buf[i]]
      /\ wire' = SubSeq(wire, n + 1, Len(wire))
      /\ UNCHANGED <<conn, sent, handled>>
  BY UnparsedFacts DEF Recv
<1>2. /\ Len(wire') = Len(wire) - n
      /\ \A j \in 1 .. Len(wire) - n : wire'[j] = wire[j + n]
  <2>1. wire \in Seq(Byte) /\ Len(wire) \in Nat /\ n \in Nat /\ n <= Len(wire)
    BY <1>1, UnparsedFacts
  <2>2. n + 1 \in Int /\ Len(wire) \in Int /\ \A i \in n + 1 .. Len(wire) : wire[i] \in Byte
    BY <2>1
  <2>3. /\ Len(SubSeq(wire, n + 1, Len(wire)))
              = IF n + 1 <= Len(wire) THEN Len(wire) - (n + 1) + 1 ELSE 0
        /\ \A j \in 1 .. Len(wire) - (n + 1) + 1 :
             SubSeq(wire, n + 1, Len(wire))[j] = wire[(n + 1) + j - 1]
    BY <2>2, SubSeqProperties
  <2>4. Len(SubSeq(wire, n + 1, Len(wire))) = Len(wire) - n
    BY ONLY <2>1, <2>3
  <2>5. ASSUME NEW j \in 1 .. Len(wire) - n
        PROVE  SubSeq(wire, n + 1, Len(wire))[j] = wire[j + n]
    <3>1. j \in 1 .. Len(wire) - (n + 1) + 1 /\ (n + 1) + j - 1 = j + n
      BY <2>1
    <3> QED  BY <2>3, <3>1
  <2> QED  BY <1>1, <2>4, <2>5
<1>3. buf_len' + Len(wire') = buf_len + Len(wire)
  BY <1>1, <1>2, UnparsedFacts, SMTT(30)
<1>4. ASSUME NEW i \in 1 .. buf_len + Len(wire)
      PROVE  (IF i <= buf_len' THEN rx_buf'[i] ELSE wire'[i - buf_len'])
               = IF i <= buf_len THEN rx_buf[i] ELSE wire[i - buf_len]
  <2>1. CASE i <= buf_len + n
    BY <1>1, <2>1, UnparsedFacts, SMTT(30)
  <2>2. CASE buf_len + n < i
    <3>1. i - (buf_len + n) \in 1 .. Len(wire) - n /\ i - (buf_len + n) + n = i - buf_len
      BY <1>1, <2>2, UnparsedFacts, SMTT(30)
    <3>2. wire'[i - (buf_len + n)] = wire[i - buf_len]
      BY <1>2, <3>1
    <3> QED  BY <1>1, <2>2, <3>2, UnparsedFacts, SMTT(30)
  <2> QED  BY <1>1, <2>1, <2>2, UnparsedFacts, SMTT(30)
<1>5. Unparsed' = Unparsed
  BY <1>3, <1>4 DEF Unparsed
<1> QED  BY <1>1, <1>5 DEF StreamWhole

(* The client appends a request. *)
LEMMA SendStream ==
  ASSUME StateInv, StreamWhole, NEW r \in Requests, Send(r)
  PROVE  StreamWhole'
<1>1. /\ sent' = Append(sent, r) /\ Len(sent') = Len(sent) + 1
      /\ wire' = wire \o Bytes(conn, Len(sent) + 1, r)
      /\ UNCHANGED <<conn, rx_buf, buf_len, handled>>
  BY UnparsedFacts DEF Send
<1> DEFINE bytes == Bytes(conn, Len(sent) + 1, r)
<1>2. bytes \in Seq(Byte) /\ bytes \in Streams /\ Len(bytes) \in Nat
  <2>1. Len(sent) + 1 \in Nat /\ conn \in Nat
    BY UnparsedFacts
  <2>2. bytes \in Seq(Byte)
    BY <2>1, BytesFacts
  <2> QED  BY <2>2 DEF Streams
<1> HIDE DEF bytes
<1>3. /\ Len(wire \o bytes) = Len(wire) + Len(bytes)
      /\ \A i \in 1 .. Len(wire) + Len(bytes) :
           (wire \o bytes)[i] = IF i <= Len(wire) THEN wire[i] ELSE bytes[i - Len(wire)]
  BY <1>2, UnparsedFacts, ConcatProperties
<1>4. /\ Unparsed \o bytes \in Streams
      /\ Len(Unparsed \o bytes) = Len(Unparsed) + Len(bytes)
      /\ \A i \in 1 .. Len(Unparsed) + Len(bytes) :
           (Unparsed \o bytes)[i]
             = IF i <= Len(Unparsed) THEN Unparsed[i] ELSE bytes[i - Len(Unparsed)]
  BY <1>2, UnparsedFacts, ConcatProperties DEF Streams
<1>5. wire' = wire \o bytes
  BY <1>1 DEF bytes
<1>6. Unparsed' = [i \in 1 .. buf_len + Len(wire \o bytes) |->
                     IF i <= buf_len THEN rx_buf[i] ELSE (wire \o bytes)[i - buf_len]]
  BY <1>1, <1>5 DEF Unparsed
<1> DEFINE size == buf_len + Len(wire) + Len(bytes)
<1>7. ASSUME NEW i \in 1 .. size
      PROVE  (IF i <= buf_len THEN rx_buf[i] ELSE (wire \o bytes)[i - buf_len])
               = (Unparsed \o bytes)[i]
  <2>1. CASE i <= buf_len + Len(wire)
    <3>1. (Unparsed \o bytes)[i] = Unparsed[i]
      BY <1>2, <1>4, <2>1, UnparsedFacts
    <3>2. Unparsed[i] = IF i <= buf_len THEN rx_buf[i] ELSE wire[i - buf_len]
      BY <2>1, UnparsedFacts, SMTT(30)
    <3>3. ~(i <= buf_len) => (wire \o bytes)[i - buf_len] = wire[i - buf_len]
      BY <1>2, <1>3, <2>1, UnparsedFacts, SMTT(30)
    <3> QED  BY <3>1, <3>2, <3>3
  <2>2. CASE ~(i <= buf_len + Len(wire))
    <3>1. (Unparsed \o bytes)[i] = bytes[i - (buf_len + Len(wire))]
      BY <1>2, <1>4, <2>2, UnparsedFacts
    <3>2. (wire \o bytes)[i - buf_len] = bytes[(i - buf_len) - Len(wire)]
      BY <1>2, <1>3, <2>2, UnparsedFacts, SMTT(30)
    <3>3. (i - buf_len) - Len(wire) = i - (buf_len + Len(wire)) /\ ~(i <= buf_len)
      BY <2>2, UnparsedFacts
    <3> QED  BY <3>1, <3>2, <3>3
  <2> QED  BY <2>1, <2>2
<1>8. buf_len + Len(wire \o bytes) = size /\ Len(Unparsed \o bytes) = size
  <2>1. /\ Len(Unparsed) = buf_len + Len(wire) /\ buf_len \in Nat /\ Len(wire) \in Nat
    BY UnparsedFacts
  <2>2. Len(wire \o bytes) = Len(wire) + Len(bytes)
    BY <1>3
  <2>3. Len(Unparsed \o bytes) = Len(Unparsed) + Len(bytes)
    BY <1>4
  <2> QED  BY ONLY <1>2, <2>1, <2>2, <2>3
<1>9. Unparsed \o bytes = [i \in 1 .. size |-> (Unparsed \o bytes)[i]]
  <2>1. \A q \in Streams : q = [i \in 1 .. Len(q) |-> q[i]]
    BY DEF Streams
  <2> QED  BY <1>4, <1>8, <2>1
<1>10. Unparsed' = Unparsed \o bytes
  BY <1>6, <1>7, <1>8, <1>9
<1>11. Whole(Unparsed \o bytes, conn, Len(handled), Append(sent, r))
  BY WholeAppend, UnparsedFacts DEF StreamWhole, bytes
<1> QED  BY <1>1, <1>10, <1>11 DEF StreamWhole

(* A request is taken out of the buffer. *)
LEMMA ParseRequestStream ==
  ASSUME StateInv, StreamWhole, ParseRequest
  PROVE  StreamWhole'
<1>1. PICK z \in Nat : z = Needed
  BY CompleteWhole DEF ParseRequest
<1>2. /\ Len(handled) < Len(sent) /\ z = Size(sent[Len(handled) + 1]) /\ z <= buf_len
      /\ SubSeq(rx_buf, 1, z) \in Seq(Byte)
  BY <1>1, CompleteWhole DEF ParseRequest
<1>3. /\ buf_len' = buf_len - z
      /\ rx_buf' = [i \in 1 .. BufferSize |-> IF i <= buf_len - z THEN rx_buf[i + z] ELSE rx_buf[i]]
      /\ handled' = Append(handled, SubSeq(rx_buf, 1, z))
      /\ UNCHANGED <<conn, sent, wire>>
  BY <1>1 DEF ParseRequest, Shifted
<1>4. Len(handled') = Len(handled) + 1
  BY <1>2, <1>3 DEF StateInv, BufferTypes
<1>5. StateInv'
  BY ParseRequestState
<1>6. (Unparsed \in Streams /\ Len(Unparsed) = buf_len + Len(wire))'
  BY <1>5, UnparsedType, PTL
<1>7. \A i \in 1 .. buf_len' + Len(wire') :
        Unparsed'[i] = IF i <= buf_len' THEN rx_buf'[i] ELSE wire'[i - buf_len']
  BY DEF Unparsed
<1>8. Len(Unparsed') = Len(Unparsed) - z
  <2>1. Len(Unparsed) = buf_len + Len(wire) /\ buf_len \in Nat /\ Len(wire) \in Nat
    BY UnparsedFacts
  <2>2. Len(Unparsed') = (buf_len - z) + Len(wire)
    BY <1>3, <1>6
  <2> QED  BY ONLY <1>1, <2>1, <2>2
<1>9. ASSUME NEW i \in 1 .. Len(Unparsed')  PROVE Unparsed'[i] = Unparsed[i + z]
  <2>1. CASE i <= buf_len - z
    <3>1. Unparsed'[i] = rx_buf[i + z]
      <4>1. i \in 1 .. buf_len' + Len(wire') /\ i <= buf_len'
        BY <1>3, <1>6, <2>1
      <4>2. i \in 1 .. BufferSize
        BY <1>2, <2>1, UnparsedFacts, SMTT(30)
      <4> QED  BY <1>3, <1>7, <2>1, <4>1, <4>2
    <3>2. i + z \in 1 .. buf_len + Len(wire) /\ i + z <= buf_len
      BY <1>2, <2>1, UnparsedFacts, SMTT(30)
    <3> QED  BY <3>1, <3>2, UnparsedFacts
  <2>2. CASE ~(i <= buf_len - z)
    <3>1. Unparsed'[i] = wire[i - (buf_len - z)]
      <4>1. i \in 1 .. buf_len' + Len(wire') /\ ~(i <= buf_len')
        BY <1>3, <1>6, <2>2
      <4> QED  BY <1>3, <1>7, <4>1
    <3>2. i + z \in 1 .. buf_len + Len(wire) /\ ~(i + z <= buf_len)
      <4>1. Len(Unparsed) = buf_len + Len(wire) /\ buf_len \in Nat /\ Len(wire) \in Nat
        BY UnparsedFacts
      <4>2. i \in 1 .. buf_len + Len(wire) - z
        BY <1>8, <4>1
      <4> QED  BY ONLY <1>1, <2>2, <4>1, <4>2
    <3>3. i - (buf_len - z) = (i + z) - buf_len
      BY <1>2, UnparsedFacts, SMTT(30)
    <3> QED  BY <3>1, <3>2, <3>3, UnparsedFacts
  <2> QED  BY <2>1, <2>2
<1>10. Whole(Unparsed', conn, Len(handled) + 1, sent)
  BY <1>2, <1>6, <1>8, <1>9, WholeTail, UnparsedFacts DEF StreamWhole
<1> QED  BY <1>3, <1>4, <1>10 DEF StreamWhole

(* No step breaks the stream: bytes move from the wire to the buffer, and  *)
(* only whole requests are taken out of it.                                *)
LEMMA StreamStep ==
  ASSUME StateInv, StreamWhole, [Next]_vars
  PROVE  StreamWhole'
<1>1. CASE Accept
  BY <1>1, AcceptStream
<1>2. CASE Receive
  BY <1>2, RecvStream DEF Receive
<1>3. CASE ParseRequest
  BY <1>3, ParseRequestStream
<1>4. ASSUME NEW r \in Requests, Send(r)  PROVE StreamWhole'
  BY <1>4, SendStream
<1>5. ASSUME UNCHANGED <<conn, requestVars>>  PROVE StreamWhole'
  BY <1>5 DEF StreamWhole, Unparsed, requestVars
<1>6. CASE RecvEnds \/ Unrecognized \/ Incomplete \/ Cleanup
  BY <1>5, <1>6 DEF RecvEnds, Unrecognized, Incomplete, Cleanup
<1>7. ASSUME NEW reply \in submitted, TransferDone(reply)  PROVE StreamWhole'
  BY <1>5, <1>7 DEF TransferDone
<1>8. ASSUME NEW t \in Tasks, Sending(t)  PROVE StreamWhole'
  BY <1>5, <1>8 DEF Sending, SendBegin, SendFails, SendSome
<1>9. CASE UNCHANGED vars
  BY <1>5, <1>9 DEF vars
<1> QED  BY <1>1, <1>2, <1>3, <1>4, <1>6, <1>7, <1>8, <1>9 DEF Next, Parse

------------------------------------------------------------------------------
(* Whole replies, one after the other. *)

(* Nothing has been received, and no task sends.                           *)
LEMMA RepliesInit == Init => PiecesInOrder
<1> SUFFICES ASSUME Init  PROVE PiecesInOrder
  OBVIOUS
<1>1. received = <<>> /\ send_mutex.task = "none"
  BY DEF Init, Unlocked
<1>2. Len(received) = 0 /\ 1 .. Len(received) - 1 = {}
  BY <1>1
<1> QED  BY <1>1, <1>2 DEF PiecesInOrder, Under

(* What does not touch the replies keeps them in order; a reply that is    *)
(* begun is not one that is being sent.                                    *)
LEMMA PiecesKept ==
  ASSUME PiecesInOrder, UNCHANGED <<conn, send_mutex, received>>,
         Under => replying'[send_mutex.task] = replying[send_mutex.task]
  PROVE  PiecesInOrder'
BY DEF PiecesInOrder, Under, Last, Follows

(* Nobody is in the middle of a reply on this connection.                  *)
LEMMA PiecesWhole ==
  ASSUME PiecesInOrder, ~Under, ~Under', received' = received
  PROVE  PiecesInOrder'
BY DEF PiecesInOrder, Last, Follows

(* What a task goes on sending after a reconnect does not count for the    *)
(* new connection.                                                         *)
LEMMA AcceptReplies ==
  ASSUME StateInv, Accept
  PROVE  PiecesInOrder'
<1>1. /\ received' = <<>> /\ conn' = conn + 1 /\ send_mutex' = send_mutex
      /\ conn \in Nat /\ send_mutex.began \in Nat /\ send_mutex.began <= conn
  BY FramingAssumption DEF Accept, StateInv, TypeOK, Claims
<1>2. ~Under'
  BY <1>1 DEF Under
<1>3. Len(received') = 0 /\ 1 .. Len(received') - 1 = {}
  BY <1>1
<1> QED  BY <1>1, <1>2, <1>3 DEF PiecesInOrder

(* A reply that begins changes neither the lock nor what was received.     *)
LEMMA BeginReplies ==
  ASSUME StateInv, PiecesInOrder,
         ParseRequest \/ \E reply \in submitted : TransferDone(reply)
  PROVE  PiecesInOrder'
<1>1. UNCHANGED <<conn, send_mutex, received>>
  BY DEF ParseRequest, TransferDone, requestVars
<1>2. ASSUME Under  PROVE replying'[send_mutex.task] = replying[send_mutex.task]
  <2>1. send_mutex.task \in Tasks /\ replying[send_mutex.task] # NoReply
    BY <1>2 DEF Under, StateInv, TypeOK, Claims
  <2>2. CASE ParseRequest
    <3>1. send_mutex.task # "tcp"
      BY <2>1, <2>2 DEF ParseRequest, StateInv, Claims
    <3> QED  BY <2>1, <2>2, <3>1 DEF ParseRequest, StateInv, TypeOK
  <2>3. CASE \E reply \in submitted : TransferDone(reply)
    <3>1. send_mutex.task # "usb"
      BY <2>1, <2>3 DEF TransferDone
    <3> QED  BY <2>1, <2>3, <3>1 DEF TransferDone, StateInv, TypeOK
  <2> QED  BY <2>2, <2>3
<1> QED  BY <1>1, <1>2, PiecesKept

(* A part of a reply that is sent follows the part before it, or a whole   *)
(* reply.                                                                  *)
LEMMA SendSomeReplies ==
  ASSUME StateInv, PiecesInOrder, NEW t \in Tasks, NEW n \in 1 .. ReplySize, SendSome(t, n),
         ~torn'
  PROVE  PiecesInOrder'
<1> DEFINE done == send_mutex.done
<1> DEFINE more == [k \in 1 .. n |-> [of |-> replying[t], at |-> done + k]]
<1> DEFINE m == Len(received)
<1>1. /\ n \in Nat /\ n >= 1 /\ done \in Nat /\ done + n <= ReplySize /\ ReplySize \in Nat
      /\ more \in Seq(Piece) /\ Len(more) = n /\ received' = received \o more
      /\ received \in Seq(Piece) /\ m \in Nat
  <2>1. /\ n \in Nat /\ n >= 1 /\ done \in Nat /\ done + n <= ReplySize
        /\ more \in Seq(Piece) /\ Len(more) = n /\ received' = received \o more
    BY PiecesSent
  <2>2. received \in Seq(Piece) /\ m \in Nat /\ ReplySize \in Nat
    BY FramingAssumption DEF StateInv, BufferTypes
  <2> QED  BY <2>1, <2>2
<1>2. \A k \in 1 .. n : more[k] = [of |-> replying[t], at |-> done + k]
  OBVIOUS
<1> HIDE DEF more
<1>3. /\ Len(received') = m + n
      /\ \A i \in 1 .. m : received'[i] = received[i]
      /\ \A k \in 1 .. n : received'[m + k] = [of |-> replying[t], at |-> done + k]
  <2>1. /\ Len(received \o more) = m + Len(more)
        /\ \A i \in 1 .. m + Len(more) :
             (received \o more)[i] = IF i <= m THEN received[i] ELSE more[i - m]
    BY <1>1, ConcatProperties, ZenonT(60)
  <2>2. ASSUME NEW k \in 1 .. n
        PROVE  received'[m + k] = [of |-> replying[t], at |-> done + k]
    <3>1. m + k \in 1 .. m + Len(more) /\ ~(m + k <= m) /\ (m + k) - m = k
      BY <1>1
    <3> QED  BY <1>1, <1>2, <2>1, <3>1
  <2>3. ASSUME NEW i \in 1 .. m  PROVE received'[i] = received[i]
    <3>1. i \in 1 .. m + Len(more) /\ i <= m
      BY <1>1
    <3> QED  BY <1>1, <2>1, <3>1
  <2> QED  BY <1>1, <2>1, <2>2, <2>3
<1>4. /\ send_mutex.task = t /\ t # "none" /\ send_mutex.began = conn
      /\ conn' = conn
  BY DEF SendSome, StateInv, TypeOK, Tasks
<1>5. Under <=> done > 0
  BY <1>4 DEF Under
<1>6. /\ done > 0 => m >= 1 /\ received[m] = [of |-> replying[t], at |-> done]
      /\ done = 0 => m = 0 \/ received[m].at = ReplySize
  BY <1>1, <1>4, <1>5, EmptySeq DEF PiecesInOrder, Last
<1>7. received'[1].at = 1
  <2>1. CASE m = 0
    <3>1. done = 0
      BY <1>1, <1>6, <2>1
    <3>2. 1 \in 1 .. n /\ m + 1 = 1 /\ done + 1 = 1
      BY <1>1, <2>1, <3>1
    <3>3. received'[m + 1] = [of |-> replying[t], at |-> done + 1]
      BY <1>3, <3>2
    <3> QED  BY ONLY <3>2, <3>3
  <2>2. CASE m # 0
    <3>1. 1 \in 1 .. m /\ received # <<>>
      BY <1>1, <2>2
    <3> QED  BY <1>3, <3>1 DEF PiecesInOrder
  <2> QED  BY <2>1, <2>2
<1>8. ASSUME NEW i \in 1 .. m + n - 1
      PROVE  \/ received'[i].at = ReplySize /\ received'[i + 1].at = 1
             \/ Follows(received'[i + 1], received'[i])
  <2>1. CASE i \in 1 .. m - 1
    <3>1. i \in 1 .. m /\ i + 1 \in 1 .. m
      BY <1>1, <2>1
    <3> QED  BY <1>3, <2>1, <3>1 DEF PiecesInOrder
  <2>2. CASE i = m
    <3>1. m \in 1 .. m /\ 1 \in 1 .. n
      BY <1>1, <2>2
    <3>2. received'[m] = received[m] /\ received'[m + 1] = [of |-> replying[t], at |-> done + 1]
      BY <1>3, <3>1
    <3>3. CASE done = 0
      <4>1. received[m].at = ReplySize
        BY <1>1, <1>6, <3>1, <3>3
      <4>2. done + 1 = 1
        BY <3>3
      <4> QED  BY ONLY <2>2, <3>2, <4>1, <4>2
    <3>4. CASE done > 0
      <4>1. done < ReplySize
        BY <1>1
      <4>2. received'[m] = [of |-> replying[t], at |-> done]
        BY <1>6, <3>2, <3>4
      <4>3. Follows(received'[m + 1], received'[m])
        BY <3>2, <4>1, <4>2 DEF Follows
      <4> QED  BY <2>2, <4>3
    <3> QED  BY <1>1, <3>3, <3>4, SMTT(30)
  <2>3. CASE i > m
    <3>1. PICK k \in 1 .. n - 1 : i = m + k /\ i + 1 = m + (k + 1) /\ k \in 1 .. n /\ k + 1 \in 1 .. n
      <4> DEFINE k == i - m
      <4>1. k \in 1 .. n - 1 /\ i = m + k /\ i + 1 = m + (k + 1) /\ k \in 1 .. n /\ k + 1 \in 1 .. n
        BY <1>1, <2>3
      <4> QED  BY <4>1
    <3>2. /\ received'[i] = [of |-> replying[t], at |-> done + k]
          /\ received'[i + 1] = [of |-> replying[t], at |-> done + (k + 1)]
      BY <1>3, <3>1
    <3>3. done + k < ReplySize /\ done + (k + 1) = (done + k) + 1
      BY <1>1, <3>1, SMTT(30)
    <3> QED  BY <3>2, <3>3 DEF Follows
  <2> QED  BY <1>1, <2>1, <2>2, <2>3, SMTT(30)
<1>9. received' # <<>> /\ received'[Len(received')] = [of |-> replying[t], at |-> done + n]
  <2>1. n \in 1 .. n /\ m + n >= 1
    BY <1>1
  <2> QED  BY <1>1, <1>3, <2>1, EmptySeq
<1>10. CASE done + n = ReplySize
  <2>1. send_mutex'.task = "none"
    BY <1>10 DEF SendSome, Return, Unlocked
  <2> QED  BY <1>3, <1>7, <1>8, <1>9, <1>10, <2>1 DEF PiecesInOrder, Under, Last
<1>11. CASE done + n # ReplySize
  <2>1. /\ send_mutex' = [send_mutex EXCEPT !.done = done + n] /\ replying' = replying
    BY <1>11 DEF SendSome
  <2>2. send_mutex'.task = t /\ send_mutex'.began = conn /\ send_mutex'.done = done + n
    BY <1>4, <2>1 DEF StateInv, TypeOK
  <2>3. Under'
    BY <1>1, <1>4, <2>2 DEF Under
  <2>4. Last' = [of |-> replying'[send_mutex'.task], at |-> send_mutex'.done]
    BY <1>9, <2>1, <2>2 DEF Last
  <2> QED  BY <1>3, <1>7, <1>8, <1>9, <2>3, <2>4 DEF PiecesInOrder
<1> QED  BY <1>10, <1>11

(* A task that goes through send_response keeps the pieces in order.       *)
LEMMA SendingReplies ==
  ASSUME StateInv, ~torn => PiecesInOrder, NEW t \in Tasks, Sending(t), ~torn'
  PROVE  PiecesInOrder'
<1>1. CASE SendBegin(t)
  <2>1. ~torn /\ received' = received
    BY <1>1 DEF SendBegin
  <2>2. ~Under
    BY <1>1 DEF SendBegin, MayLock, Unlocked, Under
  <2>3. ~Under'
    BY <1>1 DEF SendBegin, Return, Unlocked, Under
  <2> QED  BY <2>1, <2>2, <2>3, PiecesWhole
<1>2. CASE SendFails(t)
  <2>1. ~torn /\ received' = received
    BY <1>2 DEF SendFails
  <2>2. ~Under
    BY <1>2 DEF SendFails, Under
  <2>3. ~Under'
    BY <1>2 DEF SendFails, Return, Unlocked, Under
  <2> QED  BY <2>1, <2>2, <2>3, PiecesWhole
<1>3. ASSUME NEW n \in 1 .. ReplySize, SendSome(t, n)  PROVE PiecesInOrder'
  <2>1. ~torn
    BY <1>3 DEF SendSome
  <2> QED  BY <1>3, <2>1, SendSomeReplies
<1> QED  BY <1>1, <1>2, <1>3 DEF Sending

(* No step breaks the order of the pieces while no reply was torn.         *)
LEMMA RepliesStep ==
  ASSUME StateInv, ~torn => PiecesInOrder, [Next]_vars
  PROVE  ~torn' => PiecesInOrder'
<1> SUFFICES ASSUME ~torn'  PROVE PiecesInOrder'
  OBVIOUS
<1>1. CASE Accept
  BY <1>1, AcceptReplies
<1>2. CASE ParseRequest \/ \E reply \in submitted : TransferDone(reply)
  <2>1. ~torn
    BY <1>2 DEF ParseRequest, TransferDone
  <2> QED  BY <1>2, <2>1, BeginReplies
<1>3. ASSUME NEW t \in Tasks, Sending(t)  PROVE PiecesInOrder'
  BY <1>3, SendingReplies
<1>4. ASSUME UNCHANGED <<conn, replying, send_mutex, received, torn>>  PROVE PiecesInOrder'
  BY <1>4, PiecesKept
<1>5. CASE Receive \/ RecvEnds \/ Unrecognized \/ Incomplete \/ Cleanup
  BY <1>4, <1>5 DEF Receive, Recv, RecvEnds, Unrecognized, Incomplete, Cleanup, replyVars
<1>6. ASSUME NEW r \in Requests, Send(r)  PROVE PiecesInOrder'
  BY <1>4, <1>6 DEF Send, replyVars
<1>7. CASE UNCHANGED vars
  BY <1>4, <1>7 DEF vars, replyVars
<1> QED  BY <1>1, <1>2, <1>3, <1>5, <1>6, <1>7 DEF Next, Parse

------------------------------------------------------------------------------
(* The state of the server, the stream it parses and the replies it sends  *)
(* satisfy the invariant, for every size of buffer, request and reply.     *)
THEOREM Invariance == Spec => []IInv
<1>1. Init => IInv
  BY StateInit, StreamInit, RepliesInit DEF IInv
<1>2. IInv /\ [Next]_vars => IInv'
  BY StateStep, StreamStep, RepliesStep DEF IInv
<1> QED  BY <1>1, <1>2, PTL DEF Spec

(* The variables keep their types; in particular recv() always has room in *)
(* rx_buf_ (usb_ip.cpp:642-668).                                           *)
THEOREM TypeCorrect == Spec => []TypeOK
<1>1. IInv => TypeOK
  BY DEF IInv, StateInv
<1> QED  BY <1>1, Invariance, PTL

(* What a client has received are whole replies one after the other and    *)
(* the beginning of the one being sent, until one is left incomplete       *)
(* (send_response under send_mutex_).                                      *)
THEOREM RepliesAreWhole == Spec => []RepliesWhole
<1>1. IInv => RepliesWhole
  <2> SUFFICES ASSUME IInv, ~torn, NEW i \in 1 .. Len(received)
               PROVE  /\ \/ received[i].at = 1
                         \/ i > 1 /\ received[i - 1] = [received[i] EXCEPT !.at = @ - 1]
                      /\ \/ received[i].at = ReplySize
                         \/ i < Len(received) /\ received[i + 1] = [received[i] EXCEPT !.at = @ + 1]
                         \/ /\ i = Len(received)
                            /\ send_mutex.task # "none"
                            /\ replying[send_mutex.task] = received[i].of
    BY DEF RepliesWhole
  <2>1. PiecesInOrder /\ received \in Seq(Piece) /\ Len(received) \in Nat /\ received # <<>>
    BY DEF IInv, StateInv, BufferTypes
  <2>2. \/ received[i].at = 1
        \/ i > 1 /\ received[i - 1] = [received[i] EXCEPT !.at = @ - 1]
    <3>1. CASE i = 1
      BY <2>1, <3>1 DEF PiecesInOrder
    <3>2. CASE i # 1
      <4>1. i - 1 \in 1 .. Len(received) - 1 /\ (i - 1) + 1 = i /\ i > 1
        BY <2>1, <3>2
      <4>2. received[i].at = 1 \/ Follows(received[i], received[i - 1])
        BY <2>1, <4>1 DEF PiecesInOrder
      <4>3. received[i - 1] \in Piece
        BY <2>1, <4>1
      <4>4. ASSUME Follows(received[i], received[i - 1])
            PROVE  received[i - 1] = [received[i] EXCEPT !.at = @ - 1]
        <5> DEFINE a == received[i - 1]
        <5>1. a = [of |-> a.of, at |-> a.at] /\ a.at \in Nat
          BY <4>3, FramingAssumption DEF Piece
        <5> HIDE DEF a
        <5>2. received[i] = [of |-> a.of, at |-> a.at + 1]
          BY <4>4, <5>1 DEF Follows, a
        <5> QED  BY <5>1, <5>2 DEF a
      <4> QED  BY <4>1, <4>2, <4>4
    <3> QED  BY <3>1, <3>2
  <2>3. CASE i < Len(received)
    <3>1. i \in 1 .. Len(received) - 1
      BY <2>1, <2>3
    <3> QED  BY <2>1, <2>2, <2>3, <3>1 DEF PiecesInOrder, Follows
  <2>4. CASE i = Len(received)
    BY <2>1, <2>2, <2>4 DEF PiecesInOrder, Last, Under
  <2> QED  BY <2>1, <2>3, <2>4
<1> QED  BY <1>1, Invariance, PTL

(* The parser gives up a connection only for a request that is not of the  *)
(* protocol or that does not fit rx_buf_ (usb_ip.cpp:651-668).             *)
THEOREM ClosesForCause == Spec => ClosedForCause
<1>1. ASSUME IInv, [Next]_vars, pc = "parse", pc' = "cleanup"
      PROVE  /\ Len(handled) < Len(sent)
             /\ LET next == sent[Len(handled) + 1]
                IN  next.command = "OTHER" \/ ~Fits(next)
  <2>1. StateInv /\ StreamWhole
    BY <1>1 DEF IInv
  <2>2. Unrecognized \/ (Incomplete /\ Full)
    BY <1>1 DEF Next, vars, Accept, Receive, Recv, RecvEnds, Parse, ParseRequest, Incomplete,
                Cleanup, Send, TransferDone, Sending, SendBegin, SendSome, SendFails, Return
  <2>3. CASE Unrecognized
    BY <2>1, <2>3, NextParsed DEF Unrecognized
  <2>4. CASE Incomplete /\ Full
    <3>1. buf_len \in Nat /\ buf_len >= BufferSize
      BY <2>1, <2>4, UnparsedFacts DEF Full
    <3>2. buf_len >= HeaderSize /\ SizeKnown
      BY <3>1, FramingAssumption DEF SizeKnown
    <3>3. Recognised /\ buf_len < Needed
      BY <2>4, <3>1, <3>2, FramingAssumption DEF Incomplete
    <3>4. Len(handled) < Len(sent) /\ Needed = Size(sent[Len(handled) + 1])
          /\ sent[Len(handled) + 1] \in Requests
      BY <2>1, <3>2, <3>3, NextParsed
    <3>5. Size(sent[Len(handled) + 1]) \in Nat
      BY <3>4, SizeFacts
    <3> QED  BY <3>1, <3>3, <3>4, <3>5, FramingAssumption DEF Fits
  <2> QED  BY <2>2, <2>3, <2>4
<1>2. IInv /\ [Next]_vars =>
        [pc = "parse" /\ pc' = "cleanup" =>
           /\ Len(handled) < Len(sent)
           /\ LET next == sent[Len(handled) + 1] IN next.command = "OTHER" \/ ~Fits(next)]_vars
  BY <1>1
<1> QED  BY <1>2, Invariance, PTL DEF Spec, ClosedForCause

------------------------------------------------------------------------------
(* The requests of a connection as the messages of MessageStream. *)

Msgs == {Bytes(c, nr, r) : c \in 1 .. MaxConns, nr \in 1 .. MaxRequests, r \in Requests}
SentMsgs == [nr \in 1 .. Len(sent) |-> Bytes(conn, nr, sent[nr])]

(* A request that the peer sends is a message that is sent.                *)
LEMMA SendRefines ==
  ASSUME StateInv, NEW r \in Requests, Send(r)
  PROVE  \E m \in Msgs : /\ pc # "accept"
                         /\ SentMsgs' = Append(SentMsgs, m)
                         /\ UNCHANGED <<pc, handled>>
<1>1. PICK last \in Nat : last = Len(sent) + 1
  BY UnparsedFacts
<1> DEFINE m == Bytes(conn, last, r)
<1>2. /\ conn \in 1 .. MaxConns /\ sent \in Seq(Requests) /\ Len(sent) \in Nat
      /\ Len(sent) + conn <= MaxRequests /\ MaxRequests \in Nat
      /\ pc # "accept"
  BY FramingAssumption DEF Send, StateInv, TypeOK, Sessions
<1>3. m \in Msgs
  <2>1. last \in 1 .. MaxRequests
    BY <1>1, <1>2
  <2> QED  BY <1>2, <2>1 DEF Msgs
<1>4. /\ sent' = Append(sent, r) /\ Len(sent') = last /\ sent'[last] = r
      /\ \A n \in 1 .. Len(sent) : sent'[n] = sent[n]
      /\ conn' = conn /\ pc' = pc /\ handled' = handled
  BY <1>1, <1>2 DEF Send
<1> HIDE DEF m
<1>5. SentMsgs' = [nr \in 1 .. last |-> IF nr = last THEN m ELSE SentMsgs[nr]]
  <2>1. SentMsgs' = [nr \in 1 .. last |-> Bytes(conn, nr, sent'[nr])]
    BY <1>4 DEF SentMsgs
  <2>2. ASSUME NEW nr \in 1 .. last
        PROVE  Bytes(conn, nr, sent'[nr]) = IF nr = last THEN m ELSE SentMsgs[nr]
    <3>1. CASE nr = last
      BY <1>4, <3>1 DEF m
    <3>2. CASE nr # last
      <4>1. nr \in 1 .. Len(sent)
        BY <1>1, <1>2, <3>2
      <4> QED  BY <1>4, <3>2, <4>1 DEF SentMsgs
    <3> QED  BY <3>1, <3>2
  <2> QED  BY <2>1, <2>2
<1>6. Append(SentMsgs, m) = [nr \in 1 .. last |-> IF nr = last THEN m ELSE SentMsgs[nr]]
  <2> DEFINE S == {Bytes(conn, nr, sent[nr]) : nr \in 1 .. Len(sent)} \cup {m}
  <2> DEFINE q == Append(SentMsgs, m)
  <2>1. SentMsgs \in Seq(S) /\ Len(SentMsgs) = Len(sent) /\ m \in S
    BY <1>2 DEF SentMsgs
  <2> HIDE DEF S
  <2>2. /\ q \in Seq(S) /\ Len(q) = last /\ q[last] = m
        /\ \A nr \in 1 .. Len(sent) : q[nr] = SentMsgs[nr]
    BY <1>1, <2>1, AppendProperties
  <2> HIDE DEF q
  <2>3. q = [nr \in 1 .. last |-> q[nr]]
    BY <2>2
  <2>4. \A nr \in 1 .. last : nr = last \/ nr \in 1 .. Len(sent)
    BY <1>1, <1>2
  <2>5. q = [nr \in 1 .. last |-> IF nr = last THEN m ELSE SentMsgs[nr]]
    BY <2>2, <2>3, <2>4
  <2> QED  BY <2>5 DEF q
<1> QED  BY <1>2, <1>3, <1>4, <1>5, <1>6

(* A request that is parsed is the first message not yet handled.          *)
LEMMA ParseRefines ==
  ASSUME StateInv, StreamWhole, ParseRequest
  PROVE  /\ pc # "accept" /\ pc' # "accept"
         /\ Len(handled) < Len(SentMsgs)
         /\ handled' = Append(handled, SentMsgs[Len(handled) + 1])
         /\ SentMsgs' = SentMsgs
<1>1. /\ Len(handled) < Len(sent)
      /\ SubSeq(rx_buf, 1, Needed) = Bytes(conn, Len(handled) + 1, sent[Len(handled) + 1])
  BY CompleteWhole DEF ParseRequest
<1>2. Len(sent) \in Nat /\ Len(handled) \in Nat
  BY UnparsedFacts
<1>3. Len(SentMsgs) = Len(sent) /\ Len(handled) + 1 \in 1 .. Len(sent)
  BY <1>1, <1>2 DEF SentMsgs
<1>4. SentMsgs[Len(handled) + 1] = SubSeq(rx_buf, 1, Needed)
  BY <1>1, <1>3 DEF SentMsgs
<1>5. handled' = Append(handled, SubSeq(rx_buf, 1, Needed)) /\ UNCHANGED <<conn, sent>>
  BY DEF ParseRequest
<1>6. pc = "parse" /\ pc' # "accept"
  BY DEF ParseRequest
<1> QED  BY <1>1, <1>3, <1>4, <1>5, <1>6 DEF SentMsgs

(* However the stream is cut into segments, the requests of a connection   *)
(* are parsed whole, once and in order (usb_ip.cpp:600-700): the server    *)
(* implements MessageStream.                                               *)
THEOREM Refinement == Spec => RequestsInOrder
<1>1. Init => Stream!Init
  <2> SUFFICES ASSUME Init  PROVE Stream!Init
    OBVIOUS
  <2>1. sent = <<>> /\ handled = <<>> /\ pc = "accept"
    BY DEF Init
  <2>2. SentMsgs = <<>>
    BY <2>1 DEF SentMsgs
  <2> QED  BY <2>1, <2>2 DEF Stream!Init, SentMsgs
<1>2. IInv /\ [Next]_vars => [Stream!Next]_Stream!vars
  <2> SUFFICES ASSUME IInv, [Next]_vars  PROVE [Stream!Next]_Stream!vars
    OBVIOUS
  <2>1. StateInv /\ StreamWhole
    BY DEF IInv
  <2>2. CASE Accept
    <3>1. pc = "accept" /\ pc' # "accept" /\ sent' = <<>> /\ handled' = <<>>
      BY <2>2 DEF Accept
    <3>2. SentMsgs' = <<>>
      BY <3>1 DEF SentMsgs
    <3>3. Stream!Open
      BY <3>1, <3>2 DEF Stream!Open, SentMsgs
    <3> QED  BY <3>3 DEF Stream!Next
  <2>3. ASSUME NEW r \in Requests, Send(r)  PROVE Stream!Next
    <3>1. PICK m \in Msgs : /\ pc # "accept" /\ SentMsgs' = Append(SentMsgs, m)
                            /\ UNCHANGED <<pc, handled>>
      BY <2>1, <2>3, SendRefines
    <3>2. Stream!Send(m)
      BY <3>1 DEF Stream!Send, SentMsgs
    <3> QED  BY <3>1, <3>2 DEF Stream!Next, Msgs
  <2>4. CASE ParseRequest
    <3>1. Stream!Handle
      BY <2>1, <2>4, ParseRefines DEF Stream!Handle, SentMsgs
    <3> QED  BY <3>1 DEF Stream!Next
  <2>5. CASE Cleanup
    <3>1. pc = "cleanup" /\ pc' = "accept" /\ UNCHANGED <<conn, sent, handled>>
      BY <2>5 DEF Cleanup, requestVars
    <3>2. Stream!Close
      BY <3>1 DEF Stream!Close
    <3> QED  BY <3>2 DEF Stream!Next
  <2>6. ASSUME UNCHANGED <<conn, sent, handled>>, pc # "accept" <=> pc' # "accept"
        PROVE  UNCHANGED Stream!vars
    BY <2>6 DEF Stream!vars
  <2>7. CASE Receive \/ RecvEnds \/ Unrecognized \/ Incomplete
    BY <2>6, <2>7 DEF Receive, Recv, RecvEnds, Unrecognized, Incomplete, requestVars
  <2>8. ASSUME NEW reply \in submitted, TransferDone(reply)  PROVE UNCHANGED Stream!vars
    BY <2>6, <2>8 DEF TransferDone, requestVars
  <2>9. ASSUME NEW t \in Tasks, Sending(t)  PROVE UNCHANGED Stream!vars
    <3>1. UNCHANGED <<conn, sent, handled>>
      BY <2>9 DEF Sending, SendBegin, SendSome, SendFails, requestVars
    <3>2. t = "tcp" /\ (Return(t) \/ UNCHANGED pc) => (pc # "accept" <=> pc' # "accept")
      <4>1. t = "tcp" => pc = "reply"
        BY <2>1, <2>9 DEF StateInv, Claims, Sending, SendBegin, SendSome, SendFails
      <4> QED  BY <4>1 DEF Return
    <3>3. t # "tcp" /\ (Return(t) \/ UNCHANGED pc) => (pc # "accept" <=> pc' # "accept")
      BY DEF Return
    <3>4. Return(t) \/ UNCHANGED pc
      BY <2>9 DEF Sending, SendBegin, SendSome, SendFails
    <3> QED  BY <2>6, <3>1, <3>2, <3>3, <3>4
  <2>10. CASE UNCHANGED vars
    BY <2>6, <2>10 DEF vars, requestVars
  <2> QED  BY <2>2, <2>3, <2>4, <2>5, <2>7, <2>8, <2>9, <2>10 DEF Next, Parse
<1> QED  BY <1>1, <1>2, Invariance, PTL DEF Spec, RequestsInOrder, Stream!Spec
==============================================================================
