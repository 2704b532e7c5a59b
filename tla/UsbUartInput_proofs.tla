-------------------------- MODULE UsbUartInput_proofs ---------------------------
(***************************************************************************)
(* For every pool, ring, packet size and number of transfers: through any  *)
(* number of reconnections the bytes are read in the order in which they   *)
(* arrived; and during the first session of a channel input_started_ lets  *)
(* one IN transfer through at a time.                                      *)
(***************************************************************************)
EXTENDS UsbUartInput, TLAPS

(* The sizes as the proofs use them. *)
LEMMA Sizes ==
  /\ PoolSize \in Nat /\ BufferSize \in Nat /\ BufferSize > 0
  /\ MaxPacket \in Nat /\ MaxTransfers \in Nat /\ MaxBytes \in Nat
BY InputAssumption

(* The bytes are the numbers up to MaxBytes. *)
LEMMA ByteNumbers ==
  /\ \A x \in Bytes : x \in Nat /\ 1 <= x /\ x <= MaxBytes
  /\ \A x \in Int : 1 <= x /\ x <= MaxBytes => x \in Bytes
BY Sizes DEF Bytes

(* A chunk is two of them. *)
LEMMA ChunkNumbers ==
  /\ \A c \in Chunks : c[1] \in Bytes /\ c[2] \in Bytes
  /\ \A x, y \in Bytes : <<x, y>> \in Chunks
BY DEF Chunks

------------------------------------------------------------------------------
(* The ring after a push: what was in it, then the numbers from lo on, as  *)
(* many as fit.                                                            *)
LEMMA PushedFacts ==
  ASSUME NEW b \in Seq(Bytes), Len(b) < BufferSize,
         NEW lo \in Bytes, NEW n \in Nat, lo + n - 1 <= MaxBytes
  PROVE  /\ Pushed(b, lo, n) \in Seq(Bytes)
         /\ Len(b) <= Len(Pushed(b, lo, n))
         /\ Len(Pushed(b, lo, n)) < BufferSize
         /\ Len(Pushed(b, lo, n)) = Len(b) + Least(n, FreeSpace(b))
         /\ \A i \in 1 .. Len(b) : Pushed(b, lo, n)[i] = b[i]
         /\ \A i \in Len(b) + 1 .. Len(Pushed(b, lo, n)) :
              /\ Pushed(b, lo, n)[i] = lo + (i - Len(b)) - 1
              /\ Pushed(b, lo, n)[i] < lo + n
<1> USE Sizes, ByteNumbers
<1> DEFINE k == Least(n, FreeSpace(b))
           more == [i \in 1 .. k |-> lo + i - 1]
<1>1. k \in Nat /\ k <= n /\ Len(b) + k < BufferSize
  BY DEF Least, FreeSpace
<1> HIDE DEF k
<1>2. more \in Seq(Bytes) /\ Len(more) = k
  <2>1. \A i \in 1 .. k : lo + i - 1 \in Bytes
    BY <1>1
  <2>2. more \in [1 .. k -> Bytes]
    BY <2>1
  <2> QED  BY <1>1, <2>2
<1>3. \A i \in 1 .. k : more[i] = lo + i - 1
  BY <1>1
<1> HIDE DEF more
<1>4. Pushed(b, lo, n) = b \o more
  BY DEF Pushed, k, more
<1>5. b \o more \in Seq(Bytes) /\ Len(b \o more) = Len(b) + k
  BY <1>2
<1>6. \A i \in 1 .. Len(b) : (b \o more)[i] = b[i]
  BY ONLY <1>2
<1>7. \A i \in Len(b) + 1 .. Len(b) + k : (b \o more)[i] = more[i - Len(b)]
  BY ONLY <1>1, <1>2
<1>8. \A i \in Len(b) + 1 .. Len(b) + k :
        /\ (b \o more)[i] = lo + (i - Len(b)) - 1
        /\ lo + (i - Len(b)) - 1 < lo + n
  <2> TAKE i \in Len(b) + 1 .. Len(b) + k
  <2>1. Len(b) \in Nat /\ i \in Int /\ lo \in Int
    OBVIOUS
  <2>2. i - Len(b) \in 1 .. k
    BY <1>1, <2>1
  <2>3. (b \o more)[i] = more[i - Len(b)]
    BY <1>7
  <2>4. more[i - Len(b)] = lo + (i - Len(b)) - 1
    BY <1>3, <2>2
  <2>5. lo + (i - Len(b)) - 1 < lo + n
    BY <1>1, <2>1, <2>2
  <2> QED  BY <2>3, <2>4, <2>5
<1>9. Len(Pushed(b, lo, n)) = Len(b) + k /\ Len(b) \in Nat
  BY <1>4, <1>5
<1>10. /\ Pushed(b, lo, n) \in Seq(Bytes)
       /\ \A i \in 1 .. Len(b) : Pushed(b, lo, n)[i] = b[i]
  BY <1>4, <1>5, <1>6
<1>11. \A i \in Len(b) + 1 .. Len(b) + k :
         /\ Pushed(b, lo, n)[i] = lo + (i - Len(b)) - 1
         /\ Pushed(b, lo, n)[i] < lo + n
  <2> TAKE i \in Len(b) + 1 .. Len(b) + k
  <2> QED  BY <1>4, <1>8
<1>12. Len(b) <= Len(b) + k /\ Len(b) + k < BufferSize
  BY <1>1, <1>9
<1> QED  BY <1>9, <1>10, <1>11, <1>12 DEF k

------------------------------------------------------------------------------
(* Every byte unread is later than those read, every byte queued later     *)
(* than those in the ring, and both are in order.                          *)
RingBounds ==
  /\ last_read <= arrived
  /\ \A i \in 1 .. Len(input_buffer) :
       last_read < input_buffer[i] /\ input_buffer[i] <= arrived
RingSorted ==
  \A i, j \in 1 .. Len(input_buffer) : i < j => input_buffer[i] < input_buffer[j]
QueueBounds ==
  \A i \in 1 .. Len(data_queue) :
    /\ last_read < data_queue[i][1]
    /\ data_queue[i][1] <= data_queue[i][2]
    /\ data_queue[i][2] <= arrived
RingFirst ==
  \A i \in 1 .. Len(data_queue) : \A j \in 1 .. Len(input_buffer) :
    input_buffer[j] < data_queue[i][1]
QueueSorted ==
  \A i, j \in 1 .. Len(data_queue) : i < j => data_queue[i][2] < data_queue[j][1]

OrderInv == RingBounds /\ RingSorted /\ QueueBounds /\ RingFirst /\ QueueSorted

DataInv == TypeOK /\ OrderInv

(* The elements of queue and ring are numbers. *)
LEMMA Elements ==
  ASSUME TypeOK
  PROVE  /\ arrived \in Nat /\ last_read \in Nat
         /\ Len(data_queue) \in Nat /\ Len(input_buffer) \in Nat
         /\ \A i \in 1 .. Len(data_queue) :
              data_queue[i] \in Chunks /\ data_queue[i][1] \in Nat /\ data_queue[i][2] \in Nat
         /\ \A i \in 1 .. Len(input_buffer) :
              input_buffer[i] \in Bytes /\ input_buffer[i] \in Nat
<1>1. arrived \in Nat /\ last_read \in Nat
  BY Sizes DEF TypeOK
<1>2. Len(data_queue) \in Nat /\ \A i \in 1 .. Len(data_queue) : data_queue[i] \in Chunks
  BY DEF TypeOK
<1>3. Len(input_buffer) \in Nat
      /\ \A i \in 1 .. Len(input_buffer) : input_buffer[i] \in Bytes
  BY DEF TypeOK
<1> QED  BY <1>1, <1>2, <1>3, ByteNumbers, ChunkNumbers

(* Nothing has arrived at first. *)
LEMMA DataInvInit == Init => DataInv
<1> SUFFICES ASSUME Init  PROVE DataInv
  OBVIOUS
<1>1. data_queue = <<>> /\ Len(data_queue) = 0
      /\ data_queue \in Seq(Chunks)
  BY DEF Init
<1>2. input_buffer = <<>> /\ Len(input_buffer) = 0 /\ input_buffer \in Seq(Bytes)
  BY DEF Init
<1>3. pc \in [Threads -> Labels]
  BY DEF Init, Labels
<1>4. TypeOK
  <2>1. Len(data_queue) <= PoolSize /\ Len(input_buffer) < BufferSize
    BY <1>1, <1>2, Sizes
  <2>2. inflight \in 0 .. MaxTransfers /\ arrived \in 0 .. MaxBytes
        /\ last_read \in 0 .. MaxBytes
    BY Sizes DEF Init
  <2> QED  BY <1>1, <1>2, <1>3, <2>1, <2>2 DEF Init, TypeOK, Links
<1>5. OrderInv
  BY <1>1, <1>2 DEF Init, OrderInv, RingBounds, RingSorted, QueueBounds, RingFirst, QueueSorted
<1> QED  BY <1>4, <1>5 DEF DataInv

(* A step that only moves control or the flags. *)
LEMMA DataUntouched ==
  ASSUME DataInv, UNCHANGED dataVars,
         link' \in Links, initialised' \in BOOLEAN, input_started' \in BOOLEAN,
         inflight' \in 0 .. MaxTransfers, pc' \in [Threads -> Labels]
  PROVE  DataInv'
BY DEF DataInv, TypeOK, OrderInv, dataVars, RingBounds, RingSorted, QueueBounds,
       RingFirst, QueueSorted

(* The callback queues bytes that are newer than all others. *)
LEMMA DataAfterCallback ==
  ASSUME DataInv, NEW n \in 1 .. MaxPacket, CallbackData(n)
  PROVE  DataInv'
<1> USE Sizes, ByteNumbers, ChunkNumbers DEF DataInv, TypeOK
<1> DEFINE chunk == <<arrived + 1, arrived + n>>
<1>1. n \in Nat /\ n >= 1 /\ n <= MaxBytes - arrived
  BY DEF CallbackData
<1>2. chunk \in Chunks
  BY <1>1
<1>3. data_queue' = Append(data_queue, chunk)
  BY DEF CallbackData, Enqueue
<1>4. /\ data_queue' \in Seq(Chunks)
      /\ Len(data_queue') = Len(data_queue) + 1
      /\ \A i \in 1 .. Len(data_queue) : data_queue'[i] = data_queue[i]
      /\ data_queue'[Len(data_queue) + 1] = chunk
  BY <1>2, <1>3, SMTT(30)
<1>5. chunk[1] = arrived + 1 /\ chunk[2] = arrived + n
  OBVIOUS
<1> HIDE DEF chunk
<1>6. /\ arrived' = arrived + n
      /\ UNCHANGED <<input_buffer, last_read, lost, replugged, link, initialised, input_started>>
  BY DEF CallbackData, Complete
<1>7. inflight' \in 0 .. MaxTransfers /\ pc' \in [Threads -> Labels]
  <2>1. inflight' \in 0 .. MaxTransfers
    BY DEF CallbackData, Complete
  <2>2. pc' \in [Threads -> Labels]
    BY DEF CallbackData, Complete, Goto, Labels
  <2> QED  BY <2>1, <2>2
<1>8. TypeOK'
  <2>1. Len(data_queue) < PoolSize
    BY DEF CallbackData
  <2> QED  BY <1>1, <1>4, <1>6, <1>7, <2>1
<1>9. OrderInv'
  <2> DEFINE m == Len(data_queue)
  <2>1. /\ m \in Nat /\ Len(data_queue') = m + 1
        /\ \A i \in 1 .. m : data_queue'[i] = data_queue[i]
        /\ data_queue'[m + 1][1] = arrived + 1 /\ data_queue'[m + 1][2] = arrived + n
    BY <1>4, <1>5, Elements
  <2> HIDE DEF m, TypeOK
  <2>2. arrived \in Nat /\ n \in Nat /\ 1 <= n /\ arrived' = arrived + n /\ last_read \in Nat
    BY <1>1, <1>6, Elements
  <2>3. \A i \in 1 .. m + 1 : i \in 1 .. m \/ i = m + 1
    BY <2>1
  <2>4. RingBounds' /\ RingSorted'
    BY <1>6, <2>2, Elements DEF OrderInv, RingBounds, RingSorted
  <2>5. QueueBounds'
    <3>1. \A i \in 1 .. m : /\ last_read < data_queue[i][1]
                            /\ data_queue[i][1] <= data_queue[i][2]
                            /\ data_queue[i][2] <= arrived'
      BY <2>2, Elements, SMTT(30) DEF OrderInv, QueueBounds, m
    <3>2. last_read < arrived + 1 /\ arrived + 1 <= arrived + n /\ arrived + n <= arrived'
      BY <2>2 DEF OrderInv, RingBounds
    <3> QED  BY <1>6, <2>1, <2>3, <3>1, <3>2 DEF QueueBounds
  <2>6. RingFirst'
    <3>1. \A i \in 1 .. m : \A j \in 1 .. Len(input_buffer) :
            input_buffer[j] < data_queue[i][1]
      BY DEF OrderInv, RingFirst, m
    <3>2. \A j \in 1 .. Len(input_buffer) : input_buffer[j] < arrived + 1
      BY <2>2, Elements, SMTT(30) DEF OrderInv, RingBounds
    <3> QED  BY <1>6, <2>1, <2>3, <3>1, <3>2 DEF RingFirst
  <2>7. QueueSorted'
    <3>1. \A i, j \in 1 .. m : i < j => data_queue[i][2] < data_queue[j][1]
      BY DEF OrderInv, QueueSorted, m
    <3>2. \A i \in 1 .. m : data_queue[i][2] < arrived + 1
      BY <2>2, Elements DEF OrderInv, QueueBounds, m
    <3>3. \A i, j \in 1 .. m + 1 : i < j => i \in 1 .. m
      BY <2>1
    <3>4. \A i, j \in 1 .. m + 1 : i < j => data_queue'[i][2] < data_queue'[j][1]
      <4> TAKE i, j \in 1 .. m + 1
      <4> HAVE i < j
      <4>1. i \in 1 .. m /\ data_queue'[i] = data_queue[i]
        BY <2>1, <3>3
      <4>2. CASE j \in 1 .. m
        BY <2>1, <3>1, <4>1, <4>2
      <4>3. CASE j = m + 1
        BY <2>1, <3>2, <4>1, <4>3
      <4> QED  BY <2>3, <4>2, <4>3
    <3> QED  BY <2>1, <3>4 DEF QueueSorted
  <2> QED  BY <2>4, <2>5, <2>6, <2>7 DEF OrderInv
<1> QED  BY <1>8, <1>9

(* loop() moves the oldest chunk behind the newest byte of the ring. *)
LEMMA DataAfterLoop == ASSUME DataInv, LoopChunk  PROVE DataInv'
<1> DEFINE lo == Head(data_queue)[1]
           hi == Head(data_queue)[2]
           n == hi + 1 - lo
           ring == IF Overflows(input_buffer, n) /\ ClearOnOverflow
                     THEN <<>> ELSE input_buffer
           more == Pushed(ring, lo, n)
<1>1. TypeOK /\ RingBounds /\ RingSorted /\ QueueBounds /\ RingFirst /\ QueueSorted
  BY DEF DataInv, OrderInv
<1>2. data_queue # <<>> /\ data_queue \in Seq(Chunks)
  BY <1>1 DEF LoopChunk, TypeOK
<1>3. 1 \in 1 .. Len(data_queue) /\ Head(data_queue) = data_queue[1]
      /\ Len(data_queue) \in Nat
  BY <1>2
<1>4. /\ lo \in Bytes /\ hi \in Bytes /\ lo \in Nat /\ hi \in Nat
      /\ lo <= hi /\ last_read < lo /\ hi <= arrived
      /\ data_queue[1][2] = hi
  BY <1>1, <1>3, Elements, ChunkNumbers DEF QueueBounds
<1>5. n \in Nat /\ lo + n - 1 <= MaxBytes /\ lo + n - 1 = hi
  BY <1>4, ByteNumbers, Sizes
<1>6. /\ input_buffer' = more
      /\ data_queue' = Tail(data_queue)
      /\ UNCHANGED <<link, initialised, input_started, inflight, arrived, last_read,
                    replugged, pc>>
  BY DEF LoopChunk
<1>7. lost' \in BOOLEAN
  BY <1>1 DEF LoopChunk, TypeOK, Overflows
<1>8. /\ ring \in Seq(Bytes) /\ Len(ring) < BufferSize
      /\ Len(ring) <= Len(input_buffer) /\ Len(ring) \in Nat
      /\ \A i \in 1 .. Len(ring) : ring[i] = input_buffer[i]
  <2>1. input_buffer \in Seq(Bytes) /\ Len(input_buffer) < BufferSize
        /\ Len(input_buffer) \in Nat
    BY <1>1 DEF TypeOK
  <2>2. CASE ring = <<>>
    <3>1. <<>> \in Seq(Bytes) /\ Len(<<>>) = 0
      OBVIOUS
    <3> HIDE DEF ring
    <3> QED  BY <2>1, <2>2, <3>1, Sizes
  <2>3. CASE ring = input_buffer
    <3> HIDE DEF ring
    <3> QED  BY <2>1, <2>3
  <2> QED  BY <2>2, <2>3
<1> HIDE DEF lo, hi, n, ring
<1>9. /\ more \in Seq(Bytes)
      /\ Len(ring) <= Len(more)
      /\ Len(more) < BufferSize
      /\ \A i \in 1 .. Len(ring) : more[i] = ring[i]
      /\ \A i \in Len(ring) + 1 .. Len(more) :
           more[i] = lo + (i - Len(ring)) - 1 /\ more[i] < lo + n
  BY <1>4, <1>5, <1>8, PushedFacts
<1> HIDE DEF more
<1>10. Len(more) \in Nat /\ \A i \in 1 .. Len(more) : more[i] \in Nat
  <2>1. Len(more) \in Nat /\ \A i \in 1 .. Len(more) : more[i] \in Bytes
    BY <1>9
  <2> QED  BY <2>1, ByteNumbers
<1>11. /\ data_queue' \in Seq(Chunks)
       /\ Len(data_queue') = Len(data_queue) - 1 /\ Len(data_queue') \in Nat
       /\ \A i \in 1 .. Len(data_queue') : data_queue'[i] = data_queue[i + 1]
  BY <1>2, <1>3, <1>6
<1>12. TypeOK'
  <2>1. Len(data_queue') <= PoolSize
    BY <1>1, <1>3, <1>11, Sizes DEF TypeOK
  <2> QED  BY <1>1, <1>6, <1>7, <1>9, <1>11, <2>1 DEF TypeOK
(* The elements of the new ring are old ones or those of the chunk. *)
<1>13. \A i \in 1 .. Len(more) :
         i <= Len(ring) => i \in 1 .. Len(input_buffer) /\ more[i] = input_buffer[i]
  BY <1>8, <1>9, <1>10
<1>14. \A i \in 1 .. Len(more) :
         Len(ring) < i => /\ more[i] = lo + (i - Len(ring)) - 1
                          /\ lo <= more[i] /\ more[i] <= hi
  <2> TAKE i \in 1 .. Len(more)
  <2> HAVE Len(ring) < i
  <2>1. i \in Len(ring) + 1 .. Len(more)
    BY <1>8, <1>10
  <2>2. more[i] = lo + (i - Len(ring)) - 1 /\ more[i] < lo + n
    BY <1>9, <2>1
  <2> QED  BY <1>4, <1>5, <1>8, <1>10, <2>2, SMTT(30)
<1>15. \A i \in 1 .. Len(input_buffer) :
         /\ input_buffer[i] \in Nat /\ input_buffer[i] < lo
         /\ last_read < input_buffer[i]
  <2>1. lo = data_queue[1][1]
    BY <1>3 DEF lo
  <2> QED  BY <1>1, <1>3, <2>1, Elements DEF RingFirst, RingBounds
<1>16. last_read \in Nat /\ arrived \in Nat
  BY <1>1, Elements
<1>17. \A i \in 1 .. Len(more) : last_read < more[i] /\ more[i] <= hi
  <2> TAKE i \in 1 .. Len(more)
  <2>1. CASE i <= Len(ring)
    <3>1. i \in 1 .. Len(input_buffer) /\ more[i] = input_buffer[i]
      BY <1>13, <2>1
    <3>2. more[i] \in Nat /\ more[i] < lo /\ last_read < more[i]
      BY <1>15, <3>1
    <3> QED  BY <1>4, <3>2
  <2>2. CASE Len(ring) < i
    <3>1. more[i] \in Nat /\ lo <= more[i] /\ more[i] <= hi
      BY <1>10, <1>14, <2>2
    <3> QED  BY <1>4, <1>16, <3>1
  <2> QED  BY <1>8, <2>1, <2>2
<1>18. \A i, j \in 1 .. Len(more) : i < j => more[i] < more[j]
  <2> TAKE i, j \in 1 .. Len(more)
  <2> HAVE i < j
  <2>1. CASE j <= Len(ring)
    <3>1. i <= Len(ring)
      BY <1>8, <2>1
    <3> QED  BY <1>1, <1>13, <2>1, <3>1 DEF RingSorted
  <2>2. CASE i <= Len(ring) /\ Len(ring) < j
    <3>1. more[i] < lo
      BY <1>13, <1>15, <2>2
    <3>2. lo <= more[j]
      BY <1>14, <2>2
    <3>3. more[i] \in Nat /\ more[j] \in Nat /\ lo \in Nat
      BY <1>4, <1>10
    <3> QED  BY <3>1, <3>2, <3>3
  <2>3. CASE Len(ring) < i
    <3>1. Len(ring) < j
      BY <1>8, <2>3
    <3>2. more[i] = lo + (i - Len(ring)) - 1 /\ more[j] = lo + (j - Len(ring)) - 1
      BY <1>14, <2>3, <3>1
    <3> QED  BY <1>4, <1>8, <3>2
  <2> QED  BY <1>8, <2>1, <2>2, <2>3
<1>19. \A i \in 1 .. Len(data_queue') :
         i + 1 \in 1 .. Len(data_queue) /\ hi < data_queue'[i][1]
  <2> TAKE i \in 1 .. Len(data_queue')
  <2>1. i + 1 \in 1 .. Len(data_queue) /\ 1 < i + 1
    BY <1>3, <1>11
  <2>2. data_queue[1][2] < data_queue[i + 1][1]
    BY <1>1, <1>3, <2>1 DEF QueueSorted
  <2> QED  BY <1>4, <1>11, <2>1, <2>2
<1>20. RingBounds'
  BY <1>1, <1>4, <1>6, <1>10, <1>16, <1>17 DEF RingBounds
<1>21. RingSorted'
  BY <1>6, <1>18 DEF RingSorted
<1>22. QueueBounds'
  BY <1>1, <1>6, <1>11, <1>19 DEF QueueBounds
<1>23. RingFirst'
  <2> SUFFICES ASSUME NEW i \in 1 .. Len(data_queue'), NEW j \in 1 .. Len(more)
               PROVE  more[j] < data_queue'[i][1]
    BY <1>6 DEF RingFirst
  <2>1. i + 1 \in 1 .. Len(data_queue) /\ data_queue'[i] = data_queue[i + 1]
    BY <1>11, <1>19
  <2>2. data_queue'[i][1] \in Nat
    BY <1>1, <2>1, Elements
  <2> QED  BY <1>4, <1>10, <1>17, <1>19, <2>2, SMTT(30)
<1>24. QueueSorted'
  <2> SUFFICES ASSUME NEW i \in 1 .. Len(data_queue'), NEW j \in 1 .. Len(data_queue'),
                      i < j
               PROVE  data_queue'[i][2] < data_queue'[j][1]
    BY DEF QueueSorted
  <2>1. i + 1 \in 1 .. Len(data_queue) /\ j + 1 \in 1 .. Len(data_queue) /\ i + 1 < j + 1
    BY <1>19
  <2> QED  BY <1>1, <1>11, <2>1 DEF QueueSorted
<1> QED  BY <1>12, <1>20, <1>21, <1>22, <1>23, <1>24 DEF DataInv, OrderInv

(* read_array takes the oldest bytes. *)
LEMMA DataAfterRead ==
  ASSUME DataInv, NEW n \in 0 .. Len(input_buffer), ReadArray(n)
  PROVE  DataInv'
<1>1. TypeOK /\ RingBounds /\ RingSorted /\ QueueBounds /\ RingFirst /\ QueueSorted
  BY DEF DataInv, OrderInv
<1>2. input_buffer \in Seq(Bytes) /\ Len(input_buffer) \in Nat /\ n \in Nat
  BY <1>1 DEF TypeOK
<1>3. /\ input_buffer' = SubSeq(input_buffer, n + 1, Len(input_buffer))
      /\ last_read' = IF n = 0 THEN last_read ELSE input_buffer[n]
      /\ UNCHANGED <<link, initialised, input_started, inflight, data_queue, arrived, lost,
                    replugged>>
  BY DEF ReadArray
<1>4. pc' \in [Threads -> Labels]
  BY <1>1 DEF ReadArray, Goto, Labels, StartLabels, TypeOK
<1>5. /\ input_buffer' \in Seq(Bytes)
      /\ Len(input_buffer') = Len(input_buffer) - n /\ Len(input_buffer') \in Nat
      /\ \A i \in 1 .. Len(input_buffer') : input_buffer'[i] = input_buffer[i + n]
  BY <1>2, <1>3
<1>6. \A i \in 1 .. Len(input_buffer') : i + n \in 1 .. Len(input_buffer)
  BY <1>2, <1>5
<1>7. n > 0 => n \in 1 .. Len(input_buffer) /\ last_read' = input_buffer[n]
  BY <1>2, <1>3
<1>8. last_read' \in 0 .. MaxBytes /\ last_read' <= arrived
  <2>1. CASE n = 0
    BY <1>1, <1>3, <2>1 DEF TypeOK, RingBounds
  <2>2. CASE n > 0
    BY <1>1, <1>7, <2>2, Elements, ByteNumbers, Sizes DEF RingBounds
  <2> QED  BY <1>2, <2>1, <2>2
<1>9. TypeOK'
  <2>1. Len(input_buffer') < BufferSize
    BY <1>1, <1>2, <1>5, Sizes DEF TypeOK
  <2> QED  BY <1>1, <1>3, <1>4, <1>5, <1>8, <2>1 DEF TypeOK
<1>10. RingBounds'
  <2> SUFFICES ASSUME NEW i \in 1 .. Len(input_buffer')
               PROVE  last_read' < input_buffer'[i] /\ input_buffer'[i] <= arrived
    BY <1>3, <1>8 DEF RingBounds
  <2>1. i + n \in 1 .. Len(input_buffer) /\ input_buffer'[i] = input_buffer[i + n]
    BY <1>5, <1>6
  <2>2. CASE n = 0
    BY <1>1, <1>3, <2>1, <2>2 DEF RingBounds
  <2>3. CASE n > 0
    <3>1. n < i + n
      BY <1>2, <1>5
    <3> QED  BY <1>1, <1>7, <2>1, <2>3, <3>1 DEF RingBounds, RingSorted
  <2> QED  BY <1>2, <2>2, <2>3
<1>11. RingSorted'
  <2> SUFFICES ASSUME NEW i \in 1 .. Len(input_buffer'), NEW j \in 1 .. Len(input_buffer'),
                      i < j
               PROVE  input_buffer'[i] < input_buffer'[j]
    BY DEF RingSorted
  <2>1. i + n < j + n
    BY <1>2, <1>5
  <2> QED  BY <1>1, <1>5, <1>6, <2>1 DEF RingSorted
<1>12. QueueBounds'
  <2> SUFFICES ASSUME NEW i \in 1 .. Len(data_queue)
               PROVE  last_read' < data_queue[i][1]
    BY <1>1, <1>3 DEF QueueBounds
  <2>1. CASE n = 0
    BY <1>1, <1>3, <2>1 DEF QueueBounds
  <2>2. CASE n > 0
    BY <1>1, <1>7, <2>2 DEF RingFirst
  <2> QED  BY <1>2, <2>1, <2>2
<1>13. RingFirst' /\ QueueSorted'
  BY <1>1, <1>3, <1>5, <1>6 DEF RingFirst, QueueSorted
<1> QED  BY <1>9, <1>10, <1>11, <1>12, <1>13 DEF DataInv, OrderInv

(* Every step keeps the order of the bytes. *)
LEMMA DataInvStep == DataInv /\ [Next]_vars => DataInv'
<1> SUFFICES ASSUME DataInv, [Next]_vars  PROVE DataInv'
  OBVIOUS
<1>0. /\ link \in Links /\ initialised \in BOOLEAN /\ input_started \in BOOLEAN
      /\ inflight \in 0 .. MaxTransfers /\ pc \in [Threads -> Labels]
  BY DEF DataInv, TypeOK
<1>1. CASE UNCHANGED vars
  BY <1>0, <1>1, DataUntouched DEF vars, dataVars
<1>2. ASSUME NEW t \in Threads, StartInput(t)  PROVE DataInv'
  <2> USE DEF StartInput, StartInitialised, StartClaim, StartBusy, StartSubmit,
              StartSubmitFails, StartRelease
  <2>1. UNCHANGED link /\ UNCHANGED initialised /\ UNCHANGED dataVars
    BY <1>2
  <2>2. input_started' \in BOOLEAN
    BY <1>0, <1>2
  <2>3. pc' \in [Threads -> Labels]
    BY <1>0, <1>2 DEF Goto, Labels, StartLabels
  <2>4. inflight' \in 0 .. MaxTransfers
    BY <1>0, <1>2, Sizes DEF SlotsUsed
  <2> QED  BY <1>0, <2>1, <2>2, <2>3, <2>4, DataUntouched
<1>3. ASSUME NEW n \in 1 .. MaxPacket, CallbackData(n)  PROVE DataInv'
  BY <1>3, DataAfterCallback
<1>4. ASSUME NEW n \in 1 .. MaxPacket, CallbackNoChunk(n)  PROVE DataInv'
  <2>1. n \in Nat /\ arrived' = arrived + n /\ n <= MaxBytes - arrived
    BY <1>4, Sizes DEF CallbackNoChunk
  <2>2. UNCHANGED <<link, initialised, input_started, data_queue, input_buffer, last_read,
                    replugged>>
        /\ lost' = TRUE
    BY <1>4 DEF CallbackNoChunk, Complete
  <2>3. inflight' \in 0 .. MaxTransfers
    BY <1>0, <1>4, Sizes DEF CallbackNoChunk, Complete
  <2>4. pc' \in [Threads -> Labels]
    BY <1>0, <1>4 DEF CallbackNoChunk, Complete, Goto, Labels
  <2>5. TypeOK /\ OrderInv /\ arrived \in Nat
    BY Elements DEF DataInv
  <2>6. arrived <= arrived' /\ arrived' \in 0 .. MaxBytes
    BY <2>1, <2>5, Sizes
  <2>7. TypeOK'
    BY <1>0, <2>2, <2>3, <2>4, <2>5, <2>6 DEF TypeOK
  <2>8. RingBounds'
    <3>1. \A i \in 1 .. Len(input_buffer) : input_buffer[i] \in Nat
      BY Elements DEF DataInv
    <3>2. /\ last_read <= arrived /\ last_read \in Nat /\ arrived' \in Nat
          /\ \A i \in 1 .. Len(input_buffer) :
               last_read < input_buffer[i] /\ input_buffer[i] <= arrived
      BY <2>1, <2>5, Elements DEF DataInv, OrderInv, RingBounds
    <3>3. UNCHANGED input_buffer /\ UNCHANGED last_read
      BY <2>2
    <3> QED  BY <2>5, <2>6, <3>1, <3>2, <3>3 DEF RingBounds
  <2>9. QueueBounds'
    BY <2>2, <2>5, <2>6, Elements DEF OrderInv, QueueBounds
  <2>10. RingSorted' /\ RingFirst' /\ QueueSorted'
    BY <2>2, <2>5 DEF OrderInv, RingSorted, RingFirst, QueueSorted
  <2> QED  BY <2>7, <2>8, <2>9, <2>10 DEF DataInv, OrderInv
<1>5. CASE CallbackEmpty \/ CallbackFails \/ CallbackStore \/ CallbackStop
  <2> USE DEF CallbackEmpty, CallbackFails, CallbackStore, CallbackStop, Complete
  <2>1. UNCHANGED link /\ UNCHANGED initialised /\ UNCHANGED dataVars
    BY <1>5
  <2>2. input_started' \in BOOLEAN
    BY <1>0, <1>5
  <2>3. pc' \in [Threads -> Labels]
    BY <1>0, <1>5 DEF Goto, Labels, StartLabels
  <2>4. inflight' \in 0 .. MaxTransfers
    BY <1>0, <1>5, Sizes
  <2> QED  BY <1>0, <2>1, <2>2, <2>3, <2>4, DataUntouched
<1>6. CASE LoopChunk
  BY <1>6, DataAfterLoop
<1>7. CASE Read
  BY <1>7, DataAfterRead DEF Read
<1>8. CASE OnConnected \/ ConfigCallback \/ ConfigDone \/ ConfigAborts \/ DisconnectEnd
  <2> USE DEF OnConnected, ConfigCallback, ConfigDone, ConfigAborts, DisconnectEnd
  <2>1. UNCHANGED inflight /\ UNCHANGED dataVars
    BY <1>8
  <2>2. link' \in Links /\ initialised' \in BOOLEAN /\ input_started' \in BOOLEAN
    BY <1>0, <1>8 DEF Links
  <2>3. pc' \in [Threads -> Labels]
    BY <1>0, <1>8 DEF Goto, Labels, StartLabels
  <2> QED  BY <1>0, <2>1, <2>2, <2>3, DataUntouched
<1>9. CASE OnDisconnected
  <2>1. /\ link' \in Links /\ input_started' \in BOOLEAN /\ lost' = TRUE
        /\ input_buffer' = <<>>
        /\ replugged' = TRUE
        /\ UNCHANGED <<initialised, inflight, data_queue, arrived, last_read>>
    BY <1>9 DEF OnDisconnected, Links
  <2>2. pc' \in [Threads -> Labels]
    BY <1>0, <1>9 DEF OnDisconnected, Goto, Labels
  <2>3. Len(input_buffer') = 0 /\ input_buffer' \in Seq(Bytes)
    BY <2>1
  <2>4. TypeOK'
    BY <2>1, <2>2, <2>3, Sizes DEF DataInv, TypeOK
  <2>5. OrderInv'
    BY <2>1, <2>3
    DEF DataInv, OrderInv, RingBounds, RingSorted, QueueBounds, RingFirst, QueueSorted
  <2> QED  BY <2>4, <2>5 DEF DataInv
<1> QED
  BY <1>1, <1>2, <1>3, <1>4, <1>5, <1>6, <1>7, <1>8, <1>9
  DEF Next, SessionNext, Callback

(* The order of all bytes implies that of those that are read. *)
LEMMA OrderImpliesBytesInOrder == DataInv => BytesInOrder
<1> SUFFICES ASSUME DataInv  PROVE BytesInOrder
  OBVIOUS
<1>1. TypeOK /\ RingBounds /\ RingSorted /\ QueueBounds /\ RingFirst /\ QueueSorted
  BY DEF DataInv, OrderInv
<1>2. Len(data_queue) \in Nat /\ Len(input_buffer) \in Nat
      /\ arrived \in Nat /\ last_read \in Nat
  BY <1>1, Elements
<1>3. data_queue # <<>> => 1 \in 1 .. Len(data_queue) /\ Head(data_queue) = data_queue[1]
  BY <1>1 DEF TypeOK
<1>4. input_buffer # <<>> =>
        /\ 1 \in 1 .. Len(input_buffer) /\ Head(input_buffer) = input_buffer[1]
        /\ Len(input_buffer) \in 1 .. Len(input_buffer)
  BY <1>1 DEF TypeOK
<1>5. \A i \in 1 .. Len(data_queue) - 1 : data_queue[i][2] < data_queue[i + 1][1]
  <2> TAKE i \in 1 .. Len(data_queue) - 1
  <2>1. i \in 1 .. Len(data_queue) /\ i + 1 \in 1 .. Len(data_queue) /\ i < i + 1
    BY <1>2
  <2> QED  BY <1>1, <2>1 DEF QueueSorted
<1>6. \A i \in 1 .. Len(input_buffer) - 1 : input_buffer[i] < input_buffer[i + 1]
  <2> TAKE i \in 1 .. Len(input_buffer) - 1
  <2>1. i \in 1 .. Len(input_buffer) /\ i + 1 \in 1 .. Len(input_buffer) /\ i < i + 1
    BY <1>2
  <2> QED  BY <1>1, <2>1 DEF RingSorted
<1>7. input_buffer # <<>> => input_buffer[Len(input_buffer)] < FirstQueued
  <2> SUFFICES ASSUME input_buffer # <<>>
               PROVE  input_buffer[Len(input_buffer)] < FirstQueued
    OBVIOUS
  <2>1. CASE data_queue = <<>>
    <3>1. input_buffer[Len(input_buffer)] <= arrived
          /\ input_buffer[Len(input_buffer)] \in Nat
      BY <1>1, <1>4, Elements DEF RingBounds
    <3> QED  BY <1>2, <2>1, <3>1 DEF FirstQueued
  <2>2. CASE data_queue # <<>>
    BY <1>1, <1>3, <1>4, <2>2 DEF FirstQueued, RingFirst
  <2> QED  BY <2>1, <2>2
<1>8. last_read < FirstUnread
  <2>1. CASE input_buffer # <<>>
    BY <1>1, <1>4, <2>1 DEF FirstUnread, RingBounds
  <2>2. CASE input_buffer = <<>> /\ data_queue # <<>>
    BY <1>1, <1>3, <2>2 DEF FirstUnread, FirstQueued, QueueBounds
  <2>3. CASE input_buffer = <<>> /\ data_queue = <<>>
    BY <1>1, <1>2, <2>3 DEF FirstUnread, FirstQueued, RingBounds
  <2> QED  BY <2>1, <2>2, <2>3
<1> QED  BY <1>5, <1>6, <1>7, <1>8 DEF BytesInOrder

(* Through any number of reconnections: the variables keep their types.    *)
THEOREM TypeCorrect == Spec => []TypeOK
<1>1. DataInv => TypeOK
  BY DEF DataInv
<1> QED  BY <1>1, DataInvInit, DataInvStep, PTL DEF Spec

(* Through any number of reconnections, across callback, queue, ring and   *)
(* read_array, bytes are read in the order in which they arrived.          *)
THEOREM InOrder == Spec => []BytesInOrder
<1> QED  BY DataInvInit, DataInvStep, OrderImpliesBytesInOrder, PTL DEF Spec

------------------------------------------------------------------------------
(* Until a device disconnects, the flag is set whenever somebody relies on *)
(* it, and while the channel is not configured it is set and nobody does.  *)
SessionFlag ==
  /\ \A t \in Threads : InSection(t) => input_started
  /\ inflight # 0 => input_started
  /\ link # "up" => /\ input_started /\ inflight = 0
                    /\ \A t \in Threads : ~InSection(t)
  /\ ~(InSection(Main) /\ InSection(Usb))
  /\ \A t \in Threads : InSection(t) => inflight = 0
  /\ inflight <= 1

FlagInv ==
  /\ pc \in [Threads -> Labels] /\ inflight \in Nat
  /\ pc[Main] = "disconnect" => replugged
  /\ ~replugged => SessionFlag

(* The flag is set before the first configuration. *)
LEMMA FlagInvInit == Init => FlagInv
BY DEF Init, FlagInv, SessionFlag, InSection, Threads, Main, Usb, Labels

(* Every step of a first session keeps what the flag means. *)
LEMMA FlagInvStep == FlagInv /\ [Next]_vars => FlagInv'
<1> SUFFICES ASSUME FlagInv, [Next]_vars  PROVE FlagInv'
  OBVIOUS
<1> USE DEF FlagInv, SessionFlag, InSection, Threads, Main, Usb, Labels, StartLabels,
            Goto, dataVars
<1>1. CASE UNCHANGED vars
  BY <1>1 DEF vars
<1>2. ASSUME NEW t \in Threads, StartInput(t)  PROVE FlagInv'
  <2>1. CASE StartInitialised(t)
    BY <2>1 DEF StartInitialised
  <2>2. CASE StartClaim(t)
    BY <2>2 DEF StartClaim
  <2>3. CASE StartBusy(t)
    BY <2>3 DEF StartBusy
  <2>4. CASE StartSubmit(t)
    BY <2>4 DEF StartSubmit
  <2>5. CASE StartSubmitFails(t)
    BY <2>5 DEF StartSubmitFails
  <2>6. CASE StartRelease(t)
    BY <2>6 DEF StartRelease
  <2> QED  BY <1>2, <2>1, <2>2, <2>3, <2>4, <2>5, <2>6 DEF StartInput
<1>3. ASSUME NEW l \in {"cb_store", "cb_stop"}, Complete(l), UNCHANGED replugged
      PROVE  FlagInv'
  BY <1>3 DEF Complete
<1>4. CASE Callback
  <2>1. CASE CallbackStore
    BY <2>1 DEF CallbackStore
  <2>2. CASE CallbackStop
    BY <2>2 DEF CallbackStop
  <2> QED
    BY <1>3, <1>4, <2>1, <2>2
    DEF Callback, CallbackData, CallbackNoChunk, CallbackEmpty, CallbackFails
<1>5. CASE LoopChunk
  BY <1>5 DEF LoopChunk
<1>6. CASE Read
  BY <1>6 DEF Read, ReadArray
<1>7. CASE OnConnected
  BY <1>7 DEF OnConnected
<1>8. CASE ConfigCallback
  BY <1>8 DEF ConfigCallback
<1>9. CASE ConfigDone
  BY <1>9 DEF ConfigDone
<1>10. CASE ConfigAborts
  BY <1>10 DEF ConfigAborts
<1>11. CASE OnDisconnected
  BY <1>11 DEF OnDisconnected
<1>12. CASE DisconnectEnd
  BY <1>12 DEF DisconnectEnd
<1> QED
  BY <1>1, <1>2, <1>4, <1>5, <1>6, <1>7, <1>8, <1>9, <1>10, <1>11, <1>12
  DEF Next, SessionNext

(* Until a device disconnects, the two threads exclude each other from the *)
(* section of input_started_, and there is one IN transfer at a time.      *)
THEOREM Exclusive == Spec => []ExclusiveInput
<1>1. FlagInv => ExclusiveInput
  BY DEF FlagInv, SessionFlag, ExclusiveInput
<1> QED  BY <1>1, FlagInvInit, FlagInvStep, PTL DEF Spec

------------------------------------------------------------------------------
(* Over any number of reconnections, a flag that is set on a configured    *)
(* channel has somebody who will clear it.                                 *)
LEMMA ClaimHasOwnerStep == TypeOK /\ ClaimHasOwner /\ Next => ClaimHasOwner'
<1> SUFFICES ASSUME TypeOK, ClaimHasOwner, Next, link' = "up", input_started'
             PROVE  inflight' > 0 \/ InSection(Main)' \/ InSection(Usb)'
  BY DEF ClaimHasOwner, Threads
<1> USE InputAssumption DEF Threads, Main, Usb, InSection, Goto
<1>1. /\ pc \in [Threads -> Labels] /\ inflight \in Nat
      /\ link = "up" /\ input_started =>
           inflight > 0 \/ InSection(Main) \/ InSection(Usb)
  BY DEF ClaimHasOwner, TypeOK
<1>2. ASSUME NEW t \in Threads, StartInput(t)
      PROVE  inflight' > 0 \/ InSection(Main)' \/ InSection(Usb)'
  <2>1. CASE StartInitialised(t) \/ StartBusy(t) \/ StartSubmitFails(t)
    BY <1>1, <2>1 DEF StartInitialised, StartBusy, StartSubmitFails
  <2>2. CASE StartClaim(t)
    BY <1>1, <2>2 DEF StartClaim
  <2>3. CASE StartSubmit(t)
    BY <1>1, <2>3 DEF StartSubmit
  <2>4. CASE StartRelease(t)
    BY <2>4 DEF StartRelease
  <2> QED  BY <1>2, <2>1, <2>2, <2>3, <2>4 DEF StartInput
<1>3. CASE Callback
  BY <1>1, <1>3
  DEF Callback, CallbackData, CallbackNoChunk, CallbackEmpty, CallbackFails,
      Complete, CallbackStore, CallbackStop
<1>4. CASE LoopChunk \/ Read
  BY <1>1, <1>4 DEF LoopChunk, Read, ReadArray
<1>5. CASE OnConnected \/ ConfigCallback \/ ConfigDone \/ ConfigAborts
           \/ OnDisconnected \/ DisconnectEnd
  BY <1>1, <1>5
  DEF OnConnected, ConfigCallback, ConfigDone, ConfigAborts, OnDisconnected, DisconnectEnd
<1> QED  BY <1>2, <1>3, <1>4, <1>5 DEF Next, SessionNext

(* usb_uart.cpp start_input(), its callback and ft23xx.cpp: on a           *)
(* configured channel a set input_started_ has a thread or a transfer that *)
(* will clear it, over any number of reconnections and full pools.         *)
THEOREM FlagHasOwner == Spec => []ClaimHasOwner
<1>1. Init => ClaimHasOwner
  BY DEF Init, ClaimHasOwner
<1>2. TypeOK /\ ClaimHasOwner /\ [Next]_vars => ClaimHasOwner'
  <2>1. ClaimHasOwner /\ UNCHANGED vars => ClaimHasOwner'
    BY DEF ClaimHasOwner, InSection, vars
  <2> QED  BY <2>1, ClaimHasOwnerStep
<1> QED  BY <1>1, <1>2, TypeCorrect, PTL DEF Spec

------------------------------------------------------------------------------
(* As long as nothing was dropped, what was read, the ring and the queue   *)
(* follow one another without a gap up to the last byte that arrived.      *)
RingDense == \A i \in 1 .. Len(input_buffer) : input_buffer[i] = last_read + i
RingEnd == last_read + Len(input_buffer)
QueueJoins == data_queue # <<>> => data_queue[1][1] = RingEnd + 1
QueueDense ==
  \A i, j \in 1 .. Len(data_queue) : j = i + 1 => data_queue[i][2] + 1 = data_queue[j][1]
EndArrived ==
  arrived = IF data_queue = <<>> THEN RingEnd ELSE data_queue[Len(data_queue)][2]

Gapless == RingDense /\ QueueJoins /\ QueueDense /\ EndArrived
GapInv == ~lost => Gapless

(* The callback leaves no gap before the bytes it queues. *)
LEMMA GapAfterCallback ==
  ASSUME DataInv, Gapless, NEW n \in 1 .. MaxPacket, CallbackData(n)
  PROVE  Gapless'
<1> DEFINE m == Len(data_queue)
<1>1. /\ data_queue' = Append(data_queue, <<arrived + 1, arrived + n>>)
      /\ arrived' = arrived + n /\ UNCHANGED <<input_buffer, last_read>>
  BY DEF CallbackData, Enqueue
<1>2. /\ m \in Nat /\ arrived \in Nat /\ data_queue \in Seq(Chunks) /\ n \in Nat
      /\ \A i \in 1 .. m : data_queue[i][1] \in Nat /\ data_queue[i][2] \in Nat
  BY Elements, Sizes DEF DataInv, TypeOK
<1>3. /\ data_queue' # <<>> /\ Len(data_queue') = m + 1
      /\ \A i \in 1 .. m : data_queue'[i] = data_queue[i]
      /\ data_queue'[m + 1] = <<arrived + 1, arrived + n>>
  <2> DEFINE chunk == <<arrived + 1, arrived + n>>
  <2>1. arrived + 1 \in Bytes /\ arrived + n \in Bytes
    BY <1>2, ByteNumbers, Sizes DEF CallbackData
  <2>2. chunk \in Chunks
    BY <2>1, ChunkNumbers
  <2>3. data_queue' = Append(data_queue, chunk)
    BY <1>1
  <2> HIDE DEF chunk
  <2>4. /\ Len(data_queue') = m + 1 /\ data_queue'[m + 1] = chunk
        /\ \A i \in 1 .. m : data_queue'[i] = data_queue[i]
    BY <1>2, <2>2, <2>3
  <2>5. data_queue' # <<>>
    BY <1>2, <2>4
  <2> QED  BY <2>4, <2>5 DEF chunk
<1>4. data_queue'[m + 1][1] = arrived + 1 /\ data_queue'[m + 1][2] = arrived + n
  BY <1>3
<1>5. data_queue = <<>> <=> m = 0
  BY <1>2
<1> HIDE DEF m
<1>6. RingDense' /\ RingEnd' = RingEnd
  BY <1>1 DEF Gapless, RingDense, RingEnd
<1>7. QueueJoins'
  <2>1. CASE m = 0
    BY <1>3, <1>4, <1>5, <1>6, <2>1 DEF Gapless, QueueJoins, EndArrived
  <2>2. CASE m # 0
    <3>1. 1 \in 1 .. m
      BY <1>2, <2>2
    <3> QED  BY <1>3, <1>5, <1>6, <2>2, <3>1 DEF Gapless, QueueJoins
  <2> QED  BY <2>1, <2>2
<1>8. QueueDense'
  <2> SUFFICES ASSUME NEW i \in 1 .. m + 1, NEW j \in 1 .. m + 1, j = i + 1
               PROVE  data_queue'[i][2] + 1 = data_queue'[j][1]
    BY <1>3 DEF QueueDense
  <2>1. i \in 1 .. m /\ data_queue'[i] = data_queue[i]
    BY <1>2, <1>3
  <2>2. CASE j = m + 1
    <3>1. i = m /\ data_queue # <<>>
      BY <1>2, <1>5, <2>1, <2>2
    <3>2. data_queue[i][2] = arrived
      BY <3>1 DEF Gapless, EndArrived, m
    <3> QED  BY <1>4, <2>1, <2>2, <3>2
  <2>3. CASE j # m + 1
    <3>1. j \in 1 .. m /\ data_queue'[j] = data_queue[j]
      BY <1>2, <1>3, <2>3
    <3> QED  BY <2>1, <3>1 DEF Gapless, QueueDense, m
  <2> QED  BY <2>2, <2>3
<1>9. EndArrived'
  BY <1>1, <1>3, <1>4 DEF EndArrived
<1> QED  BY <1>6, <1>7, <1>8, <1>9 DEF Gapless

(* A chunk that fits goes from the front of the queue to the end of the    *)
(* ring.                                                                   *)
LEMMA GapAfterLoop ==
  ASSUME DataInv, Gapless, LoopChunk, ~lost'
  PROVE  Gapless'
<1> DEFINE lo == Head(data_queue)[1]
           hi == Head(data_queue)[2]
           n == hi + 1 - lo
           old == Len(input_buffer)
           more == Pushed(input_buffer, lo, n)
<1>1. TypeOK /\ QueueBounds
  BY DEF DataInv, OrderInv
<1>2. data_queue # <<>> /\ data_queue \in Seq(Chunks)
  BY <1>1 DEF LoopChunk, TypeOK
<1>3. /\ 1 \in 1 .. Len(data_queue) /\ Head(data_queue) = data_queue[1]
      /\ Len(data_queue) \in Nat
  BY <1>2
<1>4. /\ lo \in Bytes /\ lo \in Nat /\ hi \in Nat /\ lo <= hi /\ hi <= MaxBytes
      /\ data_queue[1][2] = hi /\ data_queue[1][1] = lo
  BY <1>1, <1>3, Elements, ByteNumbers, ChunkNumbers DEF QueueBounds
<1>5. n \in Nat /\ lo + n - 1 = hi /\ n = hi + 1 - lo
  BY <1>4
<1>6. ~Overflows(input_buffer, n)
  BY DEF LoopChunk
<1>7. input_buffer' = more /\ data_queue' = Tail(data_queue) /\ UNCHANGED <<arrived, last_read>>
  BY <1>6 DEF LoopChunk
<1>8. input_buffer \in Seq(Bytes) /\ old < BufferSize /\ old \in Nat /\ last_read \in Nat
  BY <1>1, Elements DEF TypeOK
<1> HIDE DEF lo, hi, n
<1>9. Least(n, FreeSpace(input_buffer)) = n
  BY <1>5, <1>6, <1>8, Sizes DEF Least, Overflows, FreeSpace
<1>10. Len(more) = old + n
  <2>1. lo + n - 1 <= MaxBytes
    BY <1>4, <1>5
  <2>2. Len(more) = old + Least(n, FreeSpace(input_buffer))
    BY <1>4, <1>5, <1>8, <2>1, PushedFacts
  <2> QED  BY <1>9, <2>2
<1>11. /\ \A i \in 1 .. old : more[i] = input_buffer[i]
       /\ \A i \in old + 1 .. Len(more) : more[i] = lo + (i - old) - 1
  BY <1>4, <1>5, <1>8, PushedFacts
<1> HIDE DEF more
<1>12. lo = last_read + old + 1
  BY <1>2, <1>4 DEF Gapless, QueueJoins, RingEnd
<1> HIDE DEF old
<1>13. RingDense'
  <2> SUFFICES ASSUME NEW i \in 1 .. old + n PROVE more[i] = last_read + i
    BY <1>7, <1>10 DEF RingDense
  <2>1. CASE i <= old
    <3>1. i \in 1 .. old
      BY <1>8, <2>1 DEF old
    <3> QED  BY <1>11, <3>1 DEF Gapless, RingDense, old
  <2>2. CASE i > old
    <3>1. i \in old + 1 .. old + n /\ old \in Nat
      BY <1>8, <2>2 DEF old
    <3>2. more[i] = lo + (i - old) - 1
      BY <1>10, <1>11, <3>1
    <3> QED  BY ONLY <1>8, <1>12, <3>1, <3>2
  <2>3. old \in Nat
    BY <1>8 DEF old
  <2> QED  BY <2>1, <2>2, <2>3
<1>14. RingEnd' = hi
  <2>1. RingEnd' = last_read + (old + n)
    BY <1>7, <1>10 DEF RingEnd
  <2>2. old \in Nat
    BY <1>8 DEF old
  <2> QED  BY ONLY <1>4, <1>5, <1>8, <1>12, <2>1, <2>2
<1>15. /\ Len(data_queue') = Len(data_queue) - 1 /\ Len(data_queue') \in Nat
       /\ \A i \in 1 .. Len(data_queue') : data_queue'[i] = data_queue[i + 1]
       /\ data_queue' = <<>> <=> Len(data_queue') = 0
  <2>1. data_queue' \in Seq(Chunks)
    BY <1>2, <1>7
  <2>2. /\ Len(data_queue') = Len(data_queue) - 1 /\ Len(data_queue') \in Nat
        /\ \A i \in 1 .. Len(data_queue') : data_queue'[i] = data_queue[i + 1]
    BY <1>2, <1>3, <1>7
  <2>3. data_queue' = <<>> <=> Len(data_queue') = 0
    BY <2>1
  <2> QED  BY <2>2, <2>3
<1>16. QueueJoins'
  <2> SUFFICES ASSUME data_queue' # <<>> PROVE data_queue'[1][1] = hi + 1
    BY <1>14 DEF QueueJoins
  <2>1. 1 \in 1 .. Len(data_queue') /\ 2 \in 1 .. Len(data_queue)
    BY <1>3, <1>15
  <2>2. data_queue'[1] = data_queue[2]
    BY <1>15, <2>1
  <2>3. data_queue[1][2] + 1 = data_queue[2][1]
    BY <1>3, <2>1 DEF Gapless, QueueDense
  <2> QED  BY <1>4, <2>2, <2>3
<1>17. QueueDense'
  <2> SUFFICES ASSUME NEW i \in 1 .. Len(data_queue'), NEW j \in 1 .. Len(data_queue'), j = i + 1
               PROVE  data_queue'[i][2] + 1 = data_queue'[j][1]
    BY DEF QueueDense
  <2>1. i + 1 \in 1 .. Len(data_queue) /\ j + 1 \in 1 .. Len(data_queue) /\ j + 1 = (i + 1) + 1
    BY <1>3, <1>15
  <2>2. data_queue[i + 1][2] + 1 = data_queue[j + 1][1]
    BY <2>1 DEF Gapless, QueueDense
  <2> QED  BY <1>15, <2>2
<1>18. EndArrived'
  <2>1. arrived = data_queue[Len(data_queue)][2]
    BY <1>2 DEF Gapless, EndArrived
  <2>2. CASE data_queue' = <<>>
    <3>1. Len(data_queue) = 1
      BY <1>3, <1>15, <2>2
    <3> QED  BY <1>4, <1>7, <1>14, <2>1, <2>2, <3>1 DEF EndArrived
  <2>3. CASE data_queue' # <<>>
    <3>1. Len(data_queue') \in 1 .. Len(data_queue') /\ Len(data_queue') + 1 = Len(data_queue)
      BY <1>3, <1>15, <2>3
    <3>2. data_queue'[Len(data_queue')] = data_queue[Len(data_queue)]
      BY <1>15, <3>1
    <3> QED  BY <1>7, <2>1, <2>3, <3>2 DEF EndArrived
  <2> QED  BY <2>2, <2>3
<1> QED  BY <1>13, <1>16, <1>17, <1>18 DEF Gapless

(* read_array leaves no gap behind the bytes it takes. *)
LEMMA GapAfterRead ==
  ASSUME DataInv, Gapless, NEW n \in 0 .. Len(input_buffer), ReadArray(n)
  PROVE  Gapless'
<1>1. /\ input_buffer' = SubSeq(input_buffer, n + 1, Len(input_buffer))
      /\ last_read' = IF n = 0 THEN last_read ELSE input_buffer[n]
      /\ UNCHANGED <<data_queue, arrived>>
  BY DEF ReadArray
<1>2. input_buffer \in Seq(Bytes) /\ Len(input_buffer) \in Nat /\ n \in Nat /\ last_read \in Nat
  BY Elements DEF DataInv, TypeOK
<1>3. /\ Len(input_buffer') = Len(input_buffer) - n /\ Len(input_buffer') \in Nat
      /\ \A i \in 1 .. Len(input_buffer') : input_buffer'[i] = input_buffer[i + n]
  BY <1>1, <1>2
<1>4. last_read' = last_read + n
  <2>1. CASE n = 0
    BY <1>1, <1>2, <2>1
  <2>2. CASE n # 0
    <3>1. n \in 1 .. Len(input_buffer)
      BY <1>2, <2>2
    <3> QED  BY <1>1, <2>2, <3>1 DEF Gapless, RingDense
  <2> QED  BY <2>1, <2>2
<1>5. RingEnd' = RingEnd
  BY <1>2, <1>3, <1>4 DEF RingEnd
<1>6. RingDense'
  <2> SUFFICES ASSUME NEW i \in 1 .. Len(input_buffer')
               PROVE  input_buffer'[i] = last_read' + i
    BY DEF RingDense
  <2>1. i + n \in 1 .. Len(input_buffer)
    BY <1>2, <1>3
  <2>2. input_buffer[i + n] = last_read + (i + n)
    BY <2>1 DEF Gapless, RingDense
  <2>3. input_buffer'[i] = last_read + (i + n)
    BY <1>3, <2>2
  <2> QED  BY <1>2, <1>4, <2>3
<1> QED  BY <1>1, <1>5, <1>6 DEF Gapless, QueueJoins, QueueDense, EndArrived

(* Every step keeps the bytes without a gap until something is dropped. *)
LEMMA GapInvStep == DataInv /\ GapInv /\ [Next]_vars => GapInv'
<1> SUFFICES ASSUME DataInv, GapInv, [Next]_vars, ~lost' PROVE Gapless'
  BY DEF GapInv
<1>1. CASE UNCHANGED dataVars
  <2>1. Gapless
    BY <1>1 DEF GapInv, dataVars
  <2> QED  BY <1>1, <2>1
           DEF Gapless, RingDense, QueueJoins, QueueDense, EndArrived, RingEnd, dataVars
<1>2. ASSUME NEW n \in 1 .. MaxPacket, CallbackData(n) PROVE Gapless'
  <2>1. Gapless
    BY <1>2 DEF CallbackData, GapInv
  <2> QED  BY <1>2, <2>1, GapAfterCallback
<1>3. CASE LoopChunk
  <2>1. lost \in BOOLEAN
    BY DEF DataInv, TypeOK
  <2>2. Gapless
    BY <1>3, <2>1 DEF LoopChunk, GapInv
  <2> QED  BY <1>3, <2>2, GapAfterLoop
<1>4. ASSUME NEW n \in 0 .. Len(input_buffer), ReadArray(n) PROVE Gapless'
  <2>1. Gapless
    BY <1>4 DEF ReadArray, GapInv
  <2> QED  BY <1>4, <2>1, GapAfterRead
<1>5. ASSUME NEW n \in 1 .. MaxPacket, CallbackNoChunk(n) PROVE FALSE
  BY <1>5 DEF CallbackNoChunk
<1>6. CASE OnDisconnected
  BY <1>6 DEF OnDisconnected
<1>7. ASSUME NEW t \in Threads, StartInput(t) PROVE UNCHANGED dataVars
  BY <1>7 DEF StartInput, StartInitialised, StartClaim, StartBusy, StartSubmit,
              StartSubmitFails, StartRelease
<1>8. CASE CallbackEmpty \/ CallbackFails \/ CallbackStore \/ CallbackStop
  BY <1>1, <1>8 DEF CallbackEmpty, CallbackFails, CallbackStore, CallbackStop
<1>9. CASE OnConnected \/ ConfigCallback \/ ConfigDone \/ ConfigAborts \/ DisconnectEnd
  BY <1>1, <1>9 DEF OnConnected, ConfigCallback, ConfigDone, ConfigAborts, DisconnectEnd
<1>10. CASE UNCHANGED vars
  BY <1>1, <1>10 DEF vars
<1> QED
  BY <1>1, <1>2, <1>3, <1>4, <1>5, <1>6, <1>7, <1>8, <1>9, <1>10
  DEF Next, SessionNext, Callback, Read

(* Without a gap nothing is lost. *)
LEMMA GaplessIsNoLoss == DataInv /\ GapInv => NoSilentLoss
<1> SUFFICES ASSUME DataInv, GapInv, ~lost
             PROVE  /\ FirstUnread = last_read + 1
                    /\ \A i \in 1 .. Len(input_buffer) : input_buffer[i] = last_read + i
                    /\ FirstQueued = last_read + Len(input_buffer) + 1
                    /\ \A i \in 1 .. Len(data_queue) - 1 :
                         data_queue[i][2] + 1 = data_queue[i + 1][1]
  BY DEF NoSilentLoss
<1>1. RingDense /\ QueueJoins /\ QueueDense /\ EndArrived
  BY DEF GapInv, Gapless
<1>2. /\ last_read \in Nat /\ Len(input_buffer) \in Nat /\ Len(data_queue) \in Nat
      /\ data_queue \in Seq(Chunks) /\ input_buffer \in Seq(Bytes)
  BY Elements DEF DataInv, TypeOK
<1>3. data_queue # <<>> => Head(data_queue) = data_queue[1]
  BY <1>2
<1>4. FirstQueued = last_read + Len(input_buffer) + 1
  BY <1>1, <1>3 DEF FirstQueued, QueueJoins, EndArrived, RingEnd
<1>5. FirstUnread = last_read + 1
  <2>1. CASE input_buffer = <<>>
    <3>1. Len(input_buffer) = 0
      BY <2>1
    <3> QED  BY <1>2, <1>4, <2>1, <3>1 DEF FirstUnread
  <2>2. CASE input_buffer # <<>>
    <3>1. 1 \in 1 .. Len(input_buffer) /\ Head(input_buffer) = input_buffer[1]
      BY <1>2, <2>2
    <3> QED  BY <1>1, <2>2, <3>1 DEF FirstUnread, RingDense
  <2> QED  BY <2>1, <2>2
<1>6. ASSUME NEW i \in 1 .. Len(data_queue) - 1
      PROVE  data_queue[i][2] + 1 = data_queue[i + 1][1]
  <2>1. i \in 1 .. Len(data_queue) /\ i + 1 \in 1 .. Len(data_queue)
    BY <1>2
  <2> QED  BY <1>1, <2>1 DEF QueueDense
<1> QED  BY <1>1, <1>4, <1>5, <1>6 DEF RingDense

(* usb_uart.cpp, ft23xx.cpp: bytes are missing only where the code drops   *)
(* them, with the pool exhausted, the ring full or the device gone: until  *)
(* one is, every byte that arrived is read, in the ring or in the queue.   *)
THEOREM NothingElseLost == Spec => []NoSilentLoss
<1>1. Init => DataInv /\ GapInv
  <2>1. Init => Gapless
    BY DEF Init, Gapless, RingDense, QueueJoins, QueueDense, EndArrived, RingEnd
  <2> QED  BY <2>1, DataInvInit DEF GapInv
<1>2. DataInv /\ GapInv /\ [Next]_vars => (DataInv /\ GapInv)'
  BY DataInvStep, GapInvStep
<1> QED  BY <1>1, <1>2, GaplessIsNoLoss, PTL DEF Spec
==============================================================================
