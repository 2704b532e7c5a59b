-------------------------- MODULE StreamServer_proofs ---------------------------
(***************************************************************************)
(* The ring of StreamServer, for any set of clients and any size: as long  *)
(* as no counter wraps, no client loses its place and what is pending for  *)
(* one is what the UART received.  Positions are then natural numbers, in  *)
(* order: HeadInv has them between tail and head, ContentInv says which    *)
(* byte is in the cell of each.                                            *)
(***************************************************************************)
EXTENDS StreamServer, FiniteSetTheorems, WellFoundedInduction, TLAPS

(* The bytes of a behaviour are fewer than a size_t counts. *)
NoWrap == MaxTotal < WordSize

HeadInv ==
  /\ buf_head = total + skipped
  /\ buf_tail <= buf_head /\ buf_head - buf_tail <= BufSize
  /\ \A c \in Live : buf_tail <= position[c] /\ position[c] <= buf_head
  /\ buf_tail <= offered
  /\ pc \in {"accept", "write", "cleanup"} \/ (pc = "read" /\ len = 0) => offered = buf_head

ContentInv ==
  skipped = 0 => \A p \in buf_tail .. buf_head - 1 : buf[buf_index(p)] = p + 1

ServerInv == TypeOK /\ HeadInv /\ ContentInv

------------------------------------------------------------------------------
(* Remainders *)

(* A quotient and a remainder are determined by the number they make. *)
LEMMA SmallMultiple ==
  ASSUME NEW B \in Nat \ {0}, NEW q \in Int, -B < B * q, B * q < B
  PROVE  q = 0
<1>1. CASE q >= 1
  <2>1. B * q >= B
    BY <1>1
  <2> QED  BY <2>1
<1>2. CASE q <= -1
  <2>1. B * q <= -B
    BY <1>2
  <2> QED  BY <2>1
<1> QED  BY <1>1, <1>2

(* A number is its quotient and remainder. *)
LEMMA Division ==
  ASSUME NEW B \in Nat \ {0}, NEW a \in Int
  PROVE  a = B * (a \div B) + (a % B) /\ a \div B \in Int /\ a % B \in 0 .. B - 1
OBVIOUS

(* Two numbers less than a modulus apart with the same remainder are one. *)
LEMMA SameRemainder ==
  ASSUME NEW B \in Nat \ {0}, NEW a \in Int, NEW b \in Int, a % B = b % B,
         a - b < B, b - a < B
  PROVE  a = b
<1> DEFINE p == a \div B  q == b \div B
<1>1. a = B * p + (a % B) /\ b = B * q + (b % B) /\ p \in Int /\ q \in Int
  BY Division
<1>2. a % B \in Int /\ b % B \in Int
  BY Division
<1> HIDE DEF p, q
<1>3. a - b = B * (p - q)
  BY <1>1, <1>2
<1>4. p - q = 0
  BY <1>1, <1>3, SmallMultiple
<1> QED  BY <1>1, <1>4

(* A remainder grows with the number as long as it stays below the         *)
(* modulus.                                                                *)
LEMMA RemainderOfSum ==
  ASSUME NEW B \in Nat \ {0}, NEW a \in Int, NEW j \in Nat, (a % B) + j < B
  PROVE  (a + j) % B = (a % B) + j
<1> DEFINE p == a \div B  q == (a + j) \div B r == a % B s == (a + j) % B
<1>1. a = B * p + r /\ a + j = B * q + s /\ p \in Int /\ q \in Int
  BY Division
<1>2. r \in 0 .. B - 1 /\ s \in 0 .. B - 1
  BY Division
<1> HIDE DEF p, q, r, s
<1>3. B * (q - p) = (r + j) - s
  BY <1>1, <1>2
<1>4. r + j \in 0 .. B - 1
  BY <1>2 DEF r
<1>5. q - p = 0
  BY <1>1, <1>2, <1>3, <1>4, SmallMultiple
<1>6. B * (q - p) = 0
  BY <1>5
<1> QED  BY <1>2, <1>3, <1>4, <1>6 DEF r, s

(* The sizes as the proofs use them. *)
LEMMA Constants ==
  /\ BufSize \in Nat \ {0} /\ MaxTotal \in Nat /\ WordSize \in Nat \ {0}
  /\ BufSize < WordSize
BY ServerAssumption

(* Below the wrap of a size_t a position is itself; an index is in the     *)
(* array.                                                                  *)
LEMMA NoWrapping ==
  /\ \A n \in Nat : n < WordSize => Wrap(n) = n
  /\ \A n \in Int : buf_index(n) \in 0 .. BufSize - 1
  /\ \A n \in Int : Wrap(n) \in 0 .. WordSize - 1
<1> USE Constants
<1>1. ASSUME NEW n \in Nat, n < WordSize PROVE Wrap(n) = n
  BY <1>1 DEF Wrap
<1>2. ASSUME NEW n \in Int PROVE buf_index(n) \in 0 .. BufSize - 1
  BY Division DEF buf_index
<1>3. ASSUME NEW n \in Int PROVE Wrap(n) \in 0 .. WordSize - 1
  BY Division DEF Wrap
<1> QED  BY <1>1, <1>2, <1>3

(* An index, and the distance from it to the end of the array. *)
LEMMA IndexType == \A n \in Int : buf_index(n) \in Int /\ buf_ahead(n) = BufSize - buf_index(n)
BY Constants, NoWrapping DEF buf_index, buf_ahead

(* Going on in the array without passing its end. *)
LEMMA IndexOfSum ==
  ASSUME NEW a \in Int, NEW j \in Nat, buf_index(a) + j < BufSize
  PROVE  buf_index(a + j) = buf_index(a) + j
<1>1. (a % BufSize) + j < BufSize
  BY DEF buf_index
<1>2. (a + j) % BufSize = (a % BufSize) + j
  BY <1>1, Constants, RemainderOfSum
<1> QED  BY <1>2 DEF buf_index

(* A cell of the ring belongs to one position of any BufSize that follow. *)
LEMMA SameIndex ==
  ASSUME NEW a \in Int, NEW b \in Int, buf_index(a) = buf_index(b),
         a - b < BufSize, b - a < BufSize
  PROVE  a = b
BY Constants, SameRemainder DEF buf_index

(* The server starts empty. *)
LEMMA InitServer == Init => ServerInv
<1> SUFFICES ASSUME Init PROVE ServerInv  OBVIOUS
<1>1. Cardinality(Clients) \in Nat
  BY ServerAssumption, FS_CardinalityType
<1>2. TypeOK
  BY <1>1, Constants DEF Init, TypeOK, Phases, NoByte
<1> QED  BY <1>2, Constants DEF Init, ServerInv, HeadInv, ContentInv, Live

(* The connection count that is published is at most that of all clients. *)
LEMMA Sensor ==
  ASSUME NEW S \in SUBSET Clients
  PROVE  Cardinality(S) \in 0 .. Cardinality(Clients)
<1>1. IsFiniteSet(Clients) /\ IsFiniteSet(S) /\ Cardinality(S) <= Cardinality(Clients)
  BY ServerAssumption, FS_Subset
<1> QED  BY <1>1, FS_CardinalityType

(* Without wraps the distances are differences.                            *)
LEMMA Distances ==
  ASSUME NoWrap, ServerInv
  PROVE  /\ buf_head \in Nat /\ buf_tail \in Nat /\ buf_head <= MaxTotal
         /\ Distance(buf_tail, buf_head) = buf_head - buf_tail
         /\ FreeSpace = BufSize - (buf_head - buf_tail)
         /\ \A c \in Live :
              /\ position[c] \in Nat
              /\ Distance(position[c], buf_head) = buf_head - position[c]
              /\ Distance(buf_tail, position[c]) = position[c] - buf_tail
<1> USE Constants
<1>1. /\ buf_head \in Nat /\ buf_tail \in Nat /\ buf_head <= MaxTotal /\ buf_head < WordSize
      /\ buf_tail <= buf_head /\ buf_head - buf_tail <= BufSize
  BY DEF ServerInv, TypeOK, HeadInv, NoWrap
<1>2. Distance(buf_tail, buf_head) = buf_head - buf_tail
  BY <1>1, NoWrapping DEF Distance
<1>3. FreeSpace = BufSize - (buf_head - buf_tail)
  BY <1>1, <1>2, NoWrapping DEF FreeSpace
<1>4. ASSUME NEW c \in Live
      PROVE  /\ position[c] \in Nat
             /\ Distance(position[c], buf_head) = buf_head - position[c]
             /\ Distance(buf_tail, position[c]) = position[c] - buf_tail
  <2>1. position[c] \in Nat /\ buf_tail <= position[c] /\ position[c] <= buf_head
    BY DEF ServerInv, TypeOK, HeadInv, Live
  <2> QED  BY <1>1, <2>1, NoWrapping DEF Distance
<1> QED  BY <1>1, <1>2, <1>3, <1>4

------------------------------------------------------------------------------
(* read() *)

(* read_array of n bytes that fit before the end of the array: the cells   *)
(* from the head on are written, and no other.                             *)
LEMMA FillFacts ==
  ASSUME NoWrap, ServerInv, NEW n \in Nat \ {0}, n <= buf_ahead(buf_head),
         total + skipped + n <= MaxTotal, Fill(n)
  PROVE  /\ buf_head' = buf_head + n /\ buf_head' \in 0 .. WordSize - 1
         /\ total' \in Nat /\ skipped' \in Nat /\ total' + skipped' = total + skipped + n
         /\ len' = n /\ n \in 0 .. BufSize
         /\ buf' \in [0 .. BufSize - 1 -> Nat]
         /\ skipped' = 0 =>
              /\ skipped = 0
              /\ \A p \in buf_head .. buf_head + n - 1 : buf'[buf_index(p)] = p + 1
         /\ \A p \in 0 .. buf_head - 1 :
              buf_head + n - p <= BufSize => buf'[buf_index(p)] = buf[buf_index(p)]
<1> USE Constants
<1> DEFINE at == buf_index(buf_head)
           written == IF channel = "ready" THEN at .. at + n - 1 ELSE {}
<1>1. buf_head \in Nat /\ buf_head = total + skipped /\ total \in Nat /\ skipped \in Nat
  BY DEF ServerInv, TypeOK, HeadInv
<1>2. at \in 0 .. BufSize - 1 /\ at + n <= BufSize
  BY <1>1, NoWrapping, IndexType
<1>3. buf_head' = buf_head + n /\ buf_head' \in 0 .. WordSize - 1
  <2>1. buf_head + n \in Nat /\ buf_head + n < WordSize
    BY <1>1 DEF NoWrap
  <2> QED  BY <2>1, NoWrapping DEF Fill
<1>4. /\ total' \in Nat /\ skipped' \in Nat /\ total' + skipped' = total + skipped + n /\ len' = n
      /\ skipped' = 0 => channel = "ready" /\ skipped = 0
  BY <1>1 DEF Fill
<1>5. /\ buf' = [i \in 0 .. BufSize - 1 |-> IF i \in written THEN total + 1 + i - at ELSE buf[i]]
      /\ buf \in [0 .. BufSize - 1 -> Nat]
  <2>1. buf \in [0 .. BufSize - 1 -> Nat]
    BY DEF ServerInv, TypeOK
  <2>2. DOMAIN buf \cup written = 0 .. BufSize - 1
    BY <1>2, <2>1
  <2> QED  BY <2>1, <2>2 DEF Fill
<1> DEFINE Offset(j) == buf_index(buf_head + j) = at + j
<1>6. \A j \in Nat : j < n => Offset(j)
  <2> SUFFICES ASSUME NEW j \in Nat, j < n PROVE Offset(j)
    OBVIOUS
  <2>1. buf_index(buf_head) + j < BufSize /\ buf_head \in Int
    BY <1>1, <1>2
  <2> QED  BY <2>1, IndexOfSum
<1>7. \A i \in written : i \in 0 .. BufSize - 1 /\ i \in at .. at + n - 1
  BY <1>2
<1> HIDE DEF at
<1>8. buf' \in [0 .. BufSize - 1 -> Nat]
  <2>1. \A i \in written : total + 1 + i - at \in Nat
    BY <1>1, <1>2, <1>7
  <2> HIDE DEF written
  <2>2. \A i \in 0 .. BufSize - 1 : (IF i \in written THEN total + 1 + i - at ELSE buf[i]) \in Nat
    BY <1>5, <2>1
  <2> QED  BY <1>5, <2>2
<1>9. ASSUME skipped' = 0, NEW p \in buf_head .. buf_head + n - 1
      PROVE  buf'[buf_index(p)] = p + 1
  <2> DEFINE j == p - buf_head
  <2>1. j \in Nat /\ j < n /\ p = buf_head + j
    BY <1>1
  <2>2. buf_index(p) = at + j
    BY <1>6, <2>1
  <2>3. at + j \in written /\ at + j \in 0 .. BufSize - 1
    BY <1>2, <1>4, <1>9, <2>1
  <2>4. buf'[at + j] = total + 1 + (at + j) - at
    BY <1>5, <2>3
  <2> QED  BY <1>1, <1>2, <1>4, <1>9, <2>1, <2>2, <2>4
<1>10. ASSUME NEW p \in 0 .. buf_head - 1, buf_head + n - p <= BufSize
      PROVE  buf'[buf_index(p)] = buf[buf_index(p)]
  <2>1. buf_index(p) \in 0 .. BufSize - 1
    BY NoWrapping
  <2>2. buf_index(p) \notin written
    <3> SUFFICES ASSUME buf_index(p) \in at .. at + n - 1 PROVE FALSE
      BY <1>7
    <3> DEFINE j == buf_index(p) - at
    <3>1. j \in Nat /\ j < n /\ buf_index(p) = at + j
      BY <1>2, <2>1
    <3>2. buf_index(buf_head + j) = at + j
      BY <1>6, <3>1
    <3>3. p \in Int /\ buf_head + j \in Int /\ (buf_head + j) - p < BufSize /\ p - (buf_head + j) < BufSize
      BY <1>1, <1>10, <3>1
    <3>4. p = buf_head + j
      BY <3>1, <3>2, <3>3, SameIndex
    <3> QED  BY <1>1, <3>1, <3>4
  <2> HIDE DEF written
  <2> QED  BY <1>5, <2>1, <2>2
<1> QED
  BY <1>2, <1>3, <1>4, <1>8, <1>9, <1>10, SMTT(30)

(* What read() asks for fits the bytes, the room, and the end of the       *)
(* array.                                                                  *)
LEMMA LengthFacts ==
  ASSUME NoWrap, ServerInv, NEW available \in Nat \ {0}, NEW free \in Nat \ {0}
  PROVE  /\ FillLength(available, free) \in Nat \ {0}
         /\ FillLength(available, free) <= available
         /\ FillLength(available, free) <= free
         /\ FillLength(available, free) <= buf_ahead(buf_head)
<1>1. buf_ahead(buf_head) \in Nat \ {0}
  BY Constants, Distances, NoWrapping, IndexType
<1>2. /\ Smaller(buf_ahead(buf_head), free) \in Nat \ {0}
      /\ Smaller(buf_ahead(buf_head), free) <= free
      /\ Smaller(buf_ahead(buf_head), free) <= buf_ahead(buf_head)
  BY <1>1 DEF Smaller
<1> QED  BY <1>1, <1>2 DEF FillLength, Smaller

(* A turn of the loop in read() with room in the ring.                     *)
LEMMA ReadFillStep ==
  ASSUME NoWrap, ServerInv, NEW available \in 1 .. MaxTotal - total - skipped,
         ReadFill(available)
  PROVE  ServerInv'
<1> USE Constants
<1> DEFINE n == FillLength(available, FreeSpace)
<1>1. FreeSpace \in Nat \ {0} /\ FreeSpace = BufSize - (buf_head - buf_tail)
  BY Distances DEF ReadFill
<1>2. available \in Nat \ {0} /\ total + skipped + available <= MaxTotal
  BY DEF ServerInv, TypeOK
<1>3. n \in Nat \ {0} /\ n <= available /\ n <= FreeSpace /\ n <= buf_ahead(buf_head)
  BY <1>1, <1>2, LengthFacts
<1> HIDE DEF n
<1>4. Fill(n)
  BY DEF ReadFill, n
<1>5. total + skipped + n <= MaxTotal
  BY <1>2, <1>3, SMTT(30) DEF ServerInv, TypeOK
<1>6. /\ buf_head' = buf_head + n /\ buf_head' \in 0 .. WordSize - 1
      /\ total' \in Nat /\ skipped' \in Nat /\ total' + skipped' = total + skipped + n
      /\ len' = n /\ n \in 0 .. BufSize
      /\ buf' \in [0 .. BufSize - 1 -> Nat]
  BY <1>3, <1>4, <1>5, FillFacts
<1>7. UNCHANGED <<clients, disconnected, position, sensor, buf_tail, offered, channel, pc>>
  BY DEF ReadFill, clientVars
<1>8. /\ total \in Nat /\ skipped \in Nat /\ offered \in Nat /\ offered <= total + skipped
      /\ buf_head = total + skipped /\ buf_tail \in Nat /\ buf_tail <= buf_head
  BY DEF ServerInv, TypeOK, HeadInv
<1>9. TypeOK'
  <2>1. total' + skipped' <= MaxTotal /\ offered \in 0 .. total' + skipped'
    <3>1. total' + skipped' = total + skipped + n
      BY <1>6
    <3>2. total' + skipped' <= MaxTotal
      BY ONLY <1>5, <3>1
    <3>3. n \in Nat /\ total + skipped \in Nat /\ offered \in Nat /\ offered <= total + skipped
      BY <1>3, <1>8
    <3>4. offered \in 0 .. total + skipped + n
      BY ONLY <3>3
    <3> QED  BY ONLY <3>1, <3>2, <3>4
  <2> QED  BY <1>6, <1>7, <2>1 DEF ServerInv, TypeOK
<1>10. HeadInv'
  <2>1. buf_head' = total' + skipped' /\ buf_tail <= buf_head' /\ buf_head' - buf_tail <= BufSize
    <3>1. buf_head' = buf_head + n /\ total' + skipped' = total + skipped + n
      BY <1>6
    <3> QED  BY ONLY <1>1, <1>3, <1>8, <3>1, Constants
  <2>2. \A c \in Live : position[c] \in Nat
    BY Distances
  <2>3. ASSUME NEW c \in Live PROVE buf_tail <= position[c] /\ position[c] <= buf_head'
    <3>1. position[c] \in Nat /\ buf_tail <= position[c] /\ position[c] <= buf_head
      BY <2>2 DEF ServerInv, HeadInv
    <3>2. buf_head' = buf_head + n
      BY <1>6
    <3> QED  BY ONLY <1>3, <1>8, <3>1, <3>2
  <2>4. pc = "read" /\ len' # 0
    BY <1>3, <1>6 DEF ReadFill
  <2> QED  BY <1>7, <2>1, <2>3, <2>4 DEF ServerInv, HeadInv, Live
<1>11. ContentInv'
  <2> SUFFICES ASSUME skipped' = 0, NEW p \in buf_tail .. buf_head' - 1
               PROVE  buf'[buf_index(p)] = p + 1
    BY <1>7 DEF ContentInv, buf_index
  <2>1. CASE p >= buf_head
    <3>1. p \in buf_head .. buf_head + n - 1
      BY <1>3, <1>6, <1>8, <2>1
    <3> QED  BY <1>3, <1>4, <1>5, <3>1, FillFacts
  <2>2. CASE p < buf_head
    <3>1. p \in 0 .. buf_head - 1 /\ p \in buf_tail .. buf_head - 1 /\ buf_head + n - p <= BufSize
      BY <1>1, <1>3, <1>8, <2>2
    <3>2. skipped = 0 /\ buf'[buf_index(p)] = buf[buf_index(p)]
      BY <1>3, <1>4, <1>5, <3>1, FillFacts
    <3> QED  BY <3>1, <3>2 DEF ServerInv, ContentInv
  <2> QED  BY <1>8, <2>1, <2>2
<1> QED  BY <1>9, <1>10, <1>11 DEF ServerInv

(* A turn of it with the ring full: the tail goes up by what is dropped,   *)
(* and with it every client that was behind.                               *)
LEMMA ReadOverwriteStep ==
  ASSUME NoWrap, ServerInv, NEW available \in 1 .. MaxTotal - total - skipped,
         ReadOverwrite(available)
  PROVE  ServerInv'
<1> USE Constants
<1> DEFINE free == Smaller(available, BufSize)
           n == FillLength(available, free)
<1>1. buf_head - buf_tail = BufSize
  <2>1. FreeSpace = 0 /\ FreeSpace = BufSize - (buf_head - buf_tail)
    BY Distances DEF ReadOverwrite
  <2> QED  BY <2>1, Distances
<1>2. available \in Nat \ {0} /\ total + skipped + available <= MaxTotal
  BY DEF ServerInv, TypeOK
<1>3. free \in Nat \ {0} /\ free <= available /\ free <= BufSize
  BY <1>2 DEF Smaller
<1>4. /\ buf_tail' = Wrap(buf_tail + free) /\ position' = MovedUp(buf_tail') /\ Fill(n)
      /\ len = 0 /\ pc = "read"
  BY DEF ReadOverwrite, MayOverwrite
<1> HIDE DEF free
<1>5. n \in Nat \ {0} /\ n <= available /\ n <= free /\ n <= buf_ahead(buf_head)
  BY <1>2, <1>3, LengthFacts
<1> HIDE DEF n
<1>6. total + skipped + n <= MaxTotal
  BY <1>2, <1>5, SMTT(30) DEF ServerInv, TypeOK
<1>7. /\ buf_head' = buf_head + n /\ buf_head' \in 0 .. WordSize - 1
      /\ total' \in Nat /\ skipped' \in Nat /\ total' + skipped' = total + skipped + n
      /\ len' = n /\ n \in 0 .. BufSize
      /\ buf' \in [0 .. BufSize - 1 -> Nat]
  BY <1>4, <1>5, <1>6, FillFacts
<1>8. UNCHANGED <<clients, disconnected, sensor, offered, channel, pc>>
  BY DEF ReadOverwrite
<1>9. /\ total \in Nat /\ skipped \in Nat /\ offered \in Nat
      /\ buf_head = total + skipped /\ buf_tail \in Nat /\ buf_head \in 0 .. WordSize - 1
      /\ offered = buf_head
  BY <1>4 DEF ServerInv, TypeOK, HeadInv
<1>10. buf_tail' = buf_tail + free /\ buf_tail' \in 0 .. WordSize - 1 /\ buf_tail' <= buf_head
  <2>1. buf_tail + free \in Nat /\ buf_tail + free <= buf_head
    BY <1>1, <1>3, <1>9
  <2> QED  BY <1>4, <1>9, <2>1, NoWrapping
<1>11. /\ position' \in [Clients -> 0 .. WordSize - 1]
       /\ \A c \in Live : buf_tail' <= position'[c] /\ position'[c] <= buf_head
  <2>1. position \in [Clients -> 0 .. WordSize - 1] /\ Live \subseteq clients /\ clients \subseteq Clients
    BY DEF ServerInv, TypeOK, Live
  <2>2. position' = [c \in Clients |-> IF c \in clients /\ position[c] < buf_tail'
                                         THEN buf_tail' ELSE position[c]]
    BY <1>4 DEF MovedUp
  <2>3. position' \in [Clients -> 0 .. WordSize - 1]
    BY <1>10, <2>1, <2>2
  <2>4. ASSUME NEW c \in Live PROVE buf_tail' <= position'[c] /\ position'[c] <= buf_head
    <3>1. position[c] \in Nat /\ position[c] <= buf_head
      BY <2>1 DEF ServerInv, HeadInv
    <3>2. position'[c] = IF position[c] < buf_tail' THEN buf_tail' ELSE position[c]
      BY <2>1, <2>2
    <3> QED  BY <1>9, <1>10, <3>1, <3>2
  <2> QED  BY <2>3, <2>4
<1>12. TypeOK'
  <2>1. total' + skipped' <= MaxTotal /\ offered \in 0 .. total' + skipped'
    <3>1. total' + skipped' = total + skipped + n
      BY <1>7
    <3>2. total' + skipped' <= MaxTotal
      BY ONLY <1>6, <3>1
    <3>3. n \in Nat /\ total + skipped \in Nat /\ offered \in Nat /\ offered <= total + skipped
      BY <1>5, <1>9
    <3>4. offered \in 0 .. total + skipped + n
      BY ONLY <3>3
    <3> QED  BY ONLY <3>1, <3>2, <3>4
  <2> QED  BY <1>7, <1>8, <1>10, <1>11, <2>1 DEF ServerInv, TypeOK
<1>13. HeadInv'
  <2>1. buf_head' = total' + skipped' /\ buf_tail' <= buf_head' /\ buf_head' - buf_tail' <= BufSize
    <3>1. buf_head' = buf_head + n /\ total' + skipped' = total + skipped + n
      BY <1>7
    <3>2. buf_tail' = buf_tail + free /\ buf_tail' <= buf_head
      BY <1>10
    <3> QED  BY ONLY <1>1, <1>3, <1>5, <1>9, <3>1, <3>2, Constants
  <2>2. \A c \in Live : buf_tail' <= position'[c] /\ position'[c] <= buf_head'
    <3>1. ASSUME NEW c \in Live PROVE position'[c] <= buf_head'
      <4>1. position'[c] \in Nat /\ position'[c] <= buf_head
        BY <1>11 DEF Live, ServerInv, TypeOK
      <4>2. buf_head' = buf_head + n
        BY <1>7
      <4> QED  BY ONLY <1>5, <1>9, <4>1, <4>2
    <3> QED  BY <1>11, <3>1
  <2>3. len' # 0
    BY <1>5, <1>7
  <2> QED  BY <1>4, <1>8, <1>9, <1>10, <2>1, <2>2, <2>3 DEF HeadInv, Live
<1>14. ContentInv'
  <2> SUFFICES ASSUME skipped' = 0, NEW p \in buf_tail' .. buf_head' - 1
               PROVE  buf'[buf_index(p)] = p + 1
    BY DEF ContentInv, buf_index
  <2>1. CASE p >= buf_head
    <3>1. p \in buf_head .. buf_head + n - 1
      BY <1>5, <1>7, <1>9, <1>10, <2>1
    <3> QED  BY <1>4, <1>5, <1>6, <3>1, FillFacts
  <2>2. CASE p < buf_head
    <3>1. p \in 0 .. buf_head - 1 /\ p \in buf_tail .. buf_head - 1 /\ buf_head + n - p <= BufSize
      BY <1>1, <1>3, <1>5, <1>9, <1>10, <2>2
    <3>2. skipped = 0 /\ buf'[buf_index(p)] = buf[buf_index(p)]
      BY <1>4, <1>5, <1>6, <3>1, FillFacts
    <3> QED  BY <3>1, <3>2 DEF ServerInv, ContentInv
  <2> QED  BY <1>9, <1>10, <2>1, <2>2
<1> QED  BY <1>12, <1>13, <1>14 DEF ServerInv

(* The other ways out of read(), and a channel that comes or goes.         *)
LEMMA ReadLeavesStep ==
  ASSUME ServerInv, ReadFull \/ ReadEnd \/ (\E state \in {"ready", "empty", "full"} : ChannelChanges(state))
  PROVE  ServerInv'
<1>1. UNCHANGED <<clientVars, bufVars>> /\ channel' \in {"ready", "empty", "full"}
  BY DEF ReadFull, ReadEnd, ChannelChanges, ServerInv, TypeOK
<1>2. pc' = "flush" \/ (pc = "accept" /\ pc' = pc)
  BY DEF ReadFull, ReadEnd, ChannelChanges
<1>3. TypeOK'
  BY <1>1, <1>2 DEF ServerInv, TypeOK, Phases, clientVars, bufVars
<1>4. HeadInv'
  BY <1>1, <1>2 DEF ServerInv, HeadInv, Live, clientVars, bufVars
<1>5. ContentInv'
  BY <1>1 DEF ServerInv, ContentInv, bufVars, buf_index
<1> QED  BY <1>3, <1>4, <1>5 DEF ServerInv

------------------------------------------------------------------------------
(* The other phases of loop() *)

(* accept(): a new client starts at the head.                              *)
LEMMA AcceptStep ==
  ASSUME ServerInv, (\E c \in Clients : Accept(c)) \/ AcceptNone
  PROVE  ServerInv'
<1> USE Constants
<1>1. CASE AcceptNone
  <2>1. UNCHANGED <<clientVars, buf_head, buf_tail, buf, total, skipped, offered, channel>>
        /\ len' = 0 /\ pc = "accept" /\ pc' = "read"
    BY <1>1 DEF AcceptNone
  <2>2. TypeOK'
    BY <2>1 DEF ServerInv, TypeOK, Phases, clientVars
  <2>3. HeadInv'
    BY <2>1 DEF ServerInv, HeadInv, Live, clientVars
  <2>4. ContentInv'
    BY <2>1 DEF ServerInv, ContentInv, buf_index
  <2> QED  BY <2>2, <2>3, <2>4 DEF ServerInv
<1>2. ASSUME NEW c \in Clients, Accept(c) PROVE ServerInv'
  <2>1. /\ UNCHANGED <<disconnected, buf_head, buf_tail, buf, total, skipped, offered, channel>>
        /\ clients' = clients \cup {c} /\ c \notin clients
        /\ position' = [position EXCEPT ![c] = buf_head]
        /\ sensor' = Cardinality(clients')
        /\ len' = 0 /\ pc = "accept" /\ pc' = "read"
    BY <1>2 DEF Accept
  <2>2. TypeOK'
    <3>1. clients' \in SUBSET Clients /\ disconnected' \in SUBSET clients'
      BY <2>1 DEF ServerInv, TypeOK
    <3>2. sensor' \in 0 .. Cardinality(Clients)
      BY <2>1, <3>1, Sensor
    <3>3. position' \in [Clients -> 0 .. WordSize - 1]
      BY <2>1 DEF ServerInv, TypeOK
    <3> QED  BY <2>1, <3>1, <3>2, <3>3, SMTT(30) DEF ServerInv, TypeOK, Phases
  <2>3. HeadInv'
    <3>1. buf_tail <= buf_head /\ buf_head \in Nat /\ offered = buf_head
      BY <2>1 DEF ServerInv, TypeOK, HeadInv
    <3>2. ASSUME NEW d \in Live' PROVE buf_tail <= position'[d] /\ position'[d] <= buf_head
      <4>1. CASE d = c
        BY <2>1, <3>1, <4>1 DEF ServerInv, TypeOK
      <4>2. CASE d # c
        <5>1. d \in Live /\ d \in Clients
          BY <2>1, <4>2 DEF Live, ServerInv, TypeOK
        <5> QED  BY <2>1, <4>2, <5>1 DEF ServerInv, TypeOK, HeadInv
      <4> QED  BY <4>1, <4>2
    <3> QED  BY <2>1, <3>1, <3>2 DEF ServerInv, HeadInv
  <2>4. ContentInv'
    BY <2>1 DEF ServerInv, ContentInv, buf_index
  <2> QED  BY <2>2, <2>3, <2>4 DEF ServerInv
<1> QED  BY <1>1, <1>2

(* write() and cleanup() only take clients away.                           *)
LEMMA WriteStep ==
  ASSUME ServerInv, NEW closed \in SUBSET Live, Write(closed)
  PROVE  ServerInv'
<1>1. /\ UNCHANGED <<clients, position, sensor, bufVars, channel>>
      /\ disconnected' = disconnected \cup closed /\ pc = "write" /\ pc' = "cleanup"
  BY DEF Write
<1>2. TypeOK'
  BY <1>1 DEF ServerInv, TypeOK, Phases, bufVars, Live
<1>3. HeadInv'
  BY <1>1 DEF ServerInv, HeadInv, Live, bufVars
<1>4. ContentInv'
  BY <1>1 DEF ServerInv, ContentInv, bufVars, buf_index
<1> QED  BY <1>2, <1>3, <1>4 DEF ServerInv

(* cleanup() removes the clients that have gone. *)
LEMMA CleanupStep ==
  ASSUME ServerInv, Cleanup
  PROVE  ServerInv'
<1>1. /\ UNCHANGED <<position, bufVars, channel>>
      /\ clients' = Live /\ disconnected' = {} /\ pc = "cleanup" /\ pc' = "accept"
      /\ sensor' = IF disconnected # {} THEN Cardinality(clients') ELSE sensor
  BY DEF Cleanup
<1>2. clients' \in SUBSET Clients
  BY <1>1 DEF ServerInv, TypeOK, Live
<1>3. sensor' \in 0 .. Cardinality(Clients)
  BY <1>1, <1>2, Sensor DEF ServerInv, TypeOK
<1>4. TypeOK'
  BY <1>1, <1>2, <1>3 DEF ServerInv, TypeOK, Phases, bufVars
<1>5. HeadInv'
  BY <1>1 DEF ServerInv, HeadInv, Live, bufVars
<1>6. ContentInv'
  BY <1>1 DEF ServerInv, ContentInv, bufVars, buf_index
<1> QED  BY <1>4, <1>5, <1>6 DEF ServerInv

(* A set of positions that is not empty has a least one. *)
LEMMA LeastPosition ==
  ASSUME NEW S \in SUBSET Nat, S # {}
  PROVE  \E m \in S : \A u \in S : m <= u
<1>1. PICK m \in S : \A u \in S : ~(<<u, m>> \in OpToRel(<, Nat))
  BY NatLessThanWellFounded, WFMin
<1>2. ASSUME NEW u \in S PROVE m <= u
  <2>1. u \in Nat /\ m \in Nat /\ ~(u < m)
    BY <1>1 DEF OpToRel
  <2> QED  BY <2>1
<1> QED  BY <1>2

(* flush(): the clients that took something move up, the tail to the last  *)
(* of those that stay.                                                     *)
LEMMA FlushStep ==
  ASSUME NoWrap, ServerInv, NEW took \in [Behind -> 0 .. BufSize], NEW closed \in SUBSET Behind,
         Flush(took, closed)
  PROVE  ServerInv'
<1> USE Constants
<1> DEFINE held == {position'[c] : c \in Holders(took, closed)} \cup {buf_head}
<1>1. /\ UNCHANGED <<clients, sensor, buf_head, buf, total, skipped, len, channel>>
      /\ disconnected' = disconnected \cup closed
      /\ position' = [c \in Clients |-> IF c \in Behind \ closed
                                          THEN Wrap(position[c] + took[c]) ELSE position[c]]
      /\ \A c \in Behind : took[c] <= Distance(position[c], buf_head)
      /\ buf_tail' = CHOOSE t \in held : \A u \in held : t <= u
      /\ offered' = total + skipped /\ pc' = "write"
  BY DEF Flush
<1>2. /\ buf_head \in 0 .. WordSize - 1 /\ buf_tail \in Nat /\ total + skipped \in Nat
      /\ buf_tail <= buf_head /\ buf_head - buf_tail <= BufSize /\ buf_head = total + skipped
  BY DEF ServerInv, TypeOK, HeadInv
<1>3. Behind \subseteq Live /\ Live \subseteq clients /\ clients \subseteq Clients
  BY DEF Behind, Live, ServerInv, TypeOK
<1>4. ASSUME NEW c \in Behind \ closed
      PROVE  /\ position'[c] \in 0 .. WordSize - 1
             /\ buf_tail <= position'[c] /\ position'[c] <= buf_head
  <2>1. c \in Live /\ c \in Clients /\ c \in Behind /\ took[c] \in Nat
    BY <1>3
  <2>2. position[c] \in Nat /\ Distance(position[c], buf_head) = buf_head - position[c]
    BY <2>1, Distances
  <2>3. took[c] <= buf_head - position[c]
    BY <1>1, <2>1, <2>2
  <2>4. buf_tail <= position[c]
    BY <2>1 DEF ServerInv, HeadInv
  <2>5. position[c] + took[c] \in Nat /\ position[c] + took[c] <= buf_head
    BY ONLY <1>2, <2>1, <2>2, <2>3
  <2>6. position'[c] = Wrap(position[c] + took[c])
    BY <1>1, <2>1
  <2>7. position'[c] = position[c] + took[c]
    BY <1>2, <2>5, <2>6, NoWrapping
  <2>8. buf_tail <= position[c] + took[c]
    BY ONLY <1>2, <2>1, <2>2, <2>4
  <2>9. position[c] + took[c] \in 0 .. WordSize - 1
    <3> DEFINE moved == position[c] + took[c]
    <3>1. moved \in Nat /\ moved <= buf_head
      BY <2>5
    <3> HIDE DEF moved
    <3>2. moved \in 0 .. WordSize - 1
      BY ONLY <1>2, <3>1, Constants
    <3> QED  BY <3>2 DEF moved
  <2> QED  BY <2>5, <2>7, <2>8, <2>9
<1>5. ASSUME NEW c \in Clients, c \notin Behind \ closed PROVE position'[c] = position[c]
  BY <1>1, <1>5
<1>6. position' \in [Clients -> 0 .. WordSize - 1]
  <2>1. \A c \in Clients : position[c] \in 0 .. WordSize - 1
    BY DEF ServerInv, TypeOK
  <2>2. \A c \in Clients : position'[c] \in 0 .. WordSize - 1
    BY <1>4, <1>5, <2>1
  <2> QED  BY <1>1, <2>2
<1>7. \A t \in held : t \in 0 .. WordSize - 1 /\ buf_tail <= t
  BY <1>2, <1>4 DEF Holders
<1>8. buf_tail' \in held /\ \A u \in held : buf_tail' <= u
  <2>1. held \in SUBSET Nat /\ held # {}
    BY <1>7
  <2>2. \E m \in held : \A u \in held : m <= u
    <3> HIDE DEF held
    <3> QED  BY <2>1, LeastPosition
  <2> HIDE DEF held
  <2> QED  BY <1>1, <2>2
<1>9. buf_tail' \in 0 .. WordSize - 1 /\ buf_tail <= buf_tail' /\ buf_tail' <= buf_head
  <2>1. buf_head \in held
    OBVIOUS
  <2> HIDE DEF held
  <2> QED  BY <1>7, <1>8, <2>1
<1>10. ASSUME NEW c \in Live' PROVE buf_tail' <= position'[c] /\ position'[c] <= buf_head
  <2>1. c \in Live /\ c \in Clients /\ c \notin closed
    BY <1>1, <1>3, <1>10 DEF Live
  <2>2. CASE c \in Behind
    <3>1. c \in Behind \ closed /\ position'[c] \in held
      BY <2>1, <2>2 DEF Holders
    <3> HIDE DEF held
    <3> QED  BY <1>4, <1>8, <3>1
  <2>3. CASE c \notin Behind
    <3>1. position'[c] = position[c] /\ position[c] = buf_head
      BY <1>5, <2>1, <2>3 DEF Behind, Pending
    <3> QED  BY <1>2, <1>9, <3>1
  <2> QED  BY <2>2, <2>3
<1>11. TypeOK'
  <2>1. disconnected' \in SUBSET clients'
    BY <1>1, <1>3 DEF ServerInv, TypeOK
  <2>2. offered' \in 0 .. total' + skipped'
    BY <1>1, <1>2
  <2> QED  BY <1>1, <1>6, <1>9, <2>1, <2>2, SMTT(30) DEF ServerInv, TypeOK, Phases
<1>12. HeadInv'
  <2>1. buf_head' - buf_tail' <= BufSize /\ buf_tail' <= offered' /\ offered' = buf_head'
    <3>1. buf_head' = buf_head /\ offered' = total + skipped
      BY <1>1
    <3> QED  BY ONLY <1>2, <1>9, <3>1, Constants
  <2> QED  BY <1>1, <1>2, <1>9, <1>10, <2>1 DEF HeadInv
<1>13. ContentInv'
  <2> SUFFICES ASSUME skipped = 0, NEW p \in buf_tail' .. buf_head - 1
               PROVE  buf[buf_index(p)] = p + 1
    BY <1>1 DEF ContentInv, buf_index
  <2>1. p \in buf_tail .. buf_head - 1
    BY <1>2, <1>9
  <2> QED  BY <2>1 DEF ServerInv, ContentInv
<1> QED  BY <1>11, <1>12, <1>13 DEF ServerInv

------------------------------------------------------------------------------
(* Every phase of loop() keeps the invariant. *)
LEMMA ServerStep == NoWrap /\ ServerInv /\ [Next]_vars => ServerInv'
<1> SUFFICES ASSUME NoWrap, ServerInv, [Next]_vars PROVE ServerInv'
  OBVIOUS
<1>1. CASE Read
  <2>1. PICK available \in 1 .. MaxTotal - total - skipped :
          ReadFill(available) \/ ReadOverwrite(available)
    BY <1>1 DEF Read
  <2> QED  BY <2>1, ReadFillStep, ReadOverwriteStep
<1>2. CASE ReadFull \/ ReadEnd \/ \E state \in {"ready", "empty", "full"} : ChannelChanges(state)
  BY <1>2, ReadLeavesStep
<1>3. CASE (\E c \in Clients : Accept(c)) \/ AcceptNone
  BY <1>3, AcceptStep
<1>4. CASE Flushing
  BY <1>4, FlushStep DEF Flushing
<1>5. CASE \E closed \in SUBSET Live : Write(closed)
  BY <1>5, WriteStep
<1>6. CASE Cleanup
  BY <1>6, CleanupStep
<1>7. CASE UNCHANGED vars
  <2>1. TypeOK'
    BY <1>7 DEF ServerInv, TypeOK, vars, clientVars, bufVars
  <2>2. HeadInv'
    BY <1>7 DEF ServerInv, HeadInv, Live, vars, clientVars, bufVars
  <2>3. ContentInv'
    BY <1>7 DEF ServerInv, ContentInv, vars, bufVars, buf_index
  <2> QED  BY <2>1, <2>2, <2>3 DEF ServerInv
<1> QED  BY <1>1, <1>2, <1>3, <1>4, <1>5, <1>6, <1>7 DEF Next

(* The invariant implies that no client loses its place. *)
LEMMA RingSoundHolds == NoWrap /\ ServerInv => RingSound
<1> SUFFICES ASSUME NoWrap, ServerInv PROVE RingSound
  OBVIOUS
<1>1. TypeOK
  BY DEF ServerInv
<1>2. PositionsInWindow
  <2>1. Distance(buf_tail, buf_head) <= BufSize
    BY Distances DEF ServerInv, HeadInv
  <2>2. ASSUME NEW c \in Live
        PROVE  Distance(buf_tail, position[c]) + Distance(position[c], buf_head)
                 = Distance(buf_tail, buf_head)
    <3>1. buf_head \in Nat /\ buf_tail \in Nat /\ position[c] \in Nat
      BY Distances
    <3> QED  BY <3>1, Distances
  <2> QED  BY <2>1, <2>2 DEF PositionsInWindow
<1>3. ASSUME skipped = 0, NEW c \in Live, NEW k \in 0 .. Distance(position[c], buf_head) - 1
      PROVE  buf[buf_index(position[c] + k)] = total + 1 + k - Distance(position[c], buf_head)
  <2> DEFINE p == position[c] + k
  <2>1. /\ buf_head \in Nat /\ buf_tail \in Nat /\ position[c] \in Nat /\ total \in Nat
        /\ Distance(position[c], buf_head) = buf_head - position[c]
        /\ buf_tail <= position[c] /\ position[c] <= buf_head /\ buf_head = total
    BY <1>3, Distances DEF ServerInv, TypeOK, HeadInv
  <2>2. p \in buf_tail .. buf_head - 1
    BY <2>1
  <2>3. buf[buf_index(p)] = p + 1
    <3> HIDE DEF p
    <3> QED  BY <1>3, <2>2 DEF ServerInv, ContentInv
  <2>4. p + 1 = total + 1 + k - (buf_head - position[c])
    <3> DEFINE here == position[c]
    <3>1. k \in Int /\ here \in Nat /\ total \in Nat /\ buf_head = total
      BY <2>1
    <3> HIDE DEF here
    <3>2. here + k + 1 = total + 1 + k - (buf_head - here)
      BY ONLY <3>1
    <3> QED  BY <3>2 DEF here
  <2> QED  BY <2>1, <2>3, <2>4
<1>4. skipped = 0 => PendingIntact
  BY <1>3 DEF PendingIntact
<1> QED  BY <1>1, <1>2, <1>4 DEF RingSound

(* The invariant implies that read() overwrites nothing new. *)
LEMMA FreshHolds == NoWrap /\ ServerInv => FreshBytesKept
<1> SUFFICES ASSUME NoWrap, ServerInv PROVE FreshBytesKept
  OBVIOUS
<1>1. Distance(buf_tail, buf_head) = buf_head - buf_tail /\ buf_head \in Nat /\ buf_tail \in Nat
  BY Distances
<1>2. /\ buf_tail <= offered /\ offered \in Nat
      /\ buf_head = total + skipped /\ total \in Nat /\ skipped \in Nat
  BY DEF ServerInv, TypeOK, HeadInv
<1>3. buf_head - buf_tail >= total + skipped - offered
  BY ONLY <1>1, <1>2
<1> QED  BY <1>1, <1>2, <1>3 DEF FreshBytesKept

(* stream_server.cpp read(), flush(): as long as no counter wraps, every   *)
(* client that stays is between tail and head, no more than the ring       *)
(* behind, and as long as the channel handed out what it said it had, the  *)
(* cells from its position on hold the bytes it has not been sent yet, in  *)
(* order: for any number of clients, any ring and whatever sockets take.   *)
THEOREM RingIsSound == ASSUME NoWrap PROVE Spec => []RingSound
<1>1. Spec => []ServerInv
  <2>1. Init => ServerInv
    BY InitServer
  <2>2. ServerInv /\ [Next]_vars => ServerInv'
    BY ServerStep
  <2> QED  BY <2>1, <2>2, PTL DEF Spec
<1>2. ServerInv => RingSound
  BY RingSoundHolds
<1> QED  BY <1>1, <1>2, PTL

(* stream_server.cpp:127: what read() has added since the last flush() is  *)
(* not overwritten before flush() has offered it, below the wrap.          *)
THEOREM FreshKept == ASSUME NoWrap PROVE Spec => []FreshBytesKept
<1>1. Spec => []ServerInv
  <2>1. Init => ServerInv
    BY InitServer
  <2>2. ServerInv /\ [Next]_vars => ServerInv'
    BY ServerStep
  <2> QED  BY <2>1, <2>2, PTL DEF Spec
<1>2. ServerInv => FreshBytesKept
  BY FreshHolds
<1> QED  BY <1>1, <1>2, PTL
==============================================================================
