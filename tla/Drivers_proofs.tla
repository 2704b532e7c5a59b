---------------------------- MODULE Drivers_proofs ----------------------------
(***************************************************************************)
(* Proofs about Drivers and the encoders it uses: a chip at rest runs with *)
(* the settings of its channel.  First what each encoder computes, then    *)
(* the sequences of the five drivers, then the machine that runs them.     *)
(***************************************************************************)
EXTENDS Drivers, SequenceTheorems, WellFoundedInduction, TLAPS

------------------------------------------------------------------------------
(* The encoders (BaudEncoders): the direct rate and the PL2303 divisors. *)

(* The four bytes of encode_baud_direct give the rate back, and do not set *)
(* the bit that marks a divisor.                                           *)
LEMMA DirectExact ==
  ASSUME NEW baud \in Nat, baud <= 12000000
  PROVE  /\ DirectBaud(encode_baud_direct(baud)) = baud
         /\ encode_baud_direct(baud)[4] < 128
  <1> DEFINE a == baud \div 256
             b == baud \div 65536
  <1>1. a \in Nat /\ b \in Nat /\ b = a \div 256
    BY SMT
  <1>2. baud \div 16777216 = 0
    BY SMT
  <1>3. baud = 256 * a + (baud % 256)
    BY SMT
  <1>4. a = 256 * b + (a % 256)
    <2> HIDE DEF a, b
    <2> QED  BY <1>1, SMT
  <1>5. b % 256 = b
    BY SMT
  <1>6. DirectBaud(encode_baud_direct(baud))
          = (baud % 256) + 256 * (a % 256) + 65536 * (b % 256) + 16777216 * 0
    BY <1>2, SMT DEF DirectBaud, encode_baud_direct
  <1>7. encode_baud_direct(baud)[4] = 0
    BY <1>2, SMT DEF encode_baud_direct
  <1>8. baud % 256 \in Nat /\ a % 256 \in Nat
    BY <1>1, SMT
  <1> HIDE DEF a, b
  <1> QED
    BY <1>1, <1>3, <1>4, <1>5, <1>6, <1>7, <1>8, SMT

(* What the division of naturals gives. *)
LEMMA Quotient ==
  ASSUME NEW a \in Nat, NEW b \in Nat \ {0}
  PROVE  /\ a \div b \in Nat
         /\ (a \div b) * b <= a
         /\ a < (a \div b) * b + b
  OBVIOUS

(* A bound from below on a quotient. *)
LEMMA QuotientBelow ==
  ASSUME NEW a \in Nat, NEW b \in Nat \ {0}, NEW n \in Nat, n * b <= a
  PROVE  n <= a \div b
  OBVIOUS

(* A bound from above on a quotient. *)
LEMMA QuotientAbove ==
  ASSUME NEW a \in Nat, NEW b \in Nat \ {0}, NEW n \in Nat, a < n * b
  PROVE  a \div b < n
  OBVIOUS

(* A set of numbers that is not empty has a least one. *)
LEMMA Least ==
  ASSUME NEW S \in SUBSET Nat, S # {}
  PROVE  \E n \in S : \A m \in S : n <= m
  <1>1. PICK n \in S : \A m \in S : ~(<<m, n>> \in OpToRel(<, Nat))
    BY NatLessThanWellFounded, WFMin
  <1>2. ASSUME NEW m \in S  PROVE n <= m
    <2>1. m \in Nat /\ n \in Nat /\ ~(m < n)
      BY <1>1 DEF OpToRel
    <2> QED  BY <2>1
  <1> QED  BY <1>2

(* The powers the divisors are scaled by. *)
LEMMA PowersOfFour ==
  ASSUME NEW e \in 0 .. 7
  PROVE  4^e \in Nat \ {0} /\ (e > 0 => 4^e = 4 * 4^(e - 1))
  <1>1. /\ 4^0 = 1 /\ 4^1 = 4 /\ 4^2 = 16 /\ 4^3 = 64 /\ 4^4 = 256 /\ 4^5
          = 1024 /\ 4^6 = 4096 /\ 4^7 = 16384
    OBVIOUS
  <1>2. CASE e = 0
    BY <1>1, <1>2
  <1>3. CASE e = 1
    BY <1>1, <1>3
  <1>4. CASE e = 2
    BY <1>1, <1>4
  <1>5. CASE e = 3
    BY <1>1, <1>5
  <1>6. CASE e = 4
    BY <1>1, <1>6
  <1>7. CASE e = 5
    BY <1>1, <1>7
  <1>8. CASE e = 6
    BY <1>1, <1>8
  <1>9. CASE e = 7
    BY <1>1, <1>9
  <1> QED
    BY <1>2, <1>3, <1>4, <1>5, <1>6, <1>7, <1>8, <1>9

(* The same for the scale of two. *)
LEMMA PowersOfTwo ==
  ASSUME NEW e \in 0 .. 15
  PROVE  2^e \in Nat \ {0} /\ (e > 0 => 2^e = 2 * 2^(e - 1))
  <1>1. /\ 2^0 = 1 /\ 2^1 = 2 /\ 2^2 = 4 /\ 2^3 = 8 /\ 2^4 = 16 /\ 2^5 =
          32 /\ 2^6 = 64 /\ 2^7 = 128 /\ 2^8 = 256 /\ 2^9 = 512 /\ 2^10 =
          1024 /\ 2^11 = 2048 /\ 2^12 = 4096 /\ 2^13 = 8192 /\ 2^14 = 16384
          /\ 2^15 = 32768
    OBVIOUS
  <1>2. CASE e = 0
    BY <1>1, <1>2
  <1>3. CASE e = 1
    BY <1>1, <1>3
  <1>4. CASE e = 2
    BY <1>1, <1>4
  <1>5. CASE e = 3
    BY <1>1, <1>5
  <1>6. CASE e = 4
    BY <1>1, <1>6
  <1>7. CASE e = 5
    BY <1>1, <1>7
  <1>8. CASE e = 6
    BY <1>1, <1>8
  <1>9. CASE e = 7
    BY <1>1, <1>9
  <1>10. CASE e = 8
    BY <1>1, <1>10
  <1>11. CASE e = 9
    BY <1>1, <1>11
  <1>12. CASE e = 10
    BY <1>1, <1>12
  <1>13. CASE e = 11
    BY <1>1, <1>13
  <1>14. CASE e = 12
    BY <1>1, <1>14
  <1>15. CASE e = 13
    BY <1>1, <1>15
  <1>16. CASE e = 14
    BY <1>1, <1>16
  <1>17. CASE e = 15
    BY <1>1, <1>17
  <1> QED
    BY <1>2, <1>3, <1>4, <1>5, <1>6, <1>7, <1>8, <1>9, <1>10, <1>11, <1>12,
       <1>13, <1>14, <1>15, <1>16, <1>17

(* What the loop of pl2303.cpp is run with: the powers of the base, and a  *)
(* limit the quotient can be brought below.                                *)
Scale(q, base, limit, most, power) ==
  /\ q \in Nat /\ 64 <= q
  /\ base \in Nat \ {0} /\ limit \in Nat /\ 64 * base <= limit /\ most \in Nat
  /\ power \in [0 .. most -> Nat \ {0}] /\ power[0] = 1
  /\ \A e \in 1 .. most : power[e] = base * power[e - 1]
  /\ \A e \in 0 .. most : base^e = power[e]
  /\ q < limit * power[most]

(* pl2303.cpp, the loop of both divisor encodings: the mantissa is the     *)
(* divisor cut to a power of the base, as precise as the limit lets it be. *)
LEMMA ScaledExact ==
  ASSUME NEW q, NEW base, NEW limit, NEW most, NEW power,
         Scale(q, base, limit, most, power)
  PROVE  \E mantissa \in 64 .. limit - 1, exponent \in 0 .. most :
           /\ Scaled(q, base, limit, most) = [mantissa |-> mantissa, exponent |-> exponent]
           /\ mantissa * power[exponent] <= q
           /\ q < (mantissa + 1) * power[exponent]
  <1>0. /\ q \in Nat /\ 64 <= q
        /\ base \in Nat \ {0} /\ limit \in Nat /\ 64 * base <= limit /\ most \in Nat
        /\ q < limit * power[most]
    BY DEF Scale
  <1>a. /\ power \in [0 .. most -> Nat \ {0}] /\ power[0] = 1
        /\ \A e \in 1 .. most : power[e] = base * power[e - 1]
        /\ \A e \in 0 .. most : base^e = power[e]
    BY DEF Scale
  <1> DEFINE fits == {e \in 0 .. most : q \div base^e < limit}
             exponent == CHOOSE e \in fits : \A f \in fits : e <= f
  <1>1. fits = {e \in 0 .. most : q \div power[e] < limit}
    BY <1>0, <1>a
  <1>2. most \in fits
    <2>1. most \in 0 .. most /\ power[most] \in Nat \ {0}
      BY <1>0, <1>a
    <2>2. q \div power[most] < limit
      BY ONLY <1>0, <2>1, QuotientAbove
    <2> QED
      BY <1>0, <1>a, <2>1, <2>2, <1>1
  <1>3. Scaled(q, base, limit, most)
          = [mantissa |-> q \div base^exponent, exponent |-> exponent]
    BY <1>2 DEF Scaled
  <1> HIDE DEF fits
  <1>4. exponent \in fits /\ \A f \in fits : exponent <= f
    <2>1. fits \in SUBSET Nat /\ fits # {}
      <3>1. ASSUME NEW e \in fits  PROVE e \in Nat
        <4>1. e \in 0 .. most
          BY <1>0, <1>a, <1>1, Zenon
        <4> QED  BY ONLY <1>0, <4>1
      <3> QED  BY ONLY <3>1, <1>2
    <2>2. \E e \in fits : \A f \in fits : e <= f
      BY ONLY <2>1, Least
    <2>3. exponent = CHOOSE e \in fits : \A f \in fits : e <= f
      BY <1>0, <1>a
    <2> QED
      BY ONLY <2>2, <2>3
  <1> HIDE DEF exponent
  <1> DEFINE p == power[exponent]
             mantissa == q \div p
  <1>5. exponent \in 0 .. most /\ p \in Nat \ {0} /\ mantissa < limit
    BY <1>0, <1>a, <1>1, <1>4
  <1>6. base^exponent = p
    BY <1>0, <1>a, <1>5
  <1>7. exponent > 0 => limit <= q \div power[exponent - 1]
    <2> HAVE exponent > 0
    <2>1. exponent - 1 \in 0 .. most /\ ~(exponent <= exponent - 1)
      BY <1>0, <1>a, <1>5
    <2>2. exponent - 1 \notin fits
      BY <1>0, <1>a, <2>1, <1>4
    <2>3. ~(q \div power[exponent - 1] < limit)
      BY <1>0, <1>a, <2>1, <2>2, <1>1
    <2>4. power[exponent - 1] \in Nat \ {0}
      BY <1>0, <1>a, <2>1
    <2>5. q \div power[exponent - 1] \in Nat
      BY <1>0, <1>a, <2>4, Quotient
    <2> QED
      BY ONLY <1>0, <2>3, <2>5
  <1>8. mantissa \in Nat /\ mantissa * p <= q /\ q < mantissa * p + p
    BY ONLY <1>0, <1>5, Quotient
  <1>9. q < (mantissa + 1) * p
    <2>1. (mantissa + 1) * p = mantissa * p + p
      BY ONLY <1>5, <1>8
    <2> QED
      BY <1>0, <1>a, <2>1, <1>8
  <1>10. 64 <= mantissa
    <2>1. CASE exponent = 0
      <3>1. p = 1
        BY <1>0, <1>a, <2>1
      <3> HIDE DEF p
      <3> QED
        BY ONLY <1>0, <3>1, <1>8
    <2>2. CASE exponent > 0
      <3> DEFINE r == power[exponent - 1]
      <3>1. r \in Nat \ {0} /\ p = base * r
        BY <1>0, <1>a, <1>5, <2>2
      <3>2. limit <= q \div r
        BY <1>0, <1>a, <1>7, <2>2
      <3> HIDE DEF p, r
      <3>3. q \div r \in Nat /\ (q \div r) * r <= q
        BY ONLY <1>0, <3>1, Quotient
      <3>4. limit * r <= (q \div r) * r
        BY ONLY <1>0, <3>1, <3>2, <3>3
      <3>5. 64 * base * r <= limit * r
        BY ONLY <1>0, <3>1
      <3>6. 64 * (base * r) = 64 * base * r
        BY ONLY <1>0, <3>1
      <3>7. 64 * p <= q
        BY ONLY <1>0, <3>1, <3>3, <3>4, <3>5, <3>6
      <3> QED
        BY ONLY <1>0, <3>7, <1>5, QuotientBelow, 64 \in Nat
    <2> QED
      BY <1>0, <1>a, <2>1, <2>2, <1>5
  <1>11. mantissa \in 64 .. limit - 1
    BY ONLY <1>0, <1>5, <1>8, <1>10
  <1> HIDE DEF mantissa
  <1>12. Scaled(q, base, limit, most) = [mantissa |-> mantissa, exponent |-> exponent]
    BY ONLY <1>3, <1>6 DEF mantissa
  <1> HIDE DEF p
  <1> QED
    BY ONLY <1>5, <1>8, <1>9, <1>11, <1>12 DEF p

(* The exact divisors of the rates that are given as divisors. *)
InRange(q) == q \in Nat /\ 64 <= q /\ q <= 1280000

(* The limit of the encoding of the TA and TB. *)
AltLimit == 2048

(* The two encodings. *)
LEMMA ScaledByFour ==
  ASSUME NEW q, InRange(q)
  PROVE  \E mantissa \in 64 .. 512 - 1, exponent \in 0 .. 7 :
           /\ Scaled(q, 4, 512, 7) = [mantissa |-> mantissa, exponent |-> exponent]
           /\ mantissa * 4^exponent <= q
           /\ q < (mantissa + 1) * 4^exponent
  <1> DEFINE base == 4
             limit == 512
             most == 7
             power == [e \in 0 .. most |-> base^e]
  <1>1. \A e \in 0 .. most : base^e \in Nat \ {0} /\ (e > 0 => base^e = base * base^(e - 1))
    BY ONLY PowersOfFour, Zenon
  <1>2. \A e \in 1 .. most : e \in 0 .. most /\ e - 1 \in 0 .. most /\ e > 0
    BY ONLY SMT
  <1>3. base^0 = 1 /\ base^most = 16384
    BY ONLY SMT
  <1>4. /\ base \in Nat \ {0} /\ limit \in Nat /\ most \in Nat
        /\ 64 * base <= limit
    BY ONLY SMT
  <1>11. limit * 16384 > 1280000
    BY ONLY SMT
  <1> HIDE DEF base, limit, most
  <1>5. /\ power \in [0 .. most -> Nat \ {0}]
        /\ \A e \in 1 .. most : power[e] = base * power[e - 1]
        /\ \A e \in 0 .. most : base^e = power[e]
    BY <1>1, <1>2
  <1>6. power[0] = 1
    BY <1>3, <1>4
  <1>12. power[most] = 16384
    BY <1>3, <1>4
  <1> HIDE DEF power
  <1>7. q < limit * power[most]
    BY <1>4, <1>11, <1>12, SMT DEF InRange
  <1>13. Scale(q, base, limit, most, power)
    BY <1>4, <1>5, <1>6, <1>7, SMT DEF Scale, InRange
  <1>8. \E mantissa \in 64 .. limit - 1, exponent \in 0 .. most :
          /\ Scaled(q, base, limit, most) = [mantissa |-> mantissa, exponent |-> exponent]
          /\ mantissa * power[exponent] <= q
          /\ q < (mantissa + 1) * power[exponent]
    BY ONLY <1>13, ScaledExact
  <1>9. \E mantissa \in 64 .. limit - 1, exponent \in 0 .. most :
          /\ Scaled(q, base, limit, most) = [mantissa |-> mantissa, exponent |-> exponent]
          /\ mantissa * base^exponent <= q
          /\ q < (mantissa + 1) * base^exponent
    BY ONLY <1>5, <1>8
  <1>10. PICK mantissa \in 64 .. limit - 1, exponent \in 0 .. most :
           /\ Scaled(q, base, limit, most) = [mantissa |-> mantissa, exponent |-> exponent]
           /\ mantissa * base^exponent <= q
           /\ q < (mantissa + 1) * base^exponent
    BY ONLY <1>9
  <1>14. mantissa \in 64 .. 512 - 1 /\ exponent \in 0 .. 7
    BY ONLY <1>10 DEF limit, most
  <1>15. /\ Scaled(q, 4, 512, 7) = [mantissa |-> mantissa, exponent |-> exponent]
         /\ mantissa * 4^exponent <= q
         /\ q < (mantissa + 1) * 4^exponent
    BY ONLY <1>10, SMTT(30) DEF base, limit, most
  <1> USE <1>14
  <1> WITNESS mantissa \in 64 .. 512 - 1, exponent \in 0 .. 7
  <1> QED
    BY ONLY <1>15

(* The same for the TA and TB. *)
LEMMA ScaledByTwo ==
  ASSUME NEW q, InRange(q)
  PROVE  \E mantissa \in 64 .. AltLimit - 1, exponent \in 0 .. 15 :
           /\ Scaled(q, 2, AltLimit, 15) = [mantissa |-> mantissa, exponent |-> exponent]
           /\ mantissa * 2^exponent <= q
           /\ q < (mantissa + 1) * 2^exponent
  <1> DEFINE base == 2
             most == 15
             power == [e \in 0 .. most |-> base^e]
  <1>1. \A e \in 0 .. most : base^e \in Nat \ {0} /\ (e > 0 => base^e = base * base^(e - 1))
    BY ONLY PowersOfTwo, Zenon
  <1>2. \A e \in 1 .. most : e \in 0 .. most /\ e - 1 \in 0 .. most /\ e > 0
    BY ONLY SMT
  <1>3. base^0 = 1 /\ base^most = 32768
    BY ONLY SMT
  <1>4. /\ base \in Nat \ {0} /\ AltLimit \in Nat /\ most \in Nat
        /\ 64 * base <= AltLimit
    BY SMT DEF AltLimit
  <1>11. AltLimit * 32768 > 1280000
    BY SMT DEF AltLimit
  <1> HIDE DEF base, most
  <1>5. /\ power \in [0 .. most -> Nat \ {0}]
        /\ \A e \in 1 .. most : power[e] = base * power[e - 1]
        /\ \A e \in 0 .. most : base^e = power[e]
    BY <1>1, <1>2
  <1>6. power[0] = 1
    BY <1>3, <1>4
  <1>12. power[most] = 32768
    BY <1>3, <1>4
  <1> HIDE DEF power
  <1>7. q < AltLimit * power[most]
    BY <1>4, <1>11, <1>12, SMT DEF InRange
  <1>13. Scale(q, base, AltLimit, most, power)
    BY <1>4, <1>5, <1>6, <1>7, SMT DEF Scale, InRange
  <1>8. \E mantissa \in 64 .. AltLimit - 1, exponent \in 0 .. most :
          /\ Scaled(q, base, AltLimit, most) = [mantissa |-> mantissa, exponent |-> exponent]
          /\ mantissa * power[exponent] <= q
          /\ q < (mantissa + 1) * power[exponent]
    BY ONLY <1>13, ScaledExact
  <1>9. \E mantissa \in 64 .. AltLimit - 1, exponent \in 0 .. most :
          /\ Scaled(q, base, AltLimit, most) = [mantissa |-> mantissa, exponent |-> exponent]
          /\ mantissa * base^exponent <= q
          /\ q < (mantissa + 1) * base^exponent
    BY ONLY <1>5, <1>8
  <1>10. PICK mantissa \in 64 .. AltLimit - 1, exponent \in 0 .. most :
           /\ Scaled(q, base, AltLimit, most) = [mantissa |-> mantissa, exponent |-> exponent]
           /\ mantissa * base^exponent <= q
           /\ q < (mantissa + 1) * base^exponent
    BY ONLY <1>9
  <1>14. mantissa \in 64 .. AltLimit - 1 /\ exponent \in 0 .. 15
    BY ONLY <1>10 DEF most
  <1>15. /\ Scaled(q, 2, AltLimit, 15) = [mantissa |-> mantissa, exponent |-> exponent]
         /\ mantissa * 2^exponent <= q
         /\ q < (mantissa + 1) * 2^exponent
    BY ONLY <1>10 DEF base, most
  <1> USE <1>14
  <1> WITNESS mantissa \in 64 .. AltLimit - 1, exponent \in 0 .. 15
  <1> QED
    BY ONLY <1>15

(* The exact divisor of a baud rate that needs one. *)
LEMMA ExactDivisorRange ==
  ASSUME NEW baud \in Nat, 300 <= baud, baud <= 6000000
  PROVE  /\ ExactDivisor(baud) = 384000000 \div baud
         /\ InRange(ExactDivisor(baud))
  <1>1. 384000000 \in Nat /\ baud \in Nat \ {0} /\ ~(baud > 384000000)
        /\ 64 * baud <= 384000000 /\ 384000000 < 1280001 * baud
    BY SMT
  <1>2. ExactDivisor(baud) = 384000000 \div baud
    BY ONLY <1>1, SMT DEF ExactDivisor
  <1>3. 384000000 \div baud \in Nat
    BY ONLY <1>1, Quotient, SMT
  <1>4. 64 <= 384000000 \div baud
    BY ONLY <1>1, 64 \in Nat, QuotientBelow, SMT
  <1>5. 384000000 \div baud < 1280001
    BY ONLY <1>1, 1280001 \in Nat, QuotientAbove, SMT
  <1> QED
    BY ONLY <1>2, <1>3, <1>4, <1>5, SMT DEF InRange

(* The types of chip_type_ of the PL2303. *)
Pl2303Types == {"H", "HX", "HXD", "TA", "TB", "HXN"}

(* The bytes of the two encodings give back mantissa and power. *)
LEMMA DivisorByFour ==
  ASSUME NEW m \in 64 .. 512 - 1, NEW e \in 0 .. 7
  PROVE  /\ ((e * 2 + (m \div 256)) % 2) * 256 + (m % 256) = m
         /\ (e * 2 + (m \div 256)) \div 2 = e
  OBVIOUS

(* The same for the TA and TB. *)
LEMMA DivisorByTwo ==
  ASSUME NEW m \in 64 .. 2048 - 1, NEW e \in 0 .. 15
  PROVE  /\ (((e \div 2) * 32 + (m \div 256)) % 8) * 256 + (m % 256) = m
         /\ (((e \div 2) * 32 + (m \div 256)) \div 32) * 2 + (e % 2) = e
  <1>1. m \div 256 \in 0 .. 7 /\ (m \div 256) * 256 + (m % 256) = m
    BY SMT
  <1>2. e \div 2 \in 0 .. 7 /\ (e \div 2) * 2 + (e % 2) = e
    BY SMT
  <1> DEFINE h == m \div 256
             f == e \div 2
  <1> HIDE DEF h, f
  <1>3. (f * 32 + h) % 8 = h /\ (f * 32 + h) \div 32 = f
    BY <1>1, <1>2, SMT DEF h, f
  <1> QED
    BY <1>1, <1>2, <1>3, SMT DEF h, f

(* pl2303.cpp, set line coding: the chip is given the rate itself, or a    *)
(* divisor that is the exact one cut to the precision of the mantissa; the *)
(* loop that cuts it never comes to its largest exponent.                  *)
THEOREM Pl2303BaudClose ==
  ASSUME NEW baud \in Nat, 300 <= baud, baud <= 6000000, NEW type \in Pl2303Types
  PROVE  Pl2303Close(Pl2303Baud(baud, type), type, baud)
  <1> DEFINE bytes == Pl2303Baud(baud, type)
  <1>1. CASE baud = nearest_supported_baud(baud) \/ type = "HXN"
    <2>1. bytes = encode_baud_direct(baud)
      BY ONLY <1>1 DEF Pl2303Baud
    <2>2. bytes[4] < 128 /\ DirectBaud(bytes) = baud
      BY <2>1, DirectExact, SMT
    <2> HIDE DEF bytes
    <2>3. Pl2303Close(bytes, type, baud)
      BY ONLY <2>2, SMT DEF Pl2303Close
    <2> QED
      BY ONLY <2>3 DEF bytes
  <1>2. CASE ~(baud = nearest_supported_baud(baud) \/ type = "HXN")
    <2> DEFINE q == ExactDivisor(baud)
    <2>1. InRange(q) /\ q = 384000000 \div baud
      BY ExactDivisorRange, SMT
    <2>4. q \in Nat
      BY ONLY <2>1, SMT DEF InRange
    <2>5. InRange(q)
      BY ONLY <2>1, SMT
    <2>2. CASE type \notin Pl2303Alt
      <3> HIDE DEF q
      <3>1. PICK m \in 64 .. 512 - 1, e \in 0 .. 7 :
              /\ Scaled(q, 4, 512, 7) = [mantissa |-> m, exponent |-> e]
              /\ m * 4^e <= q
              /\ q < (m + 1) * 4^e
        BY ONLY <2>5, ScaledByFour, ZenonT(60)
      <3>2. bytes = <<m % 256, e * 2 + (m \div 256), 0, 128>>
        BY ONLY <1>2, <2>2, <3>1 DEF Pl2303Baud, encode_baud_divisor, q
      <3> DEFINE d == Pl2303Divisor(bytes, type)
      <3>3. d.mantissa = m /\ d.power = 4^e
        BY ONLY <2>2, <3>2, DivisorByFour DEF Pl2303Divisor
      <3>4. bytes[4] = 128
        BY ONLY <3>2
      <3> HIDE DEF bytes, d
      <3>5. d.mantissa * d.power <= q /\ q < (d.mantissa + 1) * d.power /\ d.mantissa >= 64
        BY ONLY <2>4, <3>1, <3>3, SMT
      <3>6. Pl2303Close(bytes, type, baud)
        BY ONLY <2>1, <3>4, <3>5, SMT DEF Pl2303Close, d
      <3> QED
        BY ONLY <3>6 DEF bytes
    <2>3. CASE type \in Pl2303Alt
      <3> HIDE DEF q
      <3>7. 64 .. AltLimit - 1 = 64 .. 2048 - 1
        BY ONLY SMT DEF AltLimit
      <3>1. PICK m \in 64 .. AltLimit - 1, e \in 0 .. 15 :
              /\ Scaled(q, 2, AltLimit, 15) = [mantissa |-> m, exponent |-> e]
              /\ m * 2^e <= q
              /\ q < (m + 1) * 2^e
        BY ONLY <2>5, ScaledByTwo, Zenon
      <3>2. bytes = <<m % 256, (e \div 2) * 32 + (m \div 256), e % 2, 128>>
        BY ONLY <1>2, <2>3, <3>1
           DEF Pl2303Baud, encode_baud_divisor_alt, q, AltLimit
      <3> DEFINE d == Pl2303Divisor(bytes, type)
      <3>3. d.mantissa = m /\ d.power = 2^e
        <4>1. bytes[1] = m % 256 /\ bytes[3] = e % 2
          BY ONLY <3>2
        <4>2. bytes[2] = (e \div 2) * 32 + (m \div 256)
          BY ONLY <3>2
        <4> HIDE DEF bytes
        <4>3. /\ d.mantissa = (bytes[2] % 8) * 256 + bytes[1]
              /\ d.power = 2^((bytes[2] \div 32) * 2 + bytes[3])
          BY ONLY <2>3 DEF Pl2303Divisor
        <4>4. m \in 64 .. 2048 - 1 /\ e \in 0 .. 15
          BY ONLY <3>7, m \in 64 .. AltLimit - 1, e \in 0 .. 15, SMTT(30)
        <4> HIDE DEF d
        <4>5. (bytes[2] % 8) * 256 + bytes[1] = m /\ (bytes[2] \div 32) * 2 + bytes[3] = e
          <5>1. /\ (((e \div 2) * 32 + (m \div 256)) % 8) * 256 + (m % 256) = m
                /\ (((e \div 2) * 32 + (m \div 256)) \div 32) * 2 + (e % 2) = e
            BY ONLY <4>4, DivisorByTwo
          <5> QED  BY ONLY <4>1, <4>2, <5>1, Zenon
        <4> QED  BY ONLY <4>3, <4>5, Zenon
      <3>4. bytes[4] = 128
        BY ONLY <3>2
      <3> HIDE DEF bytes, d
      <3>5. d.mantissa * d.power <= q /\ q < (d.mantissa + 1) * d.power /\ d.mantissa >= 64
        BY ONLY <2>4, <3>1, <3>3, <3>7, SMT
      <3>6. Pl2303Close(bytes, type, baud)
        BY ONLY <2>1, <3>4, <3>5, SMT DEF Pl2303Close, d
      <3> QED
        BY ONLY <3>6 DEF bytes
    <2> QED
      BY <2>2, <2>3, SMT
  <1> QED
    BY <1>1, <1>2, SMT

------------------------------------------------------------------------------
(* The encoder of the CH34x. *)

(* A quotient falls as the divisor grows. *)
LEMMA QuotientFalls ==
  ASSUME NEW a \in Nat, NEW b \in Nat \ {0}, NEW c \in Nat, b <= c
  PROVE  a \div c <= a \div b
  <1> DEFINE q == a \div c
  <1>1. c \in Nat \ {0} /\ q \in Nat /\ q * c <= a
    BY Quotient
  <1> HIDE DEF q
  <1>2. q * b <= q * c
    BY <1>1
  <1>3. q * b <= a
    BY <1>1, <1>2
  <1>4. q <= a \div b
    BY <1>1, <1>3, QuotientBelow
  <1> QED
    BY <1>4 DEF q

(* The divisor of a CH34x: the quotient is not cut, and the divisor is it  *)
(* or the next.                                                            *)
LEMMA Ch34xDivisor ==
  ASSUME NEW baud \in Nat, 300 <= baud, baud <= 2000000,
         NEW clk, clk = Ch34xClock[Ch34xPrescaler(baud)]
  PROVE  /\ clk \in Nat /\ clk \div baud \in 1 .. 254
         /\ Ch34xQuotient(baud) = clk \div baud
  <1>1. clk \in Nat /\ baud <= clk /\ clk < 255 * baud
    BY SMT DEF Ch34xClock, Ch34xPrescaler
  <1>2. baud \in Nat \ {0}
    BY SMT
  <1>3. clk \div baud \in Nat
    BY ONLY <1>1, <1>2, Quotient
  <1>4. 1 <= clk \div baud
    BY ONLY <1>1, <1>2, QuotientBelow
  <1>5. clk \div baud < 255
    BY ONLY <1>1, <1>2, QuotientAbove
  <1>6. clk \div baud \in 1 .. 254
    BY ONLY <1>3, <1>4, <1>5
  <1>7. (clk \div baud) % 256 = clk \div baud
    BY ONLY <1>6
  <1> QED
    BY ONLY <1>1, <1>6, <1>7, clk = Ch34xClock[Ch34xPrescaler(baud)]
       DEF Ch34xQuotient

(* ch34x.cpp: no baud rate of the schema is rejected after its quotient    *)
(* was cut to eight bits, since the prescaler is chosen so that it fits.   *)
THEOREM Ch34xAccepts ==
  ASSUME NEW baud \in Nat, 300 <= baud, baud <= 2000000
  PROVE  /\ ~Ch34xRejected(baud)
         /\ Ch34xPrescaler(baud) \in {0, 1, 2, 3, 7}
         /\ Ch34xFactor(baud) \in 1 .. 255
  <1> DEFINE clk == Ch34xClock[Ch34xPrescaler(baud)]
             q == clk \div baud
  <1>1. q \in 1 .. 254 /\ Ch34xQuotient(baud) = q
    BY Ch34xDivisor
  <1>2. Ch34xPrescaler(baud) \in {0, 1, 2, 3, 7}
    BY SMT DEF Ch34xPrescaler
  <1>3. ~Ch34xRejected(baud)
    BY ONLY <1>1 DEF Ch34xRejected
  <1> HIDE DEF q
  <1>4. Ch34xFactor(baud) = 256 - (q + 1) \/ Ch34xFactor(baud) = 256 - q
    BY ONLY <1>1 DEF Ch34xFactor
  <1> QED
    BY ONLY <1>1, <1>2, <1>3, <1>4

(* ch34x.cpp: and of the divisors of the clock that was chosen it takes    *)
(* the one whose rate is nearest.                                          *)
THEOREM Ch34xTakesNearest ==
  ASSUME NEW baud \in Nat, 300 <= baud, baud <= 2000000
  PROVE  Ch34xNearest(Ch34xPrescaler(baud), Ch34xFactor(baud), baud)
  <1> DEFINE clk == Ch34xClock[Ch34xPrescaler(baud)]
             q == clk \div baud
             high == clk \div q
             low == clk \div (q + 1)
  <1>1. clk \in Nat /\ q \in 1 .. 254 /\ Ch34xQuotient(baud) = q
    BY Ch34xDivisor
  <1>2. baud \in Nat \ {0}
    BY SMT
  <1>3. Ch34xFactor(baud) = 256 - IF high - baud > baud - low THEN q + 1 ELSE q
    BY ONLY <1>1 DEF Ch34xFactor
  <1>4. \A f : Ch34xRate(Ch34xPrescaler(baud), f) = clk \div (256 - f)
    BY ONLY DEF Ch34xRate
  <1>5. clk < q * baud + baud /\ q * baud <= clk
    BY ONLY <1>1, <1>2, Quotient DEF q
  <1> HIDE DEF clk, q
  <1>6. baud <= high /\ low <= baud /\ high \in Nat /\ low \in Nat
    <2>1. q \in Nat \ {0} /\ q + 1 \in Nat \ {0}
      BY ONLY <1>1
    <2>2. baud * q <= clk /\ clk < (baud + 1) * (q + 1)
      BY ONLY <1>1, <1>2, <1>5
    <2>3. baud <= high
      BY ONLY <1>1, <1>2, <2>1, <2>2, QuotientBelow
    <2>4. low < baud + 1
      BY ONLY <1>1, <1>2, <2>1, <2>2, baud + 1 \in Nat, QuotientAbove
    <2>5. high \in Nat /\ low \in Nat
      BY ONLY <1>1, <2>1, Quotient
    <2> QED
      BY ONLY <1>2, <2>3, <2>4, <2>5
  <1> DEFINE mine == IF high - baud > baud - low THEN low ELSE high
  <1>7. Ch34xRate(Ch34xPrescaler(baud), Ch34xFactor(baud)) = mine
    <2>1. 256 - (256 - (q + 1)) = q + 1 /\ 256 - (256 - q) = q
      BY ONLY <1>1
    <2> QED
      BY ONLY <1>3, <1>4, <2>1
  <1>8. ASSUME NEW other \in 1 .. 254
        PROVE  /\ clk \div (256 - other) \in Nat
               /\ clk \div (256 - other) >= high \/ clk \div (256 - other) <= low
    <2>1. 256 - other \in Nat \ {0} /\ q \in Nat \ {0} /\ q + 1 \in Nat \ {0}
      BY ONLY <1>1, <1>8
    <2>2. CASE 256 - other <= q
      BY ONLY <1>1, <2>1, <2>2, QuotientFalls, Quotient, ZenonT(60)
    <2>3. CASE q + 1 <= 256 - other
      BY ONLY <1>1, <2>1, <2>3, QuotientFalls, Quotient, ZenonT(60)
    <2> QED
      BY ONLY <1>1, <2>1, <2>2, <2>3
  <1> HIDE DEF high, low
  <1>9. ASSUME NEW other \in 1 .. 254
        PROVE  Abs(mine - baud) <= Abs(clk \div (256 - other) - baud)
    <2> DEFINE rate == clk \div (256 - other)
    <2>1. rate \in Nat /\ (rate >= high \/ rate <= low)
      BY <1>8
    <2> HIDE DEF rate
    <2>2. Abs(mine - baud) <= Abs(rate - baud)
      BY ONLY <1>2, <1>6, <2>1 DEF Abs
    <2> QED
      BY ONLY <2>2 DEF rate
  <1> HIDE DEF mine
  <1> QED
    BY ONLY <1>4, <1>7, <1>9 DEF Ch34xNearest

------------------------------------------------------------------------------
(* The encoder of the FTDI chips. *)

(* The whole divisor and the code of the eighths can be told apart again.  *)
LEMMA CodeDigits ==
  ASSUME NEW n \in Nat, 16 <= n, n < 131072
  PROVE  /\ FracCode(n) \in 0 .. 7
         /\ EncodeEighths(n) \in Nat
         /\ EncodeEighths(n) >= 2
         /\ EncodeEighths(n) < 131072
         /\ EncodeEighths(n) % 16384 = n \div 8
         /\ (EncodeEighths(n) \div 16384) % 8 = FracCode(n)
  <1> DEFINE w == n \div 8
             c == FracCode(n)
  <1>1. w \in Nat /\ 2 <= w /\ w < 16384
    OBVIOUS
  <1>2. n % 8 \in 0 .. 7
    OBVIOUS
  <1>3. c \in 0 .. 7
    BY <1>2 DEF FracCode, FRAC_CODE
  <1> DEFINE code == w + c * 16384
  <1> HIDE DEF w, c
  <1>4. /\ code \in Nat /\ 2 <= code /\ code < 131072
        /\ code % 16384 = w
        /\ code \div 16384 = c
    BY <1>1, <1>3
  <1>5. c % 8 = c
    BY <1>3
  <1>6. EncodeEighths(n) = code
    BY DEF EncodeEighths, w, c
  <1> HIDE DEF code
  <1>7. (code \div 16384) % 8 = c
    BY <1>4, <1>5
  <1>8. /\ EncodeEighths(n) \in Nat
        /\ EncodeEighths(n) >= 2
        /\ EncodeEighths(n) < 131072
        /\ EncodeEighths(n) % 16384 = w
        /\ (EncodeEighths(n) \div 16384) % 8 = c
    BY <1>4, <1>6, <1>7
  <1> QED
    BY <1>3, <1>8 DEF w, c

(* No two eighths have the same code. *)
LEMMA EighthsByCode ==
  ASSUME NEW n \in Nat
  PROVE  EighthsOf(FracCode(n)) = n % 8
  <1>1. n % 8 \in 0 .. 7 /\ (n % 8) % 8 = n % 8
    OBVIOUS
  <1>2. FracCode(n % 8) = FracCode(n)
    BY <1>1 DEF FracCode
  <1>3. \A e \in 0 .. 7 : FracCode(e) = FracCode(n) => e = n % 8
    <2>1. \A e \in 0 .. 7 : e % 8 = e
      OBVIOUS
    <2> QED
      BY <1>1, <2>1 DEF FracCode, FRAC_CODE
  <1> QED
    BY <1>1, <1>2, <1>3 DEF EighthsOf

(* What the chip reads is what was encoded. *)
LEMMA DecodeEncode ==
  ASSUME NEW n \in Nat, 16 <= n, n < 131072
  PROVE  DecodeEighths(EncodeEighths(n)) = n
  <1> DEFINE code == EncodeEighths(n)
  <1>1. code \notin {0, 1} /\ code % 16384 = n \div 8
    BY CodeDigits
  <1>2. EighthsOf((code \div 16384) % 8) = n % 8
    BY CodeDigits, EighthsByCode
  <1>3. DecodeEighths(code) = (n \div 8) * 8 + (n % 8)
    BY <1>1, <1>2 DEF DecodeEighths
  <1> QED
    BY <1>3

(* The divisor found is the nearest, and it fits the 17 bits.  The lower   *)
(* bound on the baud rate is where it would not.                           *)
LEMMA BestIsNearest ==
  ASSUME NEW rate \in {3000000, 12000000}, NEW baud \in Nat,
         baud < rate \div 2, 16 * rate < 262143 * baud
  PROVE  /\ BestDivisor(baud, rate) \in Nat
         /\ 16 <= BestDivisor(baud, rate)
         /\ BestDivisor(baud, rate) < 131072
         /\ Abs(2 * BestDivisor(baud, rate) * baud - 16 * rate) <= baud
  <1> DEFINE d == (rate * 16) \div baud
             best == (d + 1) \div 2
  <1>1. baud \in Nat \ {0} /\ rate * 16 \in Nat /\ 32 * baud <= rate * 16
    OBVIOUS
  <1>2. d \in Nat /\ d * baud <= rate * 16 /\ rate * 16 < d * baud + baud
    BY <1>1, Quotient
  <1>3. 32 <= d
    BY <1>1, QuotientBelow
  <1>4. d < 262143
    BY <1>1, QuotientAbove
  <1>5. /\ best \in Nat /\ 16 <= best /\ best < 131072
        /\ 2 * best = d \/ 2 * best = d + 1
    BY <1>2, <1>3, <1>4
  <1>6. BestDivisor(baud, rate) = best
    BY <1>5 DEF BestDivisor
  <1> HIDE DEF d, best
  <1>7. 2 * best * baud = d * baud \/ 2 * best * baud = d * baud + baud
    BY <1>1, <1>2, <1>5
  <1>8. 2 * best * baud \in Int /\ 16 * rate = rate * 16
    BY <1>1, <1>5
  <1>9. d * baud \in Int
    BY <1>1, <1>2
  <1>10. Abs(2 * best * baud - 16 * rate) <= baud
    BY <1>1, <1>2, <1>7, <1>8, <1>9 DEF Abs
  <1> QED
    BY <1>5, <1>6, <1>10

(* ft23xx.cpp, ftdi_to_clkbits: what the chip makes of the encoded divisor *)
(* is the divisor nearest to that of the baud rate.                        *)
THEOREM ClkbitsNearest ==
  ASSUME NEW rate \in {3000000, 12000000}, NEW baud \in Nat,
         16 * rate < 262143 * baud
  PROVE  NearestEighths(DecodeEighths(ftdi_to_clkbits(baud, rate)), baud, rate)
  <1>1. CASE baud < rate \div 2
    <2>1. ftdi_to_clkbits(baud, rate) = EncodeEighths(BestDivisor(baud, rate))
      BY <1>1 DEF ftdi_to_clkbits
    <2> QED
      BY <1>1, <2>1, BestIsNearest, DecodeEncode DEF NearestEighths
  <1>2. CASE baud >= rate \div 2
    <2>1. CASE baud >= rate
      BY <1>2, <2>1 DEF NearestEighths, ftdi_to_clkbits, DecodeEighths
    <2>2. CASE baud < rate /\ baud >= (2 * rate) \div 3
      BY <1>2, <2>2 DEF NearestEighths, ftdi_to_clkbits, DecodeEighths
    <2>3. CASE baud < rate /\ baud < (2 * rate) \div 3
      <3>1. ftdi_to_clkbits(baud, rate) = 2
        BY <1>2, <2>3 DEF ftdi_to_clkbits
      <3>2. DecodeEighths(2) = 16
        <4>1. FracCode(0) = 0 /\ 0 % 8 = 0
          BY DEF FracCode, FRAC_CODE
        <4>2. EighthsOf(0) = 0
          BY <4>1, EighthsByCode
        <4>3. 2 % 16384 = 2 /\ (2 \div 16384) % 8 = 0
          OBVIOUS
        <4> QED
          BY <4>2, <4>3 DEF DecodeEighths
      <3> QED
        BY <1>2, <2>3, <3>1, <3>2 DEF NearestEighths
    <2> QED
      BY <2>1, <2>2, <2>3
  <1> QED
    BY <1>1, <1>2

(* ft23xx.cpp, ftdi_convert_baudrate: so it is for every chip with the     *)
(* full code and every baud rate of the schema, with the clock that the    *)
(* chip is told to take.                                                   *)
THEOREM FtdiNearest ==
  ASSUME NEW baud \in Nat, 300 <= baud, NEW type \in FtdiH \cup FtdiB
  PROVE  IF FtdiFast(baud, type)
           THEN NearestEighths(DecodeEighths(EncodedDivisor(baud, type) - 131072),
                               baud, 12000000)
           ELSE NearestEighths(DecodeEighths(EncodedDivisor(baud, type)),
                               baud, 3000000)
  <1>1. CASE FtdiFast(baud, type)
    <2>1. baud >= 733
      BY <1>1 DEF FtdiFast
    <2>2. NearestEighths(DecodeEighths(ftdi_to_clkbits(baud, 12000000)), baud, 12000000)
      BY <2>1, ClkbitsNearest
    <2>3. ftdi_to_clkbits(baud, 12000000) \in Int
      <3>1. baud < 12000000 \div 2 => ftdi_to_clkbits(baud, 12000000) \in Nat
        <4> HAVE baud < 12000000 \div 2
        <4>1. /\ BestDivisor(baud, 12000000) \in Nat
              /\ 16 <= BestDivisor(baud, 12000000)
              /\ BestDivisor(baud, 12000000) < 131072
          BY <2>1, BestIsNearest
        <4>2. ftdi_to_clkbits(baud, 12000000) = EncodeEighths(BestDivisor(baud, 12000000))
          BY DEF ftdi_to_clkbits
        <4> QED
          BY <4>1, <4>2, CodeDigits
      <3> QED
        BY <3>1 DEF ftdi_to_clkbits
    <2>4. EncodedDivisor(baud, type) - 131072 = ftdi_to_clkbits(baud, 12000000)
      BY <1>1, <2>3 DEF EncodedDivisor
    <2> QED
      BY <1>1, <2>2, <2>4
  <1>2. CASE ~FtdiFast(baud, type)
    <2>1. EncodedDivisor(baud, type) = ftdi_to_clkbits(baud, 3000000)
      BY <1>2 DEF EncodedDivisor
    <2> QED
      BY <1>2, <2>1, ClkbitsNearest
  <1> QED
    BY <1>1, <1>2

(* The divisor of an AM: the next it has below the exact one, and above.   *)
AmBelow(n) == n - AM_ADJUST_DN[(n % 8) + 1]

AmAbove(n) == n + AM_ADJUST_UP[(n % 8) + 1]

AmValid(n) == n % 8 \in {0, 1, 2, 4}

(* The two are the neighbours of the exact divisor among those of an AM. *)
LEMMA AmAdjusted ==
  ASSUME NEW n \in Nat, 16 <= n
  PROVE  /\ AmBelow(n) \in Nat /\ AmAbove(AmBelow(n) + 1) \in Nat
         /\ AmValid(AmBelow(n)) /\ AmValid(AmAbove(AmBelow(n) + 1))
         /\ 16 <= AmBelow(n) /\ AmBelow(n) <= n
         /\ n < AmAbove(AmBelow(n) + 1) /\ AmAbove(AmBelow(n) + 1) <= n + 8
         /\ AmAbove(AmBelow(n)) = AmBelow(n)
         /\ \A m \in Nat : AmValid(m) => m <= AmBelow(n) \/ m >= AmAbove(AmBelow(n) + 1)
  <1> DEFINE w == n \div 8
             r == n % 8
  <1>1. w \in Nat /\ r \in 0 .. 7 /\ n = 8 * w + r /\ 2 <= w
    BY SMT
  <1>2. \A m \in Nat : m \div 8 \in Nat /\ m % 8 \in 0 .. 7 /\ m = 8 * (m \div 8) + (m % 8)
    BY SMT
  <1>3. \A v \in Nat, t \in 0 .. 7 : (8 * v + t) % 8 = t
    BY SMT
  <1>4. \A v \in Nat : AmAbove(8 * v) = 8 * v /\ AmAbove(8 * v + 1) = 8 * v + 1
          /\ AmAbove(8 * v + 2) = 8 * v + 2 /\ AmAbove(8 * v + 3) = 8 * v + 4
          /\ AmAbove(8 * v + 4) = 8 * v + 4 /\ AmAbove(8 * v + 5) = 8 * v + 8
    BY <1>3, SMT DEF AmAbove, AM_ADJUST_UP
  <1>5. AmBelow(n) = n - AM_ADJUST_DN[r + 1]
    BY DEF AmBelow
  <1>6. AmValid(8 * w) /\ AmValid(8 * w + 1) /\ AmValid(8 * w + 2)
        /\ AmValid(8 * w + 4) /\ AmValid(8 * w + 8)
    BY <1>1, SMT DEF AmValid
  <1> HIDE DEF w, r
  <1>7. AmBelow(n) = 8 * w + <<0, 1, 2, 2, 4, 4, 4, 4>>[r + 1]
    BY ONLY <1>1, <1>5, SMT DEF AM_ADJUST_DN
  <1>8. \/ r = 0 /\ AmBelow(n) = 8 * w /\ AmAbove(AmBelow(n) + 1) = 8 * w + 1
        \/ r = 1 /\ AmBelow(n) = 8 * w + 1 /\ AmAbove(AmBelow(n) + 1) = 8 * w + 2
        \/ r \in {2, 3} /\ AmBelow(n) = 8 * w + 2 /\ AmAbove(AmBelow(n) + 1) = 8 * w + 4
        \/ r \in 4 .. 7 /\ AmBelow(n) = 8 * w + 4 /\ AmAbove(AmBelow(n) + 1) = 8 * w + 8
    BY ONLY <1>1, <1>4, <1>7, SMT
  <1>9. AmAbove(AmBelow(n)) = AmBelow(n)
    BY ONLY <1>1, <1>4, <1>8, SMT
  <1>10. AmValid(AmBelow(n)) /\ AmValid(AmAbove(AmBelow(n) + 1))
    BY ONLY <1>6, <1>8, SMT
  <1>11. ASSUME NEW m \in Nat, AmValid(m)
         PROVE  m <= AmBelow(n) \/ m >= AmAbove(AmBelow(n) + 1)
    <2> DEFINE v == m \div 8
               t == m % 8
    <2>1. v \in Nat /\ t \in {0, 1, 2, 4} /\ m = 8 * v + t
      BY <1>2, <1>11, SMT DEF AmValid
    <2> HIDE DEF v, t
    <2>2. v <= w - 1 \/ v = w \/ v >= w + 1
      BY ONLY <1>1, <2>1, SMT
    <2> QED
      BY ONLY <1>1, <1>8, <2>1, <2>2, SMT
  <1>12. /\ AmBelow(n) \in Nat /\ AmAbove(AmBelow(n) + 1) \in Nat
         /\ 16 <= AmBelow(n) /\ AmBelow(n) <= n
         /\ n < AmAbove(AmBelow(n) + 1) /\ AmAbove(AmBelow(n) + 1) <= n + 8
    BY ONLY <1>1, <1>8, SMT
  <1> QED
    BY ONLY <1>9, <1>10, <1>11, <1>12

(* The rate the chip makes falls as the divisor grows. *)
LEMMA EstimateFalls ==
  ASSUME NEW m \in Nat, NEW n \in Nat, 16 <= m, m <= n
  PROVE  /\ AmEstimate(m) \in Nat /\ AmEstimate(n) \in Nat
         /\ AmEstimate(n) <= AmEstimate(m)
  <1> DEFINE C == 24000000
             q == (C + (n \div 2)) \div n
  <1>1. C \in Nat
    BY SMT
  <1>2. m \in Nat \ {0} /\ n \in Nat \ {0} /\ n \div 2 \in Nat /\ m \div 2 \in Nat
    BY SMT
  <1>3. AmEstimate(n) = q /\ AmEstimate(m) = (C + (m \div 2)) \div m
    BY DEF AmEstimate
  <1> HIDE DEF C
  <1>4. q \in Nat /\ q * n <= C + (n \div 2) /\ (C + (m \div 2)) \div m \in Nat
    BY ONLY <1>1, <1>2, Quotient
  <1> HIDE DEF q
  <1>5. (n \div 2) - (m \div 2) <= n - m
    BY SMT
  <1>6. CASE q = 0
    BY ONLY <1>3, <1>4, <1>6
  <1>7. CASE q >= 1
    <2>1. n - m <= q * (n - m)
      BY ONLY <1>2, <1>4, <1>7, m <= n
    <2>2. q * (n - m) = q * n - q * m
      BY ONLY <1>2, <1>4
    <2> DEFINE x == q * n
               y == q * m
    <2>3. x \in Nat /\ y \in Nat
      BY ONLY <1>2, <1>4
    <2> HIDE DEF x, y
    <2>4. y <= C + (m \div 2)
      BY ONLY <1>1, <1>2, <1>4, <1>5, <2>1, <2>2, <2>3 DEF x, y
    <2>5. q <= (C + (m \div 2)) \div m
      BY ONLY <1>1, <1>2, <1>4, <2>4, QuotientBelow DEF y
    <2> QED
      BY ONLY <1>3, <1>4, <2>5
  <1> QED
    BY ONLY <1>4, <1>6, <1>7

(* Around the exact divisor the rate passes the baud rate. *)
LEMMA EstimateAround ==
  ASSUME NEW baud \in Nat \ {0}, NEW n \in Nat \ {0}
  PROVE  /\ n <= 24000000 \div baud => AmEstimate(n) >= baud
         /\ n > 24000000 \div baud => AmEstimate(n) <= baud
  <1> DEFINE C == 24000000
             exact == C \div baud
             top == C + (n \div 2)
  <1>1. C \in Nat /\ n \div 2 \in Nat /\ n \div 2 < n
    BY SMT
  <1>2. AmEstimate(n) = top \div n /\ 24000000 \div baud = exact
    BY DEF AmEstimate
  <1> HIDE DEF C
  <1>3. exact \in Nat /\ exact * baud <= C /\ C < exact * baud + baud
    BY ONLY <1>1, Quotient
  <1>4. top \in Nat
    BY ONLY <1>1
  <1> HIDE DEF exact, top
  <1>5. ASSUME n <= exact PROVE baud <= top \div n
    <2>1. n * baud <= exact * baud
      BY ONLY <1>3, <1>5
    <2>2. baud * n <= top
      BY ONLY <1>1, <1>3, <2>1 DEF top
    <2> QED
      BY ONLY <1>4, <2>2, QuotientBelow
  <1>6. ASSUME n > exact PROVE top \div n <= baud
    <2>1. exact * baud + baud <= n * baud
      <3>1. (exact + 1) * baud <= n * baud
        BY ONLY <1>3, <1>6
      <3> QED
        BY ONLY <1>3, <3>1
    <2>2. top < (baud + 1) * n
      BY ONLY <1>1, <1>3, <2>1 DEF top
    <2>3. top \div n < baud + 1
      BY ONLY <1>4, <2>2, QuotientAbove, baud + 1 \in Nat
    <2>4. top \div n \in Nat
      BY ONLY <1>4, Quotient
    <2> QED
      BY ONLY <2>3, <2>4
  <1> QED
    BY ONLY <1>2, <1>3, <1>5, <1>6

(* The two candidates, and what is taken of them. *)
LEMMA AmCandidates ==
  ASSUME NEW exact \in Nat, 16 <= exact, exact <= 80000
  PROVE  /\ AmCandidate(AmBelow(exact), 0) = AmBelow(exact)
         /\ AmCandidate(AmBelow(exact), 1) = AmAbove(AmBelow(exact) + 1)
  <1>1. exact \in Nat /\ 16 <= exact /\ exact <= 80000
    OBVIOUS
  <1> DEFINE divisor == AmBelow(exact)
             limit == 131064
  <1>2. /\ divisor \in Nat /\ AmAbove(divisor + 1) \in Nat
        /\ 16 <= divisor /\ divisor <= exact
        /\ AmAbove(divisor + 1) <= exact + 8
        /\ AmAbove(divisor) = divisor
    BY ONLY <1>1, AmAdjusted
  <1>3. limit \in Nat /\ exact + 8 <= limit
    BY ONLY <1>1, SMT
  <1> DEFINE up(i) == AmAbove(divisor + i)
  <1>4. \A i : AmCandidate(divisor, i) =
                 IF divisor + i <= 8 THEN 8 ELSE IF divisor < 16 THEN 16
                                         ELSE IF up(i) > limit THEN limit ELSE up(i)
    BY DEF AmCandidate, AmAbove
  <1> HIDE DEF limit, divisor
  <1>5. divisor + 0 = divisor
    BY ONLY <1>2
  <1>6. up(0) <= limit /\ up(1) <= limit
    BY ONLY <1>1, <1>2, <1>3, <1>5
  <1>7. ~(divisor + 0 <= 8) /\ ~(divisor + 1 <= 8) /\ ~(divisor < 16)
    BY ONLY <1>2
  <1>8. up(0) \in Nat /\ up(1) \in Nat
    BY ONLY <1>2, <1>5
  <1> HIDE DEF up
  <1>9. AmCandidate(divisor, 0) = up(0) /\ AmCandidate(divisor, 1) = up(1)
    BY ONLY <1>3, <1>4, <1>6, <1>7, <1>8
  <1> QED
    BY ONLY <1>1, <1>2, <1>5, <1>9 DEF divisor, up

(* A divisor that an AM has is encoded in 16 bits, and no special case.    *)
LEMMA AmCode ==
  ASSUME NEW baud, NEW n \in Nat, AmDivisor(baud) = n,
         16 <= n, n <= 80008, AmValid(n)
  PROVE  /\ DecodeEighths(ftdi_to_clkbits_am(baud)) = n
         /\ ftdi_to_clkbits_am(baud) \in Nat
         /\ ftdi_to_clkbits_am(baud) < 65536
  <1>1. n < 131072
    BY SMT
  <1> DEFINE code == EncodeEighths(n)
  <1>2. /\ FracCode(n) \in 0 .. 7 /\ code \in Nat /\ code >= 2
        /\ code % 16384 = n \div 8
    BY <1>1, CodeDigits, SMT
  <1>3. n \div 8 >= 2 /\ n \div 8 <= 10001
    BY SMT
  <1>4. 16385 % 16384 = 1
    BY SMT
  <1>5. code # 1 /\ code # 16385
    BY ONLY <1>2, <1>3, <1>4, SMT
  <1>6. ftdi_to_clkbits_am(baud) = code
    BY ONLY <1>5, AmDivisor(baud) = n, SMT DEF ftdi_to_clkbits_am
  <1>7. FracCode(n) \in 0 .. 3
    BY ONLY AmValid(n), SMT DEF AmValid, FracCode, FRAC_CODE
  <1>8. code < 65536
    BY ONLY n \in Nat, <1>3, <1>7, SMT DEF EncodeEighths
  <1>9. DecodeEighths(code) = n
    BY ONLY n \in Nat, 16 <= n, <1>1, DecodeEncode, SMT
  <1> QED
    BY ONLY <1>2, <1>6, <1>8, <1>9, SMT

(* ft23xx.cpp, ftdi_to_clkbits_am: what an AM makes of the encoded divisor *)
(* is, of the divisors it has within a whole one, the one whose rate is    *)
(* nearest; and the code needs none of the bits that the index would have  *)
(* to carry.                                                               *)
THEOREM AmTakesNearest ==
  ASSUME NEW baud \in Nat, 300 <= baud
  PROVE  /\ NearestAmEighths(DecodeEighths(ftdi_to_clkbits_am(baud)), baud)
         /\ baud < 1500000 => /\ ftdi_to_clkbits_am(baud) \in Nat
                              /\ ftdi_to_clkbits_am(baud) < 65536
  <1>1. CASE baud >= 1500000
    BY <1>1, SMT DEF NearestAmEighths
  <1>2. CASE baud < 1500000
    <2> DEFINE exact == 24000000 \div baud
               first == AmBelow(exact)
               second == AmAbove(first + 1)
               taken == IF AmDiff(second, baud) < AmDiff(first, baud) THEN second ELSE first
    <2>1. /\ exact \in Nat /\ 16 <= exact /\ exact <= 80000
          /\ AmCandidate(first, 0) = first
          /\ AmCandidate(first, 1) = second
      <3>1. exact \in Nat /\ 16 <= exact /\ exact <= 80000
        BY <1>2, SMT
      <3> HIDE DEF exact
      <3> QED
        BY ONLY <3>1, AmCandidates
    <2>2. AmDivisor(baud) = taken
      BY <2>1 DEF AmDivisor, AmBelow
    <2> HIDE DEF exact
    <2>3. /\ first \in Nat /\ second \in Nat
          /\ AmValid(first) /\ AmValid(second)
          /\ 16 <= first /\ first <= exact
          /\ exact < second /\ second <= exact + 8
          /\ \A m \in Nat : AmValid(m) => m <= first \/ m >= second
      BY ONLY <2>1, AmAdjusted
    <2>4. baud \in Nat \ {0}
      BY SMT
    <2>5. \A n \in Nat \ {0} : /\ n <= exact => AmEstimate(n) >= baud
                               /\ n > exact => AmEstimate(n) <= baud
      BY ONLY <2>4, EstimateAround DEF exact
    <2> HIDE DEF first, second
    <2>6. AmEstimate(first) >= baud /\ AmEstimate(second) <= baud
      BY ONLY <2>1, <2>3, <2>5
    <2>7. ASSUME NEW m \in Nat, m >= 16, AmValid(m)
          PROVE  AmDiff(taken, baud) <= AmDiff(m, baud)
      <3>1. CASE m <= first
        <4>1. /\ AmEstimate(m) \in Nat /\ AmEstimate(first) \in Nat /\ AmEstimate(second) \in Nat
              /\ AmEstimate(m) >= AmEstimate(first)
          BY ONLY <2>1, <2>3, <2>7, <3>1, EstimateFalls, first <= second
        <4> QED
          BY ONLY <2>4, <2>6, <4>1 DEF AmDiff, Abs
      <3>2. CASE m >= second
        <4>1. /\ AmEstimate(m) \in Nat /\ AmEstimate(first) \in Nat /\ AmEstimate(second) \in Nat
              /\ AmEstimate(m) <= AmEstimate(second)
          BY ONLY <2>1, <2>3, <2>7, <3>2, EstimateFalls, first <= second
        <4> QED
          BY ONLY <2>4, <2>6, <4>1 DEF AmDiff, Abs
      <3> QED
        BY ONLY <2>3, <2>7, <3>1, <3>2
    <2>8. taken \in Nat /\ 16 <= taken /\ taken <= 80008 /\ AmValid(taken)
      BY ONLY <2>1, <2>3
    <2> HIDE DEF taken
    <2>9. /\ DecodeEighths(ftdi_to_clkbits_am(baud)) = taken
          /\ ftdi_to_clkbits_am(baud) \in Nat
          /\ ftdi_to_clkbits_am(baud) < 65536
      BY ONLY <2>2, <2>8, AmCode
    <2> QED
      <3>1. \A m \in taken - 8 .. taken + 8 : m >= 16 => m \in Nat
        BY ONLY <2>8
      <3> QED
        BY ONLY <2>7, <2>9, <3>1 DEF NearestAmEighths, AmValid
  <1> QED
    BY ONLY <1>1, <1>2, baud \in Nat

(* The encoded divisor of the full code has 17 bits. *)
LEMMA ClkbitsRange ==
  ASSUME NEW rate \in {3000000, 12000000}, NEW baud \in Nat,
         16 * rate < 262143 * baud
  PROVE  /\ ftdi_to_clkbits(baud, rate) \in Nat
         /\ ftdi_to_clkbits(baud, rate) < 131072
  <1>1. CASE baud < rate \div 2
    <2>1. ftdi_to_clkbits(baud, rate) = EncodeEighths(BestDivisor(baud, rate))
      BY <1>1 DEF ftdi_to_clkbits
    <2> QED
      BY <1>1, <2>1, BestIsNearest, CodeDigits
  <1>2. CASE ~(baud < rate \div 2)
    BY <1>2 DEF ftdi_to_clkbits
  <1> QED
    BY <1>1, <1>2

(* The value and the index that are sent carry the 16 lower bits of the    *)
(* divisor and, for the H chips, the others; the port stays below them.    *)
Seventeen(encoded, low, fast) ==
  /\ low \in Nat /\ low < 131072 /\ fast \in {0, 1}
  /\ encoded \in Nat /\ encoded = low + fast * 131072

HighByte(encoded, channel) == ((encoded \div 65536) * 256 + channel + 1) \div 256

(* The two fields are put together to the same divisor and clock. *)
LEMMA SentBits ==
  ASSUME NEW encoded, NEW low, NEW fast, Seventeen(encoded, low, fast),
         NEW channel \in 0 .. 3
  PROVE  /\ (HighByte(encoded, channel) \div 2) % 2 = fast
         /\ (encoded % 65536) + (HighByte(encoded, channel) % 2) * 65536 = low
  <1> USE DEF Seventeen
  <1> DEFINE h == encoded \div 65536
  <1>1. h \in Nat /\ h = low \div 65536 + fast * 2 /\ low \div 65536 \in {0, 1}
    BY SMT
  <1>2. encoded % 65536 = low % 65536
    BY SMT
  <1>3. low = (low % 65536) + (low \div 65536) * 65536 /\ low % 65536 \in Nat
    BY SMT
  <1> HIDE DEF h
  <1>5. (h * 256 + channel + 1) \div 256 = h
    BY ONLY <1>1, channel \in 0 .. 3, SMT
  <1>6. h % 2 = low \div 65536 /\ (h \div 2) % 2 = fast
    BY ONLY <1>1, Seventeen(encoded, low, fast), SMT DEF Seventeen
  <1> QED
    BY ONLY <1>1, <1>2, <1>3, <1>5, <1>6, SMT DEF h, HighByte

(* The types of chip_type_ of the FT23XX, once a chip has been seen. *)
FtdiTypes == {"AM"} \cup FtdiB \cup FtdiH

(* What the chip makes of the value, the high byte of the index and the    *)
(* port in its low byte is the nearest divisor; or the port has spoiled    *)
(* the third bit for the eighths, and no other.                            *)
SentMatches(baud, type, channel) ==
  LET c == ftdi_convert_baudrate(baud, type, channel)
      high == c.index \div 256
      third == FtdiThirdBit(type, channel + 1, high)
      clock == IF (high \div 2) % 2 = 1 THEN 12000000 ELSE 3000000
  IN  \/ FtdiNearestCode(c.value + third * 65536, baud, type, clock)
      \/ /\ type \in FtdiB /\ third # EncodedDivisor(baud, type) \div 65536
         /\ FtdiNearestCode(c.value + (1 - third) * 65536, baud, type, clock)

(* ft23xx.cpp, set baudrate: of what the encoder computes, the value and   *)
(* the high byte of the index reach the chip, and the port in the low one. *)
(* For an AM and the H chips, on every port, it is the nearest divisor; of *)
(* a BM, 2232C, R or 230X all bits but the third of the eighths are its.   *)
THEOREM FtdiSent ==
  ASSUME NEW baud \in Nat, 300 <= baud, NEW type \in FtdiTypes, NEW channel \in 0 .. 3
  PROVE  SentMatches(baud, type, channel)
  <1> DEFINE e == EncodedDivisor(baud, type)
             c == ftdi_convert_baudrate(baud, type, channel)
             high == c.index \div 256
             third == FtdiThirdBit(type, channel + 1, high)
             code == c.value + third * 65536
             clock == IF (high \div 2) % 2 = 1 THEN 12000000 ELSE 3000000
  <1> SUFFICES \/ FtdiNearestCode(code, baud, type, clock)
               \/ /\ type \in FtdiB /\ third # e \div 65536
                  /\ FtdiNearestCode(c.value + (1 - third) * 65536, baud, type, clock)
    BY SMT DEF SentMatches
  <1>1. /\ c.value = e % 65536
        /\ type \in FtdiH => c.index = (e \div 65536) * 256 + channel + 1
        /\ type \notin FtdiH => c.index = e \div 65536
    BY ONLY DEF ftdi_convert_baudrate
  <1>2. CASE type = "AM"
    <2>1. ASSUME baud >= 1500000 PROVE NearestAmEighths(DecodeEighths(code), baud)
      BY ONLY <1>2, <2>1, baud \in Nat, SMT DEF NearestAmEighths
    <2>2. ASSUME baud < 1500000 PROVE NearestAmEighths(DecodeEighths(code), baud)
      <3>1. e = ftdi_to_clkbits_am(baud)
        BY ONLY <1>2 DEF EncodedDivisor, FtdiFast, FtdiH, FtdiB
      <3>2. /\ NearestAmEighths(DecodeEighths(e), baud) /\ e \in Nat /\ e < 65536
        BY <2>2, <3>1, AmTakesNearest, SMT
      <3> HIDE DEF e, c
      <3>3. c.index = 0 /\ c.value = e
        BY ONLY <1>1, <1>2, <3>2, SMT DEF FtdiH
      <3>4. third = 0
        BY ONLY <1>2 DEF FtdiThirdBit, FtdiH, FtdiB
      <3>5. code = e
        BY ONLY <3>2, <3>3, <3>4, SMT
      <3> QED
        BY ONLY <3>2, <3>5 DEF c
    <2>3. NearestAmEighths(DecodeEighths(code), baud)
      BY ONLY <2>1, <2>2, baud \in Nat, SMT
    <2> HIDE DEF code, clock
    <2> QED
      BY ONLY <1>2, <2>3 DEF FtdiNearestCode
  <1>3. CASE type \in FtdiH
    <2> DEFINE fast == IF FtdiFast(baud, type) THEN 1 ELSE 0
               low == ftdi_to_clkbits(baud, IF fast = 1 THEN 12000000 ELSE 3000000)
    <2>1. /\ low \in Nat /\ low < 131072
          /\ NearestEighths(DecodeEighths(low), baud, IF fast = 1 THEN 12000000 ELSE 3000000)
      <3>1. CASE fast = 1
        BY <3>1, ClkbitsRange, ClkbitsNearest, SMT DEF FtdiFast
      <3>2. CASE fast = 0
        BY <3>2, ClkbitsRange, ClkbitsNearest, SMT
      <3> QED
        BY ONLY <3>1, <3>2
    <2>2. e = low + fast * 131072
      <3>1. CASE fast = 1
        BY ONLY <1>3, <2>1, <3>1, SMT DEF EncodedDivisor
      <3>2. CASE fast = 0
        BY ONLY <1>3, <2>1, <3>2, SMT DEF EncodedDivisor
      <3> QED
        BY ONLY <3>1, <3>2
    <2>3. fast \in {0, 1}
      OBVIOUS
    <2> HIDE DEF e, c, low, fast
    <2>4. code = low /\ (high \div 2) % 2 = fast
      <3>1. Seventeen(e, low, fast)
        BY ONLY <2>1, <2>2, <2>3 DEF Seventeen
      <3>2. /\ (HighByte(e, channel) \div 2) % 2 = fast
            /\ (e % 65536) + (HighByte(e, channel) % 2) * 65536 = low
        BY ONLY <3>1, SentBits, channel \in 0 .. 3
      <3>3. high = HighByte(e, channel)
        BY ONLY <1>1, <1>3 DEF HighByte
      <3>4. third = high % 2
        BY ONLY <1>3 DEF FtdiThirdBit, FtdiH, FtdiB
      <3> HIDE DEF high, third
      <3> QED
        BY ONLY <1>1, <3>2, <3>3, <3>4
    <2>5. NearestEighths(DecodeEighths(code), baud, clock)
      BY ONLY <2>1, <2>3, <2>4, SMT
    <2>6. type # "AM"
      BY ONLY <1>3 DEF FtdiH
    <2> HIDE DEF code, clock
    <2> QED
      BY ONLY <2>5, <2>6 DEF FtdiNearestCode
  <1>4. CASE type \in FtdiB
    <2>1. type # "AM" /\ type \notin FtdiH
      BY ONLY <1>4 DEF FtdiH, FtdiB
    <2>2. e = ftdi_to_clkbits(baud, 3000000)
      BY ONLY <1>4, <2>1 DEF EncodedDivisor, FtdiFast
    <2>3. e \in Nat /\ e < 131072 /\ NearestEighths(DecodeEighths(e), baud, 3000000)
      BY <2>2, ClkbitsRange, ClkbitsNearest, SMT
    <2>4. third = (channel + 1) % 2
      BY ONLY <1>4, <2>1 DEF FtdiThirdBit
    <2> HIDE DEF e, c, third
    <2>5. third \in {0, 1} /\ e \div 65536 \in {0, 1} /\ clock = 3000000
      BY ONLY <1>1, <2>1, <2>3, <2>4, channel \in 0 .. 3, SMT
    <2>6. e = c.value + (e \div 65536) * 65536
      BY ONLY <1>1, <2>3, SMT
    <2>7. NearestEighths(DecodeEighths(e), baud, clock)
      BY ONLY <2>3, <2>5
    <2>8. FtdiNearestCode(e, baud, type, clock)
      BY ONLY <2>1, <2>7 DEF FtdiNearestCode
    <2>9. CASE third = e \div 65536
      BY ONLY <2>6, <2>8, <2>9
    <2>10. CASE third # e \div 65536
      <3>1. 1 - third = e \div 65536
        BY ONLY <2>5, <2>10, SMT
      <3> QED
        BY ONLY <1>4, <2>6, <2>8, <2>10, <3>1
    <2> QED
      BY ONLY <2>9, <2>10
  <1> QED
    BY ONLY <1>2, <1>3, <1>4, type \in FtdiTypes DEF FtdiTypes

------------------------------------------------------------------------------
(* The sequences of config_step. *)

(* The formats of the schema. *)
AnyFormat == [data_bits : 5 .. 8, parity : 0 .. 4, stop_bits : 0 .. 2]

(* A transfer without what depends on the settings. *)
Blur(t) ==
  IF t.request = "vendor_write" THEN t ELSE Transfer(t.request, t.to, 0, 0)

(* What a sequence is without the settings of the channel: the machine may *)
(* look at config_step again after they have changed, and finds the same   *)
(* steps in the same places.                                               *)
Shape(r) ==
  LET T(request) == Transfer(request, index, 0, 0) IN
  CASE driver = "CdcAcm" ->
         IF r THEN <<T("line_coding")>> ELSE <<T("line_coding"), T("control_line")>>
    [] driver = "CP210X" ->
         IF r THEN <<T("line_ctl"), T("baudrate"), T("modem")>>
              ELSE <<T("ifc_enable"), T("line_ctl"), T("baudrate"), T("modem")>>
    [] driver = "CH34X" ->
         <<Transfer("serial_init", Ch34xCommand(index), 0, 0),
           Transfer("handshake", Ch34xCommand(index) + 3, 0, 0)>>
    [] driver = "FT23XX" ->
         IF r THEN <<Transfer("baudrate", index + 1, 0, 0), Transfer("line", index + 1, 0, 0)>>
         ELSE <<Transfer("reset", index + 1, 0, 0), Transfer("baudrate", index + 1, 0, 0),
                Transfer("line", index + 1, 0, 0), Transfer("modem", index + 1, 0, 0)>>
    [] driver = "PL2303" ->
         IF r THEN <<T("line_coding")>>
         ELSE IF chip_type = "HXN" THEN <<T("line_coding"), T("control_line")>>
         ELSE LET read == T("vendor_read")
                  write(v, i) == Transfer("vendor_write", index, v, i)
              IN  <<read, write(1028, 0), read, read, read, write(1028, 1), read, read,
                    write(0, 1), write(1, 0), write(2, IF chip_type = "H" THEN 36 ELSE 68),
                    T("line_coding"), T("control_line")>>

(* Only vendor requests keep their data: those are constants of the code. *)
LEMMA Blurred ==
  /\ \A request, to, v, i : request # "vendor_write" =>
       Blur(Transfer(request, to, v, i)) = Transfer(request, to, 0, 0)
  /\ \A to, v, i : Blur(Transfer("vendor_write", to, v, i)) = Transfer("vendor_write", to, v, i)
  BY DEF Blur, Transfer

(* The step that carries the settings, for each driver. *)
CdcAcmSet(r) ==
  \E k \in 1 .. Len(Steps(r)) :
     Steps(r)[k] = Transfer("line_coding", index, encode_baud_direct(baud_rate), format)

(* As many steps as the shape has, of that form. *)
Shaped(r) ==
  /\ Len(Steps(r)) = Len(Shape(r))
  /\ \A k \in 1 .. Len(Steps(r)) : Blur(Steps(r)[k]) = Shape(r)[k]

(* usb_uart.cpp, config_step of the CDC class. *)
LEMMA CdcAcmShape ==
  ASSUME driver = "CdcAcm", NEW r \in BOOLEAN
  PROVE  Shaped(r) /\ CdcAcmSet(r)
  <1> DEFINE a == Transfer("line_coding", index, encode_baud_direct(baud_rate), format)
             b == Transfer("control_line", index, 0, 0)
             a0 == Transfer("line_coding", index, 0, 0)
  <1>1. Steps(r) = <<a>> \o IF r THEN <<>> ELSE <<b>>
    BY DEF Steps, CdcAcmSteps
  <1>2. Blur(a) = a0 /\ Blur(b) = b
    BY Blurred
  <1>3. Shape(r) = IF r THEN <<a0>> ELSE <<a0, b>>
    BY DEF Shape
  <1> HIDE DEF a, b, a0
  <1>4. IF r THEN Len(Steps(r)) = 1 /\ Steps(r)[1] = a
             ELSE Len(Steps(r)) = 2 /\ Steps(r)[1] = a /\ Steps(r)[2] = b
    BY ONLY <1>1
  <1>5. IF r THEN Len(Shape(r)) = 1 /\ Shape(r)[1] = a0
             ELSE Len(Shape(r)) = 2 /\ Shape(r)[1] = a0 /\ Shape(r)[2] = b
    BY ONLY <1>3
  <1>6. Shaped(r)
    BY ONLY <1>2, <1>4, <1>5 DEF Shaped
  <1>7. CdcAcmSet(r)
    BY ONLY <1>4 DEF CdcAcmSet, a
  <1> QED
    BY ONLY <1>6, <1>7

(* The steps that carry the settings of a CP210x. *)
CP210XSet(r) ==
  \E k, j \in 1 .. Len(Steps(r)) :
     /\ Steps(r)[k] = Transfer("line_ctl", index, format.stop_bits + format.parity * 16
                                              + format.data_bits * 256, 0)
     /\ Steps(r)[j] = Transfer("baudrate", index, encode_baud_direct(baud_rate), 0)

(* cp210x.cpp, config_step. *)
LEMMA CP210XShape ==
  ASSUME driver = "CP210X", NEW r \in BOOLEAN
  PROVE  Shaped(r) /\ CP210XSet(r)
  <1> DEFINE e == Transfer("ifc_enable", index, 0, 0)
             a == Transfer("line_ctl", index, format.stop_bits + format.parity * 16
                                                + format.data_bits * 256, 0)
             b == Transfer("baudrate", index, encode_baud_direct(baud_rate), 0)
             m == Transfer("modem", index, 0, 0)
             a0 == Transfer("line_ctl", index, 0, 0)
             b0 == Transfer("baudrate", index, 0, 0)
  <1>1. Steps(r) = (IF r THEN <<>> ELSE <<e>>) \o <<a, b, m>>
    BY DEF Steps, CP210XSteps
  <1>2. Blur(e) = e /\ Blur(a) = a0 /\ Blur(b) = b0 /\ Blur(m) = m
    BY Blurred
  <1>3. Shape(r) = IF r THEN <<a0, b0, m>> ELSE <<e, a0, b0, m>>
    BY DEF Shape
  <1> HIDE DEF e, a, b, m, a0, b0
  <1>4. LET S == Steps(r) IN
        IF r THEN Len(S) = 3 /\ S[1] = a /\ S[2] = b /\ S[3] = m
             ELSE Len(S) = 4 /\ S[1] = e /\ S[2] = a /\ S[3] = b /\ S[4] = m
    BY ONLY <1>1
  <1>5. LET S == Shape(r) IN
        IF r THEN Len(S) = 3 /\ S[1] = a0 /\ S[2] = b0 /\ S[3] = m
             ELSE Len(S) = 4 /\ S[1] = e /\ S[2] = a0 /\ S[3] = b0 /\ S[4] = m
    BY ONLY <1>3
  <1>6. Shaped(r)
    BY ONLY <1>2, <1>4, <1>5 DEF Shaped
  <1>7. CP210XSet(r)
    BY ONLY <1>4 DEF CP210XSet, a, b
  <1> QED
    BY ONLY <1>6, <1>7

(* The step that carries the settings of a CH34x. *)
CH34XSet(r) ==
  \E k \in 1 .. Len(Steps(r)) :
     Steps(r)[k] = Transfer("serial_init", Ch34xCommand(index), Ch34xLine * 256 + 140,
                            Ch34xFactor(baud_rate) * 256 + Ch34xPrescaler(baud_rate))

(* ch34x.cpp, config_step: unless the rate is rejected. *)
LEMMA CH34XShape ==
  ASSUME driver = "CH34X", ~Ch34xRejected(baud_rate), NEW r \in BOOLEAN
  PROVE  Shaped(r) /\ CH34XSet(r)
  <1> DEFINE a == Transfer("serial_init", Ch34xCommand(index), Ch34xLine * 256 + 140,
                           Ch34xFactor(baud_rate) * 256 + Ch34xPrescaler(baud_rate))
             h == Transfer("handshake", Ch34xCommand(index) + 3, 128, 0)
             a0 == Transfer("serial_init", Ch34xCommand(index), 0, 0)
             h0 == Transfer("handshake", Ch34xCommand(index) + 3, 0, 0)
  <1>1. Steps(r) = <<a, h>>
    BY DEF Steps, CH34XSteps
  <1>2. Blur(a) = a0 /\ Blur(h) = h0
    BY Blurred
  <1>3. Shape(r) = <<a0, h0>>
    BY DEF Shape
  <1> HIDE DEF a, h, a0, h0
  <1>4. Len(Steps(r)) = 2 /\ Steps(r)[1] = a /\ Steps(r)[2] = h
    BY ONLY <1>1
  <1>5. Len(Shape(r)) = 2 /\ Shape(r)[1] = a0 /\ Shape(r)[2] = h0
    BY ONLY <1>3
  <1>6. Shaped(r)
    BY ONLY <1>2, <1>4, <1>5 DEF Shaped
  <1>7. CH34XSet(r)
    BY ONLY <1>4 DEF CH34XSet, a
  <1> QED
    BY ONLY <1>6, <1>7

(* The steps that carry the settings of an FTDI chip. *)
FT23XXSet(r) ==
  \E k, j \in 1 .. Len(Steps(r)) :
     /\ Steps(r)[k] = LET c == ftdi_convert_baudrate(baud_rate, chip_type, index)
                      IN  Transfer("baudrate", index + 1, c.value, c.index \div 256)
     /\ Steps(r)[j] = Transfer("line", index + 1, format.data_bits + format.parity * 256
                                                  + format.stop_bits * 2048, 0)

(* ft23xx.cpp, config_step. *)
LEMMA FT23XXShape ==
  ASSUME driver = "FT23XX", NEW r \in BOOLEAN
  PROVE  Shaped(r) /\ FT23XXSet(r)
  <1> DEFINE c == ftdi_convert_baudrate(baud_rate, chip_type, index)
             e == Transfer("reset", index + 1, 0, 0)
             a == Transfer("baudrate", index + 1, c.value, c.index \div 256)
             b == Transfer("line", index + 1, format.data_bits + format.parity * 256
                                                + format.stop_bits * 2048, 0)
             m == Transfer("modem", index + 1, 0, 0)
             a0 == Transfer("baudrate", index + 1, 0, 0)
             b0 == Transfer("line", index + 1, 0, 0)
             all == <<e, a, b, m>>
  <1>1. Steps(r) = IF r THEN SubSeq(all, 2, 3) ELSE all
    BY DEF Steps, FT23XXSteps
  <1>2. Blur(e) = e /\ Blur(a) = a0 /\ Blur(b) = b0 /\ Blur(m) = m
    BY Blurred
  <1>3. Shape(r) = IF r THEN <<a0, b0>> ELSE <<e, a0, b0, m>>
    BY DEF Shape
  <1> HIDE DEF e, a, b, m, a0, b0
  <1>4. LET S == Steps(r) IN
        IF r THEN Len(S) = 2 /\ S[1] = a /\ S[2] = b
             ELSE Len(S) = 4 /\ S[1] = e /\ S[2] = a /\ S[3] = b /\ S[4] = m
    BY ONLY <1>1
  <1>5. LET S == Shape(r) IN
        IF r THEN Len(S) = 2 /\ S[1] = a0 /\ S[2] = b0
             ELSE Len(S) = 4 /\ S[1] = e /\ S[2] = a0 /\ S[3] = b0 /\ S[4] = m
    BY ONLY <1>3
  <1>6. Shaped(r)
    BY ONLY <1>2, <1>4, <1>5 DEF Shaped
  <1>7. FT23XXSet(r)
    BY ONLY <1>4 DEF FT23XXSet, a, b
  <1> QED
    BY ONLY <1>6, <1>7

(* The step that carries the settings of a PL2303. *)
PL2303Set(r) ==
  \E k \in 1 .. Len(Steps(r)) :
     Steps(r)[k] = Transfer("line_coding", index, Pl2303Baud(baud_rate, chip_type),
                            [format EXCEPT !.stop_bits = IF @ = 2 THEN 2 ELSE 0])

(* pl2303.cpp, config_step: with or without the vendor sequence. *)
LEMMA PL2303Shape ==
  ASSUME driver = "PL2303", index = 0, NEW r \in BOOLEAN
  PROVE  Shaped(r) /\ PL2303Set(r)
  <1> DEFINE a == Transfer("line_coding", index, Pl2303Baud(baud_rate, chip_type),
                           [format EXCEPT !.stop_bits = IF @ = 2 THEN 2 ELSE 0])
             b == Transfer("control_line", index, 0, 0)
             a0 == Transfer("line_coding", index, 0, 0)
             x == Transfer("vendor_read", 0, 0, 0)
             w(v, i) == Transfer("vendor_write", 0, v, i)
             w1 == w(1028, 0)
             w2 == w(1028, 1)
             w3 == w(0, 1)
             w4 == w(1, 0)
             w5 == w(2, IF chip_type = "H" THEN 36 ELSE 68)
             init == <<x, w1, x, x, x, w2, x, x, w3, w4, w5>>
  <1>0. PL2303_INIT = init
    BY DEF PL2303_INIT
  <1>1. Steps(r) = (IF r \/ chip_type = "HXN" THEN <<>> ELSE init) \o <<a>>
                     \o IF r THEN <<>> ELSE <<b>>
    BY <1>0 DEF Steps, PL2303Steps
  <1>2. /\ Blur(a) = a0 /\ Blur(b) = b /\ Blur(x) = x
        /\ Blur(w1) = w1 /\ Blur(w2) = w2 /\ Blur(w3) = w3 /\ Blur(w4) = w4 /\ Blur(w5) = w5
    BY Blurred
  <1>3. Shape(r) = IF r THEN <<a0>> ELSE IF chip_type = "HXN" THEN <<a0, b>>
                   ELSE <<x, w1, x, x, x, w2, x, x, w3, w4, w5, a0, b>>
    BY DEF Shape
  <1> HIDE DEF a, b, a0, x, w1, w2, w3, w4, w5
  <1>4. LET S == Steps(r) IN
        IF r THEN Len(S) = 1 /\ S[1] = a
        ELSE IF chip_type = "HXN" THEN Len(S) = 2 /\ S[1] = a /\ S[2] = b
        ELSE /\ Len(S) = 13 /\ S[1] = x /\ S[2] = w1 /\ S[3] = x /\ S[4] = x /\ S[5] = x
             /\ S[6] = w2 /\ S[7] = x /\ S[8] = x /\ S[9] = w3 /\ S[10] = w4 /\ S[11] = w5
             /\ S[12] = a /\ S[13] = b
    <2> DEFINE S == Steps(r)
    <2>1. r => Len(S) = 1 /\ S[1] = a
      <3> HAVE r
      <3>1. S = <<>> \o <<a>> \o <<>>
        BY ONLY <1>1, r
      <3> HIDE DEF S
      <3> QED
        BY ONLY <3>1
    <2>2. ~r /\ chip_type = "HXN" => Len(S) = 2 /\ S[1] = a /\ S[2] = b
      <3> HAVE ~r /\ chip_type = "HXN"
      <3>1. S = <<>> \o <<a>> \o <<b>>
        BY ONLY <1>1, ~r /\ chip_type = "HXN"
      <3> HIDE DEF S
      <3> QED
        BY ONLY <3>1
    <2>3. ~r /\ chip_type # "HXN" =>
            /\ Len(S) = 13 /\ S[1] = x /\ S[2] = w1 /\ S[3] = x /\ S[4] = x /\ S[5] = x
            /\ S[6] = w2 /\ S[7] = x /\ S[8] = x /\ S[9] = w3 /\ S[10] = w4 /\ S[11] = w5
            /\ S[12] = a /\ S[13] = b
      <3> HAVE ~r /\ chip_type # "HXN"
      <3>1. S = init \o <<a>> \o <<b>>
        BY ONLY <1>1, ~r /\ chip_type # "HXN"
      <3> HIDE DEF S
      <3>2. Len(S) = 13 /\ S[12] = a /\ S[13] = b
        <4> DEFINE T == {x, w1, w2, w3, w4, w5, a, b}
        <4>1. init \in Seq(T) /\ a \in T /\ b \in T
          OBVIOUS
        <4>0. Len(init) = 11
          OBVIOUS
        <4> HIDE DEF T, init
        <4> DEFINE Z == init \o <<a>> \o <<b>>
        <4>2. Len(Z) = Len(init) + 2 /\ Z[Len(init) + 1] = a /\ Z[Len(init) + 2] = b
          BY ONLY <4>1
        <4> HIDE DEF Z
        <4>3. Len(Z) = 13 /\ Z[12] = a /\ Z[13] = b
          BY ONLY <4>0, <4>2
        <4> QED
          BY ONLY <3>1, <4>3 DEF Z
      <3>3. S[1] = x /\ S[2] = w1 /\ S[3] = x /\ S[4] = x
        BY ONLY <3>1
      <3>4. S[5] = x /\ S[6] = w2 /\ S[7] = x /\ S[8] = x
        BY ONLY <3>1
      <3>5. S[9] = w3 /\ S[10] = w4 /\ S[11] = w5
        BY ONLY <3>1
      <3> QED
        BY ONLY <3>2, <3>3, <3>4, <3>5
    <2> QED
      BY ONLY <2>1, <2>2, <2>3
  <1>5. LET S == Shape(r) IN
        IF r THEN Len(S) = 1 /\ S[1] = a0
        ELSE IF chip_type = "HXN" THEN Len(S) = 2 /\ S[1] = a0 /\ S[2] = b
        ELSE /\ Len(S) = 13 /\ S[1] = x /\ S[2] = w1 /\ S[3] = x /\ S[4] = x /\ S[5] = x
             /\ S[6] = w2 /\ S[7] = x /\ S[8] = x /\ S[9] = w3 /\ S[10] = w4 /\ S[11] = w5
             /\ S[12] = a0 /\ S[13] = b
    BY ONLY <1>3
  <1>6. Shaped(r)
    <2> DEFINE S == Steps(r)
               Z == Shape(r)
    <2> HIDE DEF S, Z
    <2> SUFFICES Len(S) = Len(Z) /\ \A k \in 1 .. Len(S) : Blur(S[k]) = Z[k]
      BY DEF Shaped, S, Z
    <2>1. CASE r \/ chip_type = "HXN"
      BY ONLY <1>2, <1>4, <1>5, <2>1 DEF S, Z
    <2>2. CASE ~r /\ chip_type # "HXN"
      <3>1. Len(S) = 13 /\ Len(Z) = 13
        BY ONLY <1>4, <1>5, <2>2 DEF S, Z
      <3>2. /\ Blur(S[1]) = Z[1] /\ Blur(S[2]) = Z[2] /\ Blur(S[3]) = Z[3]
            /\ Blur(S[4]) = Z[4] /\ Blur(S[5]) = Z[5] /\ Blur(S[6]) = Z[6]
            /\ Blur(S[7]) = Z[7]
        BY ONLY <1>2, <1>4, <1>5, <2>2 DEF S, Z
      <3>3. /\ Blur(S[8]) = Z[8] /\ Blur(S[9]) = Z[9] /\ Blur(S[10]) = Z[10]
            /\ Blur(S[11]) = Z[11] /\ Blur(S[12]) = Z[12] /\ Blur(S[13]) = Z[13]
        BY ONLY <1>2, <1>4, <1>5, <2>2 DEF S, Z
      <3> QED  BY ONLY <3>1, <3>2, <3>3
    <2> QED  BY ONLY <2>1, <2>2
  <1>7. PL2303Set(r)
    <2> DEFINE S == Steps(r)
    <2>1. \/ Len(S) = 1 /\ S[1] = a
          \/ Len(S) = 2 /\ S[1] = a
          \/ Len(S) = 13 /\ S[12] = a
      BY ONLY <1>4, Zenon
    <2> HIDE DEF S
    <2>2. \E k \in 1 .. Len(S) : S[k] = a
      BY ONLY <2>1
    <2> QED  BY ONLY <2>2 DEF PL2303Set, S, a
  <1> QED
    BY ONLY <1>6, <1>7

(* The requests, by what they do to the registers of the port: those that  *)
(* start it from nothing, ...                                              *)
Starters == {"reset", "ifc_enable"}

(* ... those that set DTR, ... *)
Handshakes == {"modem", "control_line", "handshake"}

(* ... those that set the rate, ... *)
RateSetters == {"baudrate", "line_coding", "serial_init"}

(* ... and those that set the line; some do both. *)
LineSetters == {"line", "line_ctl", "line_coding", "serial_init"}

(* All the requests of the sequences. *)
Requests == Starters \cup Handshakes \cup RateSetters \cup LineSetters
              \cup {"vendor_read", "vendor_write"}

(* What the last vendor request of a PL2303 has to say to a chip. *)
VendorIndex(type) == IF type = "H" THEN 36 ELSE 68

(* The chips that need no request to be started. *)
BornReady == driver \in {"CdcAcm", "CH34X"} \/ chip_type = "HXN"

(* The requests that start the others. *)
Wakes(t) == t.request \in Starters \/ (t.request = "vendor_write" /\ t.value = 2)

(* A step is one of these requests, for the port of the channel; only the  *)
(* first of a full init starts the port from nothing.                      *)
StepSound(S, r, k) ==
  LET t == S[k] IN
  /\ t.request \in Requests
  /\ PortOf(t) = index
  /\ t.request \in Starters => k = 1 /\ ~r
  /\ t.request = "vendor_write" /\ t.value = 2 => t.idx = VendorIndex(chip_type)

(* A sequence sets the rate once and the line once, and a full init starts *)
(* the chip and sets DTR.                                                  *)
ShapeSound(S, r) ==
  /\ Len(S) \in 1 .. 13
  /\ \A k \in 1 .. Len(S) : StepSound(S, r, k)
  /\ \A k, j \in 1 .. Len(S) :
       /\ S[k].request \in RateSetters /\ S[j].request \in RateSetters => j = k
       /\ S[k].request \in LineSetters /\ S[j].request \in LineSetters => j = k
  /\ ~r => \E k \in 1 .. Len(S) : S[k].request \in Handshakes
  /\ ~r /\ ~BornReady => \E k \in 1 .. Len(S) : Wakes(S[k])

(* The port a transfer is for: it is in the index of the request, ... *)
LEMMA PortDirect ==
  ASSUME driver \notin {"CH34X", "FT23XX"}, NEW request, NEW to, NEW v, NEW i
  PROVE  PortOf(Transfer(request, to, v, i)) = to
  <1>1. \A t : PortOf(t) = t.to
    BY Zenon DEF PortOf
  <1> QED
    BY <1>1 DEF Transfer

(* ... counted from one on an FTDI chip, ... *)
LEMMA PortFtdi ==
  ASSUME driver = "FT23XX", NEW request, NEW to, NEW v, NEW i
  PROVE  PortOf(Transfer(request, to, v, i)) = to - 1
  <1>1. \A t : PortOf(t) = t.to - 1
    BY Zenon DEF PortOf
  <1> QED
    BY <1>1 DEF Transfer

(* ... and part of the command of a CH34x, where no command of a port is   *)
(* one of another.                                                         *)
LEMMA PortCh34x ==
  ASSUME driver = "CH34X", NEW p \in 0 .. 3, NEW request, NEW v, NEW i,
         NEW to \in {Ch34xCommand(p), Ch34xCommand(p) + 3}
  PROVE  PortOf(Transfer(request, to, v, i)) = p
  <1>1. \A t : PortOf(t) = CHOOSE q \in 0 .. 3 : t.to \in {Ch34xCommand(q), Ch34xCommand(q) + 3}
    BY Zenon DEF PortOf
  <1>2. \A q \in 0 .. 3 : to \in {Ch34xCommand(q), Ch34xCommand(q) + 3} => q = p
    BY SMT DEF Ch34xCommand
  <1>3. (CHOOSE q \in 0 .. 3 : to \in {Ch34xCommand(q), Ch34xCommand(q) + 3}) = p
    BY <1>2, Zenon
  <1> QED
    BY <1>1, <1>3 DEF Transfer

(* The fields of a transfer. *)
LEMMA Fields ==
  \A request, to, v, i : /\ Transfer(request, to, v, i).request = request
                         /\ Transfer(request, to, v, i).value = v
                         /\ Transfer(request, to, v, i).idx = i
                         /\ Transfer(request, to, v, i).to = to
  BY DEF Transfer

(* The sequence of the CDC class is sound. *)
LEMMA CdcAcmSound ==
  ASSUME driver = "CdcAcm", NEW r \in BOOLEAN
  PROVE  ShapeSound(Shape(r), r)
  <1> DEFINE a == Transfer("line_coding", index, 0, 0)
             b == Transfer("control_line", index, 0, 0)
             S == Shape(r)
  <1>1. /\ a.request = "line_coding" /\ PortOf(a) = index
        /\ b.request = "control_line" /\ PortOf(b) = index
    BY PortDirect, Fields
  <1>2. S = IF r THEN <<a>> ELSE <<a, b>>
    BY DEF Shape
  <1> SUFFICES ShapeSound(S, r)
    OBVIOUS
  <1> HIDE DEF a, b, S
  <1>3. IF r THEN Len(S) = 1 /\ S[1] = a ELSE Len(S) = 2 /\ S[1] = a /\ S[2] = b
    BY ONLY r \in BOOLEAN, <1>2
  <1> QED
    BY <1>1, <1>3
       DEF ShapeSound, StepSound, Starters, Handshakes, RateSetters,
           LineSetters,
       Requests, BornReady, Wakes

(* That of a CP210x is. *)
LEMMA CP210XSound ==
  ASSUME driver = "CP210X", NEW r \in BOOLEAN
  PROVE  ShapeSound(Shape(r), r)
  <1> DEFINE e == Transfer("ifc_enable", index, 0, 0)
             a == Transfer("line_ctl", index, 0, 0)
             b == Transfer("baudrate", index, 0, 0)
             m == Transfer("modem", index, 0, 0)
             S == Shape(r)
  <1>1. /\ e.request = "ifc_enable" /\ PortOf(e) = index
        /\ a.request = "line_ctl" /\ PortOf(a) = index
        /\ b.request = "baudrate" /\ PortOf(b) = index
        /\ m.request = "modem" /\ PortOf(m) = index
    BY PortDirect, Fields
  <1>2. S = IF r THEN <<a, b, m>> ELSE <<e, a, b, m>>
    BY DEF Shape
  <1> SUFFICES ShapeSound(S, r)
    OBVIOUS
  <1> HIDE DEF e, a, b, m, S
  <1>3. CASE r
    <2>1. Len(S) = 3 /\ S[1] = a /\ S[2] = b /\ S[3] = m
      BY ONLY r \in BOOLEAN, <1>2, <1>3
    <2>2. \A k \in 1 .. 3 : StepSound(S, r, k)
      BY ONLY r \in BOOLEAN, <1>1, <1>3, <2>1
         DEF StepSound, Starters, Handshakes, RateSetters, LineSetters, Requests
    <2>3. \A k \in 1 .. 3 : /\ S[k].request \in RateSetters => k = 2
                            /\ S[k].request \in LineSetters => k = 1
      BY ONLY r \in BOOLEAN, <1>1, <2>1 DEF RateSetters, LineSetters
    <2> QED
      BY ONLY r \in BOOLEAN, <1>3, <2>1, <2>2, <2>3 DEF ShapeSound, StepSound
  <1>4. CASE ~r
    <2>1. Len(S) = 4 /\ S[1] = e /\ S[2] = a /\ S[3] = b /\ S[4] = m
      BY ONLY r \in BOOLEAN, <1>2, <1>4
    <2>2. \A k \in 1 .. 4 : StepSound(S, r, k)
      BY ONLY r \in BOOLEAN, <1>1, <1>4, <2>1
         DEF StepSound, Starters, Handshakes, RateSetters, LineSetters, Requests
    <2>3. \A k \in 1 .. 4 : /\ S[k].request \in RateSetters => k = 3
                            /\ S[k].request \in LineSetters => k = 2
      BY ONLY r \in BOOLEAN, <1>1, <2>1 DEF RateSetters, LineSetters
    <2>4. S[4].request \in Handshakes /\ Wakes(S[1])
      BY ONLY r \in BOOLEAN, <1>1, <2>1 DEF Handshakes, Wakes, Starters
    <2> QED
      BY ONLY r \in BOOLEAN, <1>4, <2>1, <2>2, <2>3, <2>4 DEF ShapeSound
  <1> QED
    BY <1>3, <1>4

(* That of a CH34x is. *)
LEMMA CH34XSound ==
  ASSUME driver = "CH34X", index \in 0 .. 3, NEW r \in BOOLEAN
  PROVE  ShapeSound(Shape(r), r)
  <1> DEFINE a == Transfer("serial_init", Ch34xCommand(index), 0, 0)
             h == Transfer("handshake", Ch34xCommand(index) + 3, 0, 0)
             S == Shape(r)
  <1>1. /\ a.request = "serial_init" /\ PortOf(a) = index
        /\ h.request = "handshake" /\ PortOf(h) = index
    BY PortCh34x, Fields
  <1>2. S = <<a, h>>
    BY DEF Shape
  <1> SUFFICES ShapeSound(S, r)
    OBVIOUS
  <1> HIDE DEF a, h, S
  <1>3. Len(S) = 2 /\ S[1] = a /\ S[2] = h
    BY ONLY r \in BOOLEAN, <1>2
  <1> QED
    BY <1>1, <1>3
       DEF ShapeSound, StepSound, Starters, Handshakes, RateSetters,
           LineSetters,
       Requests, BornReady, Wakes

(* That of an FTDI chip is. *)
LEMMA FT23XXSound ==
  ASSUME driver = "FT23XX", index \in 0 .. 3, NEW r \in BOOLEAN
  PROVE  ShapeSound(Shape(r), r)
  <1> DEFINE e == Transfer("reset", index + 1, 0, 0)
             a == Transfer("baudrate", index + 1, 0, 0)
             b == Transfer("line", index + 1, 0, 0)
             m == Transfer("modem", index + 1, 0, 0)
             S == Shape(r)
  <1>1. /\ e.request = "reset" /\ PortOf(e) = index
        /\ a.request = "baudrate" /\ PortOf(a) = index
        /\ b.request = "line" /\ PortOf(b) = index
        /\ m.request = "modem" /\ PortOf(m) = index
    BY PortFtdi, Fields
  <1>2. S = IF r THEN <<a, b>> ELSE <<e, a, b, m>>
    BY DEF Shape
  <1> SUFFICES ShapeSound(S, r)
    OBVIOUS
  <1> HIDE DEF e, a, b, m, S
  <1>3. CASE r
    <2>1. Len(S) = 2 /\ S[1] = a /\ S[2] = b
      BY ONLY r \in BOOLEAN, <1>2, <1>3
    <2>2. \A k \in 1 .. 2 : StepSound(S, r, k)
      BY ONLY r \in BOOLEAN, <1>1, <1>3, <2>1
         DEF StepSound, Starters, Handshakes, RateSetters, LineSetters, Requests
    <2>3. \A k \in 1 .. 2 : /\ S[k].request \in RateSetters => k = 1
                            /\ S[k].request \in LineSetters => k = 2
      BY ONLY r \in BOOLEAN, <1>1, <2>1 DEF RateSetters, LineSetters
    <2> QED
      BY ONLY r \in BOOLEAN, <1>3, <2>1, <2>2, <2>3 DEF ShapeSound, StepSound
  <1>4. CASE ~r
    <2>1. Len(S) = 4 /\ S[1] = e /\ S[2] = a /\ S[3] = b /\ S[4] = m
      BY ONLY r \in BOOLEAN, <1>2, <1>4
    <2>2. \A k \in 1 .. 4 : StepSound(S, r, k)
      BY ONLY r \in BOOLEAN, <1>1, <1>4, <2>1
         DEF StepSound, Starters, Handshakes, RateSetters, LineSetters, Requests
    <2>3. \A k \in 1 .. 4 : /\ S[k].request \in RateSetters => k = 2
                            /\ S[k].request \in LineSetters => k = 3
      BY ONLY r \in BOOLEAN, <1>1, <2>1 DEF RateSetters, LineSetters
    <2>4. S[4].request \in Handshakes /\ Wakes(S[1])
      BY ONLY r \in BOOLEAN, <1>1, <2>1 DEF Handshakes, Wakes, Starters
    <2> QED
      BY ONLY r \in BOOLEAN, <1>4, <2>1, <2>2, <2>3, <2>4 DEF ShapeSound
  <1> QED
    BY <1>3, <1>4

(* That of a PL2303 is. *)
LEMMA PL2303Sound ==
  ASSUME driver = "PL2303", NEW r \in BOOLEAN
  PROVE  ShapeSound(Shape(r), r)
  <1> DEFINE a == Transfer("line_coding", index, 0, 0)
             b == Transfer("control_line", index, 0, 0)
             x == Transfer("vendor_read", index, 0, 0)
             w(v, i) == Transfer("vendor_write", index, v, i)
             w1 == w(1028, 0)
             w2 == w(1028, 1)
             w3 == w(0, 1)
             w4 == w(1, 0)
             w5 == w(2, VendorIndex(chip_type))
             S == Shape(r)
  <1>1. /\ a.request = "line_coding" /\ PortOf(a) = index
        /\ b.request = "control_line" /\ PortOf(b) = index
        /\ x.request = "vendor_read" /\ PortOf(x) = index
    BY PortDirect, Fields
  <1>2. \A v, i : /\ w(v, i).request = "vendor_write" /\ PortOf(w(v, i)) = index
                  /\ w(v, i).value = v /\ w(v, i).idx = i
    BY PortDirect, Fields
  <1>3. S = IF r THEN <<a>> ELSE IF chip_type = "HXN" THEN <<a, b>>
            ELSE <<x, w1, x, x, x, w2, x, x, w3, w4, w5, a, b>>
    BY DEF Shape, VendorIndex
  <1>4. \A t \in {w1, w2, w3, w4, w5} :
          /\ t.request = "vendor_write" /\ PortOf(t) = index
          /\ t.value = 2 => t.idx = VendorIndex(chip_type)
    BY <1>2
  <1>5. w5.value = 2
    BY <1>2
  <1> SUFFICES ShapeSound(S, r)
    OBVIOUS
  <1> HIDE DEF a, b, x, w1, w2, w3, w4, w5, S
  <1>6. CASE r
    <2>1. Len(S) = 1 /\ S[1] = a
      BY ONLY r \in BOOLEAN, <1>3, <1>6
    <2>2. \A k \in 1 .. 1 : StepSound(S, r, k)
      BY ONLY r \in BOOLEAN, <1>1, <1>6, <2>1
         DEF StepSound, Starters, Handshakes, RateSetters, LineSetters, Requests
    <2>3. \A k \in 1 .. 1 : /\ S[k].request \in RateSetters => k = 1
                            /\ S[k].request \in LineSetters => k = 1
      BY ONLY r \in BOOLEAN, <1>1, <2>1 DEF RateSetters, LineSetters
    <2> QED
      BY ONLY r \in BOOLEAN, <1>6, <2>1, <2>2, <2>3 DEF ShapeSound, StepSound
  <1>7. CASE ~r /\ chip_type = "HXN"
    <2>1. Len(S) = 2 /\ S[1] = a /\ S[2] = b
      BY ONLY r \in BOOLEAN, <1>3, <1>7
    <2>2. \A k \in 1 .. 2 : StepSound(S, r, k)
      BY ONLY r \in BOOLEAN, <1>1, <1>7, <2>1
         DEF StepSound, Starters, Handshakes, RateSetters, LineSetters, Requests
    <2>3. \A k \in 1 .. 2 : /\ S[k].request \in RateSetters => k = 1
                            /\ S[k].request \in LineSetters => k = 1
      BY ONLY r \in BOOLEAN, <1>1, <2>1 DEF RateSetters, LineSetters
    <2>4. S[2].request \in Handshakes
      BY ONLY r \in BOOLEAN, <1>1, <2>1 DEF Handshakes, Wakes, Starters
    <2> QED
      BY ONLY r \in BOOLEAN, <1>7, <2>1, <2>2, <2>3, <2>4
         DEF ShapeSound, BornReady
  <1>8. CASE ~r /\ chip_type # "HXN"
    <2>1. /\ Len(S) = 13 /\ S[1] = x /\ S[2] = w1 /\ S[3] = x /\ S[4] = x /\ S[5] = x
          /\ S[6] = w2 /\ S[7] = x /\ S[8] = x /\ S[9] = w3 /\ S[10] = w4 /\ S[11] = w5
          /\ S[12] = a /\ S[13] = b
      BY ONLY r \in BOOLEAN, <1>3, <1>8
    <2>2. \A k \in 1 .. 13 : \/ k \notin {12, 13} /\ S[k] \in {x, w1, w2, w3, w4, w5}
                             \/ k = 12 /\ S[k] = a
                             \/ k = 13 /\ S[k] = b
      BY ONLY r \in BOOLEAN, <2>1
    <2>3. \A k \in 1 .. 13 : \/ k \notin {12, 13} /\ S[k].request \in {"vendor_read", "vendor_write"}
                             \/ k = 12 /\ S[k].request = "line_coding"
                             \/ k = 13 /\ S[k].request = "control_line"
      BY ONLY r \in BOOLEAN, <1>1, <1>4, <2>2
    <2>4. \A k \in 1 .. 13 : /\ PortOf(S[k]) = index
                             /\ S[k].request = "vendor_write" /\ S[k].value = 2 =>
                                  S[k].idx = VendorIndex(chip_type)
      BY ONLY r \in BOOLEAN, <1>1, <1>4, <2>2
    <2>5. \A k \in 1 .. 13 : StepSound(S, r, k)
      BY ONLY r \in BOOLEAN, <1>8, <2>3, <2>4
         DEF StepSound, Starters, Handshakes, RateSetters, LineSetters,
         Requests
    <2>6. \A k \in 1 .. 13 : S[k].request \in RateSetters \cup LineSetters => k = 12
      BY ONLY r \in BOOLEAN, <2>3 DEF RateSetters, LineSetters
    <2>7. S[13].request \in Handshakes /\ Wakes(S[11])
      BY ONLY r \in BOOLEAN, <1>4, <1>5, <2>1, <1>1 DEF Handshakes, Wakes
    <2> QED
      BY ONLY r \in BOOLEAN, <1>8, <2>1, <2>5, <2>6, <2>7 DEF ShapeSound
  <1> QED
    BY <1>6, <1>7, <1>8

------------------------------------------------------------------------------
(* The inductive invariant. *)

(* What a step that has been executed leaves for good: the chip started,   *)
(* DTR set.                                                                *)
Started(R, t) ==
  /\ Wakes(t) => R.ready
  /\ t.request \in Handshakes => R.modem

(* What it leaves until the next step of its kind: the values it carried. *)
Applied(R, t) ==
  /\ t.request = "baudrate" => R.rate = <<t.value, t.idx>>
  /\ t.request \in {"line", "line_ctl"} => R.line = <<t.value>>
  /\ t.request = "line_coding" => R.rate = <<t.value, 0>> /\ R.line = <<t.idx>>
  /\ t.request = "serial_init" => R.rate = <<0, t.idx>> /\ R.line = <<t.value>>

(* The registers as a record. *)
Record(R) ==
  /\ R = [ready |-> R.ready, modem |-> R.modem, rate |-> R.rate, line |-> R.line]
  /\ R.ready \in BOOLEAN /\ R.modem \in BOOLEAN

(* The driver and the channel, which never change. *)
StaticOK ==
  /\ driver \in Families /\ index \in {i \in Indices : i < MaxChannels(driver)}

(* The settings are those of the schema, or the default format. *)
SettingsIn ==
  /\ settings.baud_rate \in 300 .. MaxBaud(driver)
  /\ settings.format \in Format \cup {DefaultFormat}

(* The flags of the machine. *)
Flags ==
  /\ initialised \in BOOLEAN /\ active \in BOOLEAN /\ reload \in BOOLEAN
  /\ device_phase \in BOOLEAN /\ ok \in BOOLEAN /\ pending \in BOOLEAN /\ spoiled \in BOOLEAN

(* The part of the type invariant that the rest stands on. That step stays *)
(* in the sequence is in Control.                                          *)
Types ==
  /\ StaticOK /\ SettingsIn /\ Flags
  /\ chip \in Chips \cup {NoChip}
  /\ step \in Nat
  /\ Record(regs)

(* What the driver knows of the chip. *)
Known ==
  /\ chip # NoChip => chip.driver = driver
  /\ initialised => chip # NoChip
  /\ driver \notin {"FT23XX", "PL2303"} => chip_type = "unknown"
  /\ driver \in {"FT23XX", "PL2303"} /\ chip # NoChip => chip_type = chip.type

(* A transfer on its way is the next step of the sequence, with the        *)
(* settings of now unless a reload is pending.                             *)
InFlightFor(r) ==
  /\ ok /\ step < Len(Shape(r))
  /\ Blur(in_flight) = Shape(r)[step + 1]
  /\ ~pending => in_flight = Steps(r)[step + 1]

(* The phases of the machine. *)
Control ==
  /\ device_phase => active /\ ~reload
  /\ ~active => Idle /\ ~pending /\ step = 0
  /\ device_phase /\ ~Idle => /\ in_flight = Transfer("version", Ch34xCommand(index), 0, 0)
                             /\ step = 0 /\ driver = "CH34X"
  /\ device_phase /\ Idle => step <= 1
  /\ \A r \in BOOLEAN : reload = r /\ active /\ ~device_phase =>
       /\ step <= Len(Shape(r)) + 1
       /\ ok => step <= Len(Shape(r))
       /\ ~Idle => InFlightFor(r)

(* Every step up to the current one has been executed and none has undone  *)
(* it; with the settings of now unless a reload is pending.                *)
ProgressFor(r) ==
  \A k \in 1 .. step :
    /\ Started(regs, Shape(r)[k])
    /\ ~pending => Applied(regs, Steps(r)[k])

(* The registers hold the settings. *)
Settled ==
  /\ regs.rate # <<>> /\ (ThirdBitSpoiled \/ RateMatches)
  /\ regs.line # <<>> /\ LineFormat = WantedFormat

(* The registers of a channel that is initialised, while its machine runs  *)
(* and at rest.                                                            *)
Registers ==
  initialised =>
    /\ BornReady => regs.ready
    /\ reload \/ ~active => regs.ready /\ regs.modem
    /\ \A r \in BOOLEAN : reload = r /\ active /\ ~device_phase /\ ok => ProgressFor(r)
    /\ ~active /\ ~spoiled => Settled

(* The inductive invariant. *)
Inv == Types /\ Known /\ Control /\ Registers

------------------------------------------------------------------------------
(* What the steps do to the registers. *)

(* The assumption on the constants, value by value. *)
LEMMA Options ==
  /\ \A d \in Families : d \in {"CdcAcm", "CP210X", "CH34X", "FT23XX", "PL2303"}
  /\ \A i \in Indices : i \in 0 .. 3
  /\ \A n \in DataBits : n \in 5 .. 8
  /\ \A n \in Parities : n \in 0 .. 4
  /\ \A n \in StopBits : n \in 0 .. 2
  BY SettingsAssumption

(* The drivers by name, and the channels of those that have one. *)
LEMMA StaticFacts ==
  ASSUME StaticOK
  PROVE  /\ driver \in {"CdcAcm", "CP210X", "CH34X", "FT23XX", "PL2303"}
         /\ index \in 0 .. 3
         /\ driver \in {"CdcAcm", "PL2303"} => index = 0
  <1>1. driver \in {"CdcAcm", "CP210X", "CH34X", "FT23XX", "PL2303"} /\ index \in 0 .. 3
    BY Options DEF StaticOK
  <1>2. driver \in {"CdcAcm", "PL2303"} => MaxChannels(driver) = 1
    BY Zenon DEF MaxChannels
  <1>3. index < MaxChannels(driver)
    BY Zenon DEF StaticOK
  <1> QED
    BY <1>1, <1>2, <1>3

(* The rates that each driver lets through its schema. *)
LEMMA BaudRange ==
  ASSUME Types
  PROVE  /\ baud_rate \in Nat /\ 300 <= baud_rate /\ baud_rate <= 12000000
         /\ driver = "CH34X" => baud_rate <= 2000000
         /\ driver = "PL2303" => baud_rate <= 6000000
  <1>1. /\ driver = "CdcAcm" => MaxBaud(driver) = 1000000
        /\ driver = "CP210X" => MaxBaud(driver) = 2000000
        /\ driver = "CH34X" => MaxBaud(driver) = 2000000
        /\ driver = "PL2303" => MaxBaud(driver) = 6000000
        /\ driver = "FT23XX" => MaxBaud(driver) = 12000000
    BY SMT DEF MaxBaud
  <1>2. driver \in {"CdcAcm", "CP210X", "CH34X", "FT23XX", "PL2303"}
    BY StaticFacts, SMT DEF Types
  <1>3. baud_rate \in 300 .. MaxBaud(driver)
    BY SMT DEF Types, SettingsIn, baud_rate
  <1> QED
    BY ONLY <1>1, <1>2, <1>3, SMT

(* The format of the channel is one of the schema. *)
LEMMA FormatFacts ==
  ASSUME Types
  PROVE  format \in AnyFormat
  <1>1. DefaultFormat \in AnyFormat
    BY DEF DefaultFormat, AnyFormat
  <1>2. \A f \in Format : f \in AnyFormat
    BY Options DEF Format, AnyFormat
  <1> QED
    BY <1>1, <1>2 DEF Types, SettingsIn, format

(* Every sequence has the form it should. *)
LEMMA EveryShape ==
  ASSUME Types, NEW r \in BOOLEAN
  PROVE  Shaped(r) /\ ShapeSound(Shape(r), r)
  <1>1. /\ driver \in {"CdcAcm", "CP210X", "CH34X", "FT23XX", "PL2303"}
        /\ index \in 0 .. 3
        /\ driver \in {"CdcAcm", "PL2303"} => index = 0
    BY StaticFacts DEF Types
  <1>2. CASE driver = "CdcAcm"
    BY <1>2, CdcAcmShape, CdcAcmSound
  <1>3. CASE driver = "CP210X"
    BY <1>3, CP210XShape, CP210XSound
  <1>4. CASE driver = "CH34X"
    <2>1. ~Ch34xRejected(baud_rate)
      BY <1>4, BaudRange, Ch34xAccepts, SMT
    <2> QED
      BY <1>1, <1>4, <2>1, CH34XShape, CH34XSound
  <1>5. CASE driver = "FT23XX"
    BY <1>1, <1>5, FT23XXShape, FT23XXSound
  <1>6. CASE driver = "PL2303"
    BY <1>1, <1>6, PL2303Shape, PL2303Sound
  <1> QED
    BY <1>1, <1>2, <1>3, <1>4, <1>5, <1>6

(* The settings do not change the shape, nor does anything else that may   *)
(* change while a channel is configured.                                   *)
LEMMA ShapeSame ==
  ASSUME UNCHANGED <<driver, index, chip_type>>
  PROVE  \A r \in BOOLEAN : Shape(r)' = Shape(r)
  BY DEF Shape

(* The same holds of the steps as long as the settings stay. *)
LEMMA StepsSame ==
  ASSUME UNCHANGED <<driver, index, chip_type, settings>>
  PROVE  \A r \in BOOLEAN : Steps(r)' = Steps(r)
  <1> SUFFICES ASSUME NEW r \in BOOLEAN PROVE Steps(r)' = Steps(r)
    OBVIOUS
  <1>1. CdcAcmSteps(r)' = CdcAcmSteps(r)
    BY DEF CdcAcmSteps, format, baud_rate
  <1>2. CP210XSteps(r)' = CP210XSteps(r)
    BY DEF CP210XSteps, format, baud_rate
  <1>3. CH34XSteps(r)' = CH34XSteps(r)
    BY DEF CH34XSteps, Ch34xLine, format, baud_rate
  <1>4. FT23XXSteps(r)' = FT23XXSteps(r)
    BY DEF FT23XXSteps, format, baud_rate
  <1>5. PL2303Steps(r)' = PL2303Steps(r)
    BY DEF PL2303Steps, PL2303_INIT, format, baud_rate
  <1> QED
    BY <1>1, <1>2, <1>3, <1>4, <1>5 DEF Steps

(* What a transfer to the port of the channel does to the registers.       *)
ExecutedAs(t, R) ==
  /\ Record(R)
  /\ regs.ready => R.ready
  /\ t.request \in Starters => R.ready
  /\ t.request = "vendor_write" /\ t.value = 2 /\ t.idx = VendorIndex(chip.type) => R.ready
  /\ t.request \notin Starters /\ regs.modem => R.modem
  /\ t.request \in Handshakes => R.modem
  /\ t.request \notin Starters \cup RateSetters => R.rate = regs.rate
  /\ t.request \notin Starters \cup LineSetters => R.line = regs.line
  /\ Applied(R, t)

(* Executed does that, whatever the request. *)
LEMMA ExecutedFields ==
  ASSUME Record(regs), NEW t, PortOf(t) = index, t.request \in Requests
  PROVE  ExecutedAs(t, Executed(t))
  <1> USE DEF Record, Starters, Handshakes, RateSetters, LineSetters, Applied, ExecutedAs
  <1>1. CASE t.request \in {"reset", "ifc_enable"}
    <2>1. Executed(t) = [ready |-> TRUE, modem |-> FALSE, rate |-> <<>>, line |-> <<>>]
      BY <1>1, Zenon DEF Executed
    <2> QED
      BY <1>1, <2>1
  <1>2. CASE t.request = "vendor_write"
    <2>1. Executed(t) = [regs EXCEPT !.ready =
            @ \/ (t.value = 2 /\ t.idx = IF chip.type = "H" THEN 36 ELSE 68)]
      BY <1>2, Zenon DEF Executed
    <2> QED
      BY <1>2, <2>1 DEF VendorIndex
  <1>3. CASE t.request \in {"modem", "control_line", "handshake"}
    <2>1. Executed(t) = [regs EXCEPT !.modem = TRUE]
      BY <1>3, Zenon DEF Executed
    <2> QED
      BY <1>3, <2>1
  <1>4. CASE t.request = "baudrate"
    <2>1. Executed(t) = [regs EXCEPT !.rate = <<t.value, t.idx>>]
      BY <1>4, Zenon DEF Executed
    <2> QED
      BY <1>4, <2>1
  <1>5. CASE t.request \in {"line", "line_ctl"}
    <2>1. Executed(t) = [regs EXCEPT !.line = <<t.value>>]
      BY <1>5, Zenon DEF Executed
    <2> QED
      BY <1>5, <2>1
  <1>6. CASE t.request = "line_coding"
    <2>1. Executed(t) = [regs EXCEPT !.rate = <<t.value, 0>>, !.line = <<t.idx>>]
      BY <1>6, Zenon DEF Executed
    <2> QED
      BY <1>6, <2>1
  <1>7. CASE t.request = "serial_init"
    <2>1. Executed(t) = [regs EXCEPT !.rate = <<0, t.idx>>, !.line = <<t.value>>]
      BY <1>7, Zenon DEF Executed
    <2> QED
      BY <1>7, <2>1
  <1>8. CASE t.request = "vendor_read"
    <2>1. Executed(t) = regs
      BY <1>8, Zenon DEF Executed
    <2> QED
      BY <1>8, <2>1
  <1> QED
    BY <1>1, <1>2, <1>3, <1>4, <1>5, <1>6, <1>7, <1>8 DEF Requests

(* A sequence has between one and thirteen steps. *)
LEMMA ShapeLengths ==
  ASSUME Types
  PROVE  \A r \in BOOLEAN : Len(Shape(r)) \in 1 .. 13 /\ Len(Steps(r)) = Len(Shape(r))
  BY EveryShape DEF Shaped, ShapeSound

(* The type invariant that the runs check follows. *)
LEMMA InvTypeOK == Inv => TypeOK
  <1> SUFFICES ASSUME Inv PROVE TypeOK
    OBVIOUS
  <1>1. Len(PL2303_INIT) = 11
    BY DEF PL2303_INIT
  <1>2. \A r \in BOOLEAN : Len(Shape(r)) \in 1 .. 13 /\ Len(Steps(r)) = Len(Shape(r))
    BY ShapeLengths DEF Inv
  <1>3. active \in BOOLEAN /\ reload \in BOOLEAN /\ device_phase \in BOOLEAN /\ step \in Nat
    BY DEF Inv, Types, Flags
  <1>4. active => step <= Len(Steps(reload)) + 1
    <2>1. CASE device_phase /\ active
      <3>1. step <= 1
        BY <2>1 DEF Inv, Control
      <3> QED
        BY <1>2, <1>3, <3>1
    <2>2. CASE ~device_phase /\ active
      BY <1>2, <1>3, <2>2 DEF Inv, Control
    <2> QED
      BY <1>3, <2>1, <2>2
  <1>5. ~active => step = 0
    BY DEF Inv, Control
  <1>6. step <= 15
    <2>1. Len(Steps(reload)) \in 1 .. 13
      BY <1>2, <1>3
    <2> DEFINE n == Len(Steps(reload))
    <2> HIDE DEF n
    <2>2. n \in 1 .. 13 /\ (active => step <= n + 1)
      BY ONLY <1>4, <2>1 DEF n
    <2> QED
      BY ONLY <1>3, <1>5, <2>2
  <1>7. step \in 0 .. Len(PL2303_INIT) + 4
    BY <1>1, <1>3, <1>6
  <1> QED
    BY <1>4, <1>7 DEF Inv, Types, SettingsIn, Flags, StaticOK, TypeOK

(* parse_descriptors finds the type of every chip the family has. *)
LEMMA Detected ==
  ASSUME StaticOK, NEW c \in Chips, c.driver = driver
  PROVE  /\ driver = "FT23XX" => DetectedType(c) = c.type /\ c.type \in FtdiTypes
         /\ driver = "PL2303" => DetectedType(c) = c.type /\ c.type \in Pl2303Types
         /\ driver \notin {"FT23XX", "PL2303"} => DetectedType(c) = chip_type /\ c.type = "any"
  <1>1. c \in FtdiChips \cup Pl2303Chips
           \cup {Chip(d, "any", 512, 256, TRUE) : d \in {"CdcAcm", "CP210X", "CH34X"}}
    BY Zenon DEF Chips
  <1>2. ASSUME c \in FtdiChips
        PROVE  c.driver = "FT23XX" /\ FtdiType(c) = c.type /\ c.type \in FtdiTypes
    <2> DEFINE types == {<<"AM", 512>>, <<"BM", 1024>>, <<"2232C", 1280>>, <<"R", 1536>>,
            <<"2232H", 1792>>, <<"4232H", 2048>>, <<"232H", 2304>>, <<"230X", 4096>>}
               bare == [Chip("FT23XX", "BM", 512, 512, TRUE) EXCEPT !.serial = FALSE]
    <2>3. FtdiChips = {Chip("FT23XX", t[1], 512, t[2], TRUE) : t \in types} \cup {bare}
      BY DEF FtdiChips
    <2>5. \A t \in types : \/ t[1] = "AM" /\ t[2] = 512
                           \/ t[1] = "BM" /\ t[2] = 1024
                           \/ t[1] = "2232C" /\ t[2] = 1280
                           \/ t[1] = "R" /\ t[2] = 1536
                           \/ t[1] = "2232H" /\ t[2] = 1792
                           \/ t[1] = "4232H" /\ t[2] = 2048
                           \/ t[1] = "232H" /\ t[2] = 2304
                           \/ t[1] = "230X" /\ t[2] = 4096
      BY SMT
    <2> HIDE DEF types, bare
    <2>1. CASE c = bare
      <3>1. c.driver = "FT23XX" /\ c.type = "BM" /\ c.bcdDevice = 512 /\ ~c.serial
        BY <2>1, SMT DEF Chip, bare
      <3> QED
        BY <3>1, SMT DEF FtdiType, FtdiKnown, FtdiTypes, FtdiB
    <2>2. CASE \E t \in types : c = Chip("FT23XX", t[1], 512, t[2], TRUE)
      <3>1. c.driver = "FT23XX" /\ c.serial
        BY <2>2, SMT DEF Chip
      <3>2. \/ c.type = "AM" /\ c.bcdDevice = 512
            \/ c.type = "BM" /\ c.bcdDevice = 1024
            \/ c.type = "2232C" /\ c.bcdDevice = 1280
            \/ c.type = "R" /\ c.bcdDevice = 1536
            \/ c.type = "2232H" /\ c.bcdDevice = 1792
            \/ c.type = "4232H" /\ c.bcdDevice = 2048
            \/ c.type = "232H" /\ c.bcdDevice = 2304
            \/ c.type = "230X" /\ c.bcdDevice = 4096
        BY <2>2, <2>5, SMT DEF Chip
      <3>3. FtdiType(c) = c.type
        BY <3>1, <3>2, SMT DEF FtdiType, FtdiKnown
      <3>4. c.type \in FtdiTypes
        BY <3>2, SMT DEF FtdiTypes, FtdiB, FtdiH
      <3> QED
        BY <3>1, <3>3, <3>4
    <2>4. c = bare \/ \E t \in types : c = Chip("FT23XX", t[1], 512, t[2], TRUE)
      BY ONLY <1>2, <2>3
    <2> QED
      BY ONLY <2>1, <2>2, <2>4
  <1>3. ASSUME c \in Pl2303Chips
        PROVE  c.driver = "PL2303" /\ Pl2303Type(c) = c.type /\ c.type \in Pl2303Types
    <2>1. /\ c.driver = "PL2303"
          /\ \/ c.type = "H" /\ c.bcdUSB = 272 /\ c.bcdDevice = 512 /\ ~c.plain
             \/ c.type = "HX" /\ c.bcdUSB = 272 /\ c.bcdDevice = 768 /\ c.plain
             \/ c.type = "HXD" /\ c.bcdUSB = 272 /\ c.bcdDevice = 1024 /\ c.plain
             \/ c.type = "TA" /\ c.bcdUSB = 512 /\ c.bcdDevice = 768 /\ c.plain
             \/ c.type = "TB" /\ c.bcdUSB = 512 /\ c.bcdDevice = 1280 /\ c.plain
             \/ c.type = "HXN" /\ c.bcdUSB = 512 /\ c.bcdDevice = 256 /\ c.plain
      BY <1>3, SMT DEF Pl2303Chips, Chip
    <2> QED
      BY <2>1, SMT DEF Pl2303Type, Pl2303Types
  <1>5. driver = "FT23XX" => DetectedType(c) = FtdiType(c)
    BY Zenon DEF DetectedType
  <1>6. driver = "PL2303" => DetectedType(c) = Pl2303Type(c)
    BY Zenon DEF DetectedType
  <1>7. driver \notin {"FT23XX", "PL2303"} => DetectedType(c) = chip_type
    BY Zenon DEF DetectedType
  <1> QED
    <2>1. CASE c \in FtdiChips
      BY <1>2, <1>5, <2>1
    <2>2. CASE c \in Pl2303Chips
      BY <1>3, <1>6, <2>2
    <2>3. CASE \E d \in {"CdcAcm", "CP210X", "CH34X"} : c = Chip(d, "any", 512, 256, TRUE)
      <3> PICK d \in {"CdcAcm", "CP210X", "CH34X"} : c = Chip(d, "any", 512, 256, TRUE)
        BY <2>3, Zenon
      <3>1. c.driver = d /\ c.type = "any"
        BY SMT DEF Chip
      <3> QED
        BY <1>7, <3>1
    <2>4. \/ c \in FtdiChips \/ c \in Pl2303Chips
          \/ \E d \in {"CdcAcm", "CP210X", "CH34X"} : c = Chip(d, "any", 512, 256, TRUE)
      BY ONLY <1>1, ZenonT(60)
    <2> QED
      BY ONLY <2>1, <2>2, <2>3, <2>4

------------------------------------------------------------------------------
(* At the end of a sequence the registers hold the settings. *)

(* The digits of the line registers can be told apart again. *)
LEMMA LineDigits ==
  ASSUME NEW f \in AnyFormat
  PROVE  /\ LET v == f.stop_bits + f.parity * 16 + f.data_bits * 256
            IN  v \div 256 = f.data_bits /\ (v \div 16) % 16 = f.parity /\ v % 16 = f.stop_bits
         /\ LET v == f.data_bits + f.parity * 256 + f.stop_bits * 2048
            IN  v % 256 = f.data_bits /\ (v \div 256) % 8 = f.parity /\ v \div 2048 = f.stop_bits
         /\ f = [data_bits |-> f.data_bits, parity |-> f.parity, stop_bits |-> f.stop_bits]
  <1> USE DEF AnyFormat
  <1>1. f.data_bits \in 5 .. 8 /\ f.parity \in 0 .. 4 /\ f.stop_bits \in 0 .. 2
    OBVIOUS
  <1>2. f = [data_bits |-> f.data_bits, parity |-> f.parity, stop_bits |-> f.stop_bits]
    OBVIOUS
  <1> DEFINE d == f.data_bits
             p == f.parity
             s == f.stop_bits
  <1> HIDE DEF d, p, s
  <1>3. d \in 5 .. 8 /\ p \in 0 .. 4 /\ s \in 0 .. 2
    BY <1>1 DEF d, p, s
  <1>4. LET v == s + p * 16 + d * 256
        IN  v \div 256 = d /\ (v \div 16) % 16 = p /\ v % 16 = s
    BY ONLY <1>3
  <1>5. LET v == d + p * 256 + s * 2048
        IN  v % 256 = d /\ (v \div 256) % 8 = p /\ v \div 2048 = s
    BY ONLY <1>3
  <1> QED
    BY ONLY <1>2, <1>4, <1>5 DEF d, p, s

(* So can those of a CH34x, which makes one stop bit of one and a half. *)
LEMMA Ch34xDigits ==
  ASSUME Types
  PROVE  LET v == Ch34xLine * 256 + 140
             w == v \div 256
         IN  /\ (w % 4) + 5 = format.data_bits
             /\ (IF (w \div 8) % 2 = 0 THEN 0 ELSE ((w \div 16) % 4) + 1) = format.parity
             /\ (IF (w \div 4) % 2 = 0 THEN 0 ELSE 2) =
                  (IF format.stop_bits = 1 THEN 0 ELSE format.stop_bits)
  <1>1. format \in AnyFormat
    BY FormatFacts
  <1> DEFINE d == format.data_bits
             p == format.parity
             s == format.stop_bits
             w == Ch34xLine
  <1>2. d \in 5 .. 8 /\ p \in 0 .. 4 /\ s \in 0 .. 2
    BY <1>1 DEF AnyFormat
  <1>3. w = 192 + (IF s = 2 THEN 4 ELSE 0) + (IF p = 0 THEN 0 ELSE 8 + (p - 1) * 16) + d - 5
    BY DEF Ch34xLine
  <1> HIDE DEF d, p, s, w
  <1>4. w \in Nat /\ (w * 256 + 140) \div 256 = w
    BY ONLY <1>2, <1>3
  <1>5. /\ (w % 4) + 5 = d
        /\ (IF (w \div 8) % 2 = 0 THEN 0 ELSE ((w \div 16) % 4) + 1) = p
        /\ (IF (w \div 4) % 2 = 0 THEN 0 ELSE 2) = (IF s = 1 THEN 0 ELSE s)
    BY ONLY <1>2, <1>3
  <1> QED
    BY ONLY <1>4, <1>5 DEF d, p, s, w

(* What the settings requests leave in the registers. *)
LEMMA AppliedFields ==
  ASSUME NEW R, NEW to, NEW v, NEW i
  PROVE  /\ Applied(R, Transfer("line_coding", to, v, i)) => R.rate = <<v, 0>> /\ R.line = <<i>>
         /\ Applied(R, Transfer("serial_init", to, v, i)) => R.rate = <<0, i>> /\ R.line = <<v>>
         /\ Applied(R, Transfer("baudrate", to, v, i)) => R.rate = <<v, i>>
         /\ Applied(R, Transfer("line", to, v, i)) => R.line = <<v>>
         /\ Applied(R, Transfer("line_ctl", to, v, i)) => R.line = <<v>>
  BY Fields DEF Applied

(* A register that has been set is not empty. *)
LEMMA Nonempty ==
  /\ \A a : <<a>> # <<>>
  /\ \A a, b : <<a, b>> # <<>>
  OBVIOUS

(* Every step of the sequence has been executed with the settings of now. *)
AllApplied(r) == \A k \in 1 .. Len(Steps(r)) : Applied(regs, Steps(r)[k])

(* The CDC class: the rate is sent as it is. *)
LEMMA CdcAcmSettled ==
  ASSUME Types, driver = "CdcAcm", NEW r \in BOOLEAN, AllApplied(r)
  PROVE  Settled
  <1>1. CdcAcmSet(r)
    BY CdcAcmShape
  <1>2. regs.rate = <<encode_baud_direct(baud_rate), 0>> /\ regs.line = <<format>>
    BY <1>1, AppliedFields DEF CdcAcmSet, AllApplied
  <1>3. DirectBaud(encode_baud_direct(baud_rate)) = baud_rate
    BY BaudRange, DirectExact, SMT
  <1>4. DirectBaud(regs.rate[1]) = baud_rate
    BY ONLY <1>2, <1>3
  <1>5. RateMatches
    BY <1>4, Zenon DEF RateMatches
  <1>6. regs.line[1] = format
    BY ONLY <1>2
  <1>7. LineFormat = format
    BY <1>6, SMT DEF LineFormat
  <1>8. WantedFormat = format
    BY Zenon DEF WantedFormat
  <1> QED
    BY <1>2, <1>5, <1>7, <1>8, Nonempty DEF Settled

(* CP210x: so it is, and the format digit by digit. *)
LEMMA CP210XSettled ==
  ASSUME Types, driver = "CP210X", NEW r \in BOOLEAN, AllApplied(r)
  PROVE  Settled
  <1> DEFINE line == format.stop_bits + format.parity * 16 + format.data_bits * 256
  <1>1. CP210XSet(r)
    BY CP210XShape
  <1>2. regs.rate = <<encode_baud_direct(baud_rate), 0>> /\ regs.line = <<line>>
    BY <1>1, AppliedFields DEF CP210XSet, AllApplied
  <1>3. DirectBaud(encode_baud_direct(baud_rate)) = baud_rate
    BY BaudRange, DirectExact, SMT
  <1>4. DirectBaud(regs.rate[1]) = baud_rate
    BY ONLY <1>2, <1>3
  <1>5. RateMatches
    BY <1>4, Zenon DEF RateMatches
  <1>6. regs.line[1] = line
    BY ONLY <1>2
  <1>7. /\ line \div 256 = format.data_bits /\ (line \div 16) % 16 = format.parity
        /\ line % 16 = format.stop_bits
        /\ format = [data_bits |-> format.data_bits, parity |-> format.parity,
                     stop_bits |-> format.stop_bits]
    BY FormatFacts, LineDigits
  <1> HIDE DEF line
  <1>8. LineFormat = [data_bits |-> line \div 256, parity |-> (line \div 16) % 16,
                      stop_bits |-> line % 16]
    BY <1>6 DEF LineFormat
  <1>9. LineFormat = format
    BY ONLY <1>7, <1>8
  <1>10. WantedFormat = format
    BY Zenon DEF WantedFormat
  <1> QED
    BY <1>2, <1>5, <1>9, <1>10, Nonempty DEF Settled

(* CH34x: the nearest factor of the best prescaler. *)
LEMMA CH34XSettled ==
  ASSUME Types, driver = "CH34X", NEW r \in BOOLEAN, AllApplied(r)
  PROVE  Settled
  <1> DEFINE line == Ch34xLine * 256 + 140
             factor == Ch34xFactor(baud_rate)
             prescaler == Ch34xPrescaler(baud_rate)
             rate == factor * 256 + prescaler
  <1>1. baud_rate \in Nat /\ 300 <= baud_rate /\ baud_rate <= 2000000
    BY BaudRange, SMT
  <1>2. /\ ~Ch34xRejected(baud_rate)
        /\ prescaler \in {0, 1, 2, 3, 7} /\ factor \in 1 .. 255
    BY <1>1, Ch34xAccepts, SMT
  <1>3. Ch34xNearest(prescaler, factor, baud_rate)
    BY <1>1, Ch34xTakesNearest, SMT
  <1>4. CH34XSet(r)
    BY <1>2, CH34XShape
  <1>5. regs.rate = <<0, rate>> /\ regs.line = <<line>>
    BY <1>4, AppliedFields DEF CH34XSet, AllApplied
  <1>6. LET w == line \div 256
        IN  /\ (w % 4) + 5 = format.data_bits
            /\ (IF (w \div 8) % 2 = 0 THEN 0 ELSE ((w \div 16) % 4) + 1) = format.parity
            /\ (IF (w \div 4) % 2 = 0 THEN 0 ELSE 2) =
                 (IF format.stop_bits = 1 THEN 0 ELSE format.stop_bits)
    BY Ch34xDigits
  <1> HIDE DEF line, factor, prescaler
  <1>7. rate % 256 = prescaler /\ rate \div 256 = factor
    BY ONLY <1>2
  <1> HIDE DEF rate
  <1>8. regs.rate[2] = rate /\ regs.line[1] = line
    BY ONLY <1>5
  <1>9. RateMatches
    BY <1>3, <1>7, <1>8, Zenon DEF RateMatches
  <1>10. LineFormat = LET w == line \div 256 IN
           [data_bits |-> (w % 4) + 5,
            parity |-> IF (w \div 8) % 2 = 0 THEN 0 ELSE ((w \div 16) % 4) + 1,
            stop_bits |-> IF (w \div 4) % 2 = 0 THEN 0 ELSE 2]
    BY <1>8, SMT DEF LineFormat
  <1>11. format = [data_bits |-> format.data_bits, parity |-> format.parity,
                   stop_bits |-> format.stop_bits]
    BY FormatFacts, LineDigits
  <1>12. WantedFormat = IF format.stop_bits = 1 THEN [format EXCEPT !.stop_bits = 0] ELSE format
    BY DEF WantedFormat
  <1>13. WantedFormat = [data_bits |-> format.data_bits, parity |-> format.parity,
                         stop_bits |-> IF format.stop_bits = 1 THEN 0 ELSE format.stop_bits]
    BY ONLY <1>11, <1>12
  <1>14. LineFormat = WantedFormat
    BY ONLY <1>6, <1>10, <1>13
  <1> QED
    BY <1>5, <1>9, <1>14, Nonempty DEF Settled

(* FTDI: the nearest divisor, up to the third bit for the eighths.         *)
LEMMA FT23XXSettled ==
  ASSUME Types, Known, chip # NoChip, driver = "FT23XX", NEW r \in BOOLEAN, AllApplied(r)
  PROVE  Settled
  <1> DEFINE line == format.data_bits + format.parity * 256 + format.stop_bits * 2048
             c == ftdi_convert_baudrate(baud_rate, chip_type, index)
             high == c.index \div 256
             third == FtdiThirdBit(chip_type, index + 1, high)
             clock == IF (high \div 2) % 2 = 1 THEN 12000000 ELSE 3000000
  <1>1. FT23XXSet(r)
    BY FT23XXShape
  <1>2. regs.rate = <<c.value, high>> /\ regs.line = <<line>>
    BY <1>1, AppliedFields DEF FT23XXSet, AllApplied
  <1>3. /\ chip_type = chip.type /\ chip_type \in FtdiTypes
        /\ baud_rate \in Nat /\ 300 <= baud_rate
        /\ index \in 0 .. 3
    <2>1. StaticOK /\ chip \in Chips /\ chip.driver = driver /\ chip_type = chip.type
      BY DEF Types, Known
    <2> QED
      BY <2>1, Detected, StaticFacts, BaudRange, SMT
  <1>4. \/ FtdiNearestCode(c.value + third * 65536, baud_rate, chip_type, clock)
        \/ /\ chip_type \in FtdiB /\ third # EncodedDivisor(baud_rate, chip_type) \div 65536
           /\ FtdiNearestCode(c.value + (1 - third) * 65536, baud_rate, chip_type, clock)
    <2>1. SentMatches(baud_rate, chip_type, index)
      BY ONLY <1>3, FtdiSent
    <2> QED
      BY ONLY <2>1, SMT DEF SentMatches
  <1> HIDE DEF line, c
  <1>5. regs.rate[1] = c.value /\ regs.rate[2] = high
    BY ONLY <1>2
  <1>6. ThirdBit = third /\ FtdiClock = clock
    BY ONLY <1>3, <1>5 DEF ThirdBit, FtdiClock
  <1> HIDE DEF third, clock
  <1>7. ThirdBitSpoiled \/ RateMatches
    <2>1. CASE FtdiNearestCode(c.value + third * 65536, baud_rate, chip_type, clock)
      <3>1. FtdiNearestCode(FtdiCode, baud_rate, chip.type, FtdiClock)
        BY ONLY <1>3, <1>5, <1>6, <2>1 DEF FtdiCode
      <3> QED
        BY <3>1, Zenon DEF RateMatches
    <2>2. CASE /\ chip_type \in FtdiB /\ third # EncodedDivisor(baud_rate, chip_type) \div 65536
               /\ FtdiNearestCode(c.value + (1 - third) * 65536, baud_rate, chip_type, clock)
      <3>1. FtdiNearestCode(regs.rate[1] + (1 - ThirdBit) * 65536, baud_rate, chip.type, FtdiClock)
        BY ONLY <1>3, <1>5, <1>6, <2>2
      <3> QED
        BY ONLY driver = "FT23XX", <1>3, <1>6, <2>2, <3>1 DEF ThirdBitSpoiled
    <2> QED
      BY ONLY <1>4, <2>1, <2>2
  <1>8. regs.line[1] = line
    BY ONLY <1>2
  <1>9. /\ line % 256 = format.data_bits /\ (line \div 256) % 8 = format.parity
        /\ line \div 2048 = format.stop_bits
        /\ format = [data_bits |-> format.data_bits, parity |-> format.parity,
                     stop_bits |-> format.stop_bits]
    BY FormatFacts, LineDigits DEF line
  <1>10. LineFormat = [data_bits |-> line % 256, parity |-> (line \div 256) % 8,
                       stop_bits |-> line \div 2048]
    BY <1>8, SMT DEF LineFormat
  <1>11. LineFormat = format
    BY ONLY <1>9, <1>10
  <1>12. WantedFormat = format
    BY Zenon DEF WantedFormat
  <1> QED
    BY <1>2, <1>7, <1>11, <1>12, Nonempty DEF Settled

(* PL2303: the rate itself or a divisor close to it. *)
LEMMA PL2303Settled ==
  ASSUME Types, Known, chip # NoChip, driver = "PL2303", NEW r \in BOOLEAN, AllApplied(r)
  PROVE  Settled
  <1> DEFINE bytes == Pl2303Baud(baud_rate, chip_type)
             coded == [format EXCEPT !.stop_bits = IF @ = 2 THEN 2 ELSE 0]
  <1>1. /\ chip_type = chip.type /\ chip_type \in Pl2303Types
        /\ baud_rate \in Nat /\ 300 <= baud_rate /\ baud_rate <= 6000000
        /\ index = 0
    <2>1. StaticOK /\ chip \in Chips /\ chip.driver = driver /\ chip_type = chip.type
      BY DEF Types, Known
    <2> QED
      BY <2>1, Detected, StaticFacts, BaudRange, SMT
  <1>2. PL2303Set(r)
    BY <1>1, PL2303Shape
  <1>3. regs.rate = <<bytes, 0>> /\ regs.line = <<coded>>
    BY <1>2, AppliedFields DEF PL2303Set, AllApplied
  <1>4. Pl2303Close(bytes, chip_type, baud_rate)
    BY <1>1, Pl2303BaudClose, SMT
  <1> HIDE DEF bytes
  <1>5. regs.rate[1] = bytes
    BY ONLY <1>3
  <1>6. RateMatches
    <2>1. Pl2303Close(regs.rate[1], chip.type, baud_rate)
      BY ONLY <1>1, <1>4, <1>5
    <2> QED
      BY <2>1, Zenon DEF RateMatches
  <1>7. format \in AnyFormat
    BY FormatFacts
  <1>8. LineFormat = coded
    <2> HIDE DEF coded
    <2>1. regs.line[1] = coded
      BY ONLY <1>3
    <2> QED
      BY <2>1, SMT DEF LineFormat
  <1>9. WantedFormat = IF format.stop_bits = 1 THEN [format EXCEPT !.stop_bits = 0] ELSE format
    BY DEF WantedFormat
  <1>10. WantedFormat = coded
    BY ONLY <1>7, <1>9 DEF AnyFormat
  <1> QED
    BY <1>3, <1>6, <1>8, <1>10, Nonempty DEF Settled

(* When every step of a sequence has been applied, the chip runs with the  *)
(* settings. *)
LEMMA SettledByAll ==
  ASSUME Types, Known, chip # NoChip, NEW r \in BOOLEAN, AllApplied(r)
  PROVE  Settled
  BY CdcAcmSettled, CP210XSettled, CH34XSettled, FT23XXSettled, PL2303Settled,
     StaticFacts DEF Types

------------------------------------------------------------------------------
(* The invariant is inductive. *)

(* Blurring keeps the request and the port. *)
LEMMA BlurKeeps ==
  \A t : /\ Blur(t).request = t.request
         /\ Blur(t).to = t.to
         /\ t.request = "vendor_write" => Blur(t) = t
  BY Fields DEF Blur

(* The port depends on one field only. *)
LEMMA PortByTo ==
  ASSUME NEW t, NEW u, t.to = u.to
  PROVE  PortOf(t) = PortOf(u)
  <1>1. CASE driver = "CH34X"
    <2>1. \A x : PortOf(x) = CHOOSE q \in 0 .. 3 : x.to \in {Ch34xCommand(q), Ch34xCommand(q) + 3}
      BY <1>1, Zenon DEF PortOf
    <2> QED
      BY <2>1
  <1>2. CASE driver = "FT23XX"
    <2>1. \A x : PortOf(x) = x.to - 1
      BY <1>2, Zenon DEF PortOf
    <2> QED
      BY <2>1
  <1>3. CASE driver \notin {"CH34X", "FT23XX"}
    <2>1. \A x : PortOf(x) = x.to
      BY <1>3, Zenon DEF PortOf
    <2> QED
      BY <2>1
  <1> QED
    BY <1>1, <1>2, <1>3

(* Settled looks at the settings, the chip and its registers. *)
LEMMA SettledSame ==
  ASSUME UNCHANGED <<config, regs, chip, settings>>
  PROVE  Settled' = Settled
  BY SMT DEF Settled, ThirdBitSpoiled, RateMatches, ThirdBit, FtdiCode, FtdiClock,
     LineFormat, WantedFormat, config,
     baud_rate, format

(* The vendor sequence is that for the chip which is there. *)
LEMMA ChipKnown ==
  ASSUME Types, Known, chip # NoChip
  PROVE  VendorIndex(chip_type) = VendorIndex(chip.type)
  <1>1. StaticOK /\ chip \in Chips /\ chip.driver = driver
    BY DEF Types, Known
  <1>2. CASE driver \in {"FT23XX", "PL2303"}
    BY <1>2 DEF Known
  <1>3. CASE driver \notin {"FT23XX", "PL2303"}
    <2>1. chip.type = "any"
      BY <1>1, <1>3, Detected
    <2>2. chip_type = "unknown"
      BY <1>3 DEF Known
    <2> QED
      BY <2>1, <2>2 DEF VendorIndex
  <1> QED
    BY <1>2, <1>3

(* The registers when the power comes. *)
LEMMA RecordPowerOn ==
  ASSUME NEW c
  PROVE  /\ Record(PowerOn(c))
         /\ c.driver \in {"CdcAcm", "CH34X"} \/ c.type = "HXN" => PowerOn(c).ready
  BY DEF Record, PowerOn

(* The limit of a driver is a number. *)
LEMMA MaxBaudNat ==
  ASSUME StaticOK
  PROVE  MaxBaud(driver) \in Nat
  <1>1. driver \in {"CdcAcm", "CP210X", "CH34X", "FT23XX", "PL2303"}
    BY StaticFacts
  <1> QED
    BY <1>1, SMT DEF MaxBaud

(* The rates start at that of the schema. *)
LEMMA BaudsFrom300 ==
  \A b \in Bauds \cup NewBauds : b \in Nat /\ 300 <= b
  <1>1. \A b \in Bauds \cup NewBauds : b \in SchemaBauds
    BY SettingsAssumption
  <1> QED
    BY <1>1, SMT DEF SchemaBauds

(* The invariant holds before any device has come, ... *)
LEMMA InitInv == Init => Inv
  <1> SUFFICES ASSUME Init PROVE Inv
    OBVIOUS
  <1>1. StaticOK
    BY DEF Init, StaticOK
  <1>2. Idle
    BY DEF Init, Idle, NoTransfer, Transfer
  <1>3. Types
    <2>1. PICK b \in Bauds : /\ b <= MaxBaud(driver)
                             /\ settings = [baud_rate |-> b, format |-> DefaultFormat]
      BY DEF Init
    <2>2. b \in Nat /\ 300 <= b /\ MaxBaud(driver) \in Nat
      BY <1>1, BaudsFrom300, MaxBaudNat
    <2>3. settings.baud_rate \in 300 .. MaxBaud(driver)
      BY ONLY <2>1, <2>2
    <2>4. settings.format \in Format \cup {DefaultFormat}
      BY <2>1
    <2> QED
      BY <1>1, <2>3, <2>4, RecordPowerOn DEF Init, Types, SettingsIn, Flags
  <1>4. Known
    BY DEF Init, Known
  <1>5. Control
    BY <1>2 DEF Init, Control
  <1>6. Registers
    BY DEF Init, Registers
  <1> QED
    BY <1>3, <1>4, <1>5, <1>6 DEF Inv

(* ... and every action keeps it: Connect. *)
LEMMA ConnectInv ==
  ASSUME Inv, NEW c \in Chips, Connect(c)
  PROVE  Inv'
  <1> USE DEF Inv
  <1>1. Types'
    <2>1. Flags' /\ step' \in Nat
      BY DEF Types, Flags, Connect, FirstStep
    <2>2. StaticOK' /\ SettingsIn'
      BY DEF Types, Connect, config, StaticOK, SettingsIn
    <2>3. chip' = c /\ regs' = PowerOn(c)
      BY DEF Connect
    <2> QED
      BY <2>1, <2>2, <2>3, RecordPowerOn DEF Types
  <1>2. /\ driver = "FT23XX" => chip_type' = c.type
        /\ driver = "PL2303" => chip_type' = c.type
        /\ driver \notin {"FT23XX", "PL2303"} => chip_type' = chip_type
    BY Detected DEF Connect, Types
  <1>3. /\ chip' = c /\ c.driver = driver /\ driver' = driver /\ c # NoChip
        /\ regs' = PowerOn(c)
    <2>1. NoChip.driver = "none"
      BY DEF NoChip, Chip
    <2>2. driver # "none"
      BY StaticFacts DEF Types
    <2> QED
      BY <2>1, <2>2 DEF Connect, config
  <1>4. Known'
    BY <1>2, <1>3 DEF Known
  <1>5. Control'
    <2>1. Idle'
      BY DEF Connect, Idle
    <2> QED
      BY <2>1 DEF Control, Connect, FirstStep
  <1>6. Registers'
    <2>1. BornReady' => regs'.ready
      BY <1>2, <1>3, RecordPowerOn DEF BornReady, Known
    <2> QED
      BY <2>1 DEF Registers, Connect
  <1> QED
    BY <1>1, <1>4, <1>5, <1>6

(* What a step that leaves the driver and the channel alone keeps. *)
LEMMA TypesKept ==
  ASSUME Types, UNCHANGED <<driver, index>>
  PROVE  /\ StaticOK'
         /\ UNCHANGED settings => SettingsIn'
         /\ settings'.baud_rate \in 300 .. MaxBaud(driver) /\ settings'.format \in Format => SettingsIn'
         /\ UNCHANGED regs => Record(regs)'
  <1>1. StaticOK'
    BY DEF Types, StaticOK
  <1>2. UNCHANGED regs => Record(regs)'
    BY DEF Types, Record
  <1>3. UNCHANGED settings => SettingsIn'
    BY DEF Types, SettingsIn
  <1>4. settings'.baud_rate \in 300 .. MaxBaud(driver) /\ settings'.format \in Format => SettingsIn'
    BY DEF SettingsIn
  <1> QED
    BY ONLY <1>1, <1>2, <1>3, <1>4

(* The device goes; a transfer on its way stays. *)
LEMMA DisconnectInv ==
  ASSUME Inv, Disconnect
  PROVE  Inv'
  <1> USE DEF Inv
  <1>1. UNCHANGED <<driver, index, chip_type, settings, machine, in_flight, regs>>
    BY DEF Disconnect, config
  <1>2. \A r \in BOOLEAN : Shape(r)' = Shape(r) /\ Steps(r)' = Steps(r)
    BY <1>1, ShapeSame, StepsSame
  <1>3. Types'
    <2>1. Flags'
      BY <1>1 DEF Types, Flags, Disconnect, machine
    <2>2. chip' = NoChip /\ step' \in Nat
      BY <1>1 DEF Types, Disconnect, machine
    <2> QED
      BY <1>1, <2>1, <2>2, TypesKept DEF Types
  <1>4. Known'
    BY <1>1 DEF Known, Disconnect
  <1>5. Control'
    <2>1. Idle' = Idle
      BY <1>1 DEF Idle
    <2>2. \A r \in BOOLEAN : InFlightFor(r)' = InFlightFor(r)
      BY <1>1, <1>2 DEF InFlightFor, machine
    <2> QED
      BY <1>1, <1>2, <2>1, <2>2 DEF Control, machine
  <1>6. Registers'
    BY DEF Registers, Disconnect
  <1> QED
    BY <1>3, <1>4, <1>5, <1>6

(* load_settings: a running machine only marks the reload as pending, and  *)
(* the steps keep their places; one at rest begins a reload.               *)
LEMMA LoadSettingsInv ==
  ASSUME Inv, NEW s \in Settings(driver), LoadSettings(s)
  PROVE  Inv'
  <1> USE DEF Inv
  <1>1. UNCHANGED <<driver, index, chip, chip_type, regs, initialised, in_flight, spoiled>>
    BY DEF LoadSettings, config
  <1>2. \A r \in BOOLEAN : Shape(r)' = Shape(r)
    BY <1>1, ShapeSame
  <1>3. settings'.baud_rate \in 300 .. MaxBaud(driver) /\ settings'.format \in Format
    <2>1. PICK b \in NewBauds, f \in Format :
            b <= MaxBaud(driver) /\ s = [baud_rate |-> b, format |-> f]
      BY DEF Settings
    <2>2. b \in Nat /\ 300 <= b /\ MaxBaud(driver) \in Nat
      BY BaudsFrom300, MaxBaudNat DEF Types
    <2>3. settings' = s
      BY DEF LoadSettings
    <2> QED
      BY ONLY <2>1, <2>2, <2>3
  <1>4. Types'
    <2>1. Flags'
      BY <1>1 DEF Types, Flags, LoadSettings, FirstStep
    <2>2. step' \in Nat /\ chip' \in Chips \cup {NoChip}
      BY <1>1 DEF Types, LoadSettings, FirstStep
    <2> QED
      BY <1>1, <1>3, <2>1, <2>2, TypesKept DEF Types
  <1>5. Known'
    BY <1>1 DEF Known
  <1>6. Idle' = Idle
    BY <1>1 DEF Idle
  <1>7. CASE active
    <2>1. active' /\ pending' /\ UNCHANGED <<reload, device_phase, step, ok>>
      BY <1>7 DEF LoadSettings
    <2>2. Control'
      <3>1. \A r \in BOOLEAN : InFlightFor(r) => InFlightFor(r)'
        BY <1>1, <1>2, <2>1 DEF InFlightFor
      <3> QED
        BY <1>1, <1>2, <1>6, <1>7, <2>1, <3>1 DEF Control
    <2>3. Registers'
      <3>1. \A r \in BOOLEAN : ProgressFor(r) => ProgressFor(r)'
        BY <1>1, <1>2, <2>1 DEF ProgressFor
      <3>2. BornReady' = BornReady
        BY <1>1 DEF BornReady
      <3> QED
        BY <1>1, <1>7, <2>1, <3>1, <3>2 DEF Registers
    <2> QED
      BY <1>4, <1>5, <2>2, <2>3
  <1>8. CASE ~active
    <2>1. active' /\ reload' /\ ~device_phase' /\ step' = 0 /\ ok' /\ pending' = pending
      BY <1>8 DEF LoadSettings, FirstStep
    <2>2. Control'
      <3>1. Idle'
        BY <1>6, <1>8 DEF Control
      <3>2. \A r \in BOOLEAN : Len(Shape(r)') \in 1 .. 13
        BY <1>2, ShapeLengths
      <3>3. \A r \in BOOLEAN : step' <= Len(Shape(r)') + 1 /\ step' <= Len(Shape(r)')
        BY <2>1, <3>2
      <3>4. pending' = pending /\ ~device_phase' /\ active'
        BY <2>1
      <3> QED
        BY <3>1, <3>3, <3>4 DEF Control
    <2>3. Registers'
      <3>1. \A r \in BOOLEAN : ProgressFor(r)'
        BY <2>1 DEF ProgressFor
      <3>2. BornReady' = BornReady
        BY <1>1 DEF BornReady
      <3> QED
        BY <1>1, <1>8, <2>1, <3>1, <3>2 DEF Registers
    <2> QED
      BY <1>4, <1>5, <2>2, <2>3
  <1> QED
    BY <1>7, <1>8

(* A step is submitted: it is computed from the settings of now. *)
LEMMA IssueInv ==
  ASSUME Inv, Issue
  PROVE  Inv'
  <1> USE DEF Inv
  <1>1. UNCHANGED <<driver, index, settings, chip, chip_type, regs, initialised,
                    active, reload, device_phase, step, ok, pending, spoiled>>
    BY DEF Issue, config, machine
  <1>2. \A r \in BOOLEAN : Shape(r)' = Shape(r) /\ Steps(r)' = Steps(r)
    BY <1>1, ShapeSame, StepsSame
  <1>3. Types'
    <2>1. Flags' /\ step' \in Nat /\ chip' \in Chips \cup {NoChip}
      BY <1>1 DEF Types, Flags
    <2> QED
      BY <1>1, <2>1, TypesKept DEF Types
  <1>4. Known'
    BY <1>1 DEF Known
  <1>5. Control'
    <2>1. active /\ Idle
      BY DEF Issue, MayRun
    <2>2. CASE device_phase
      <3>1. /\ in_flight' = Transfer("version", Ch34xCommand(index), 0, 0)
            /\ step = 0 /\ driver = "CH34X"
        BY <2>2 DEF Issue, HasDeviceStep
      <3> QED
        BY <1>1, <2>1, <2>2, <3>1, Fields DEF Control, Idle
    <2>3. CASE ~device_phase
      <3>1. in_flight' = Steps(reload)[step + 1] /\ ok /\ step < Len(Steps(reload))
        BY <2>3 DEF Issue, HasStep
      <3>2. ASSUME NEW r \in BOOLEAN, reload = r
            PROVE  InFlightFor(r)'
        <4>1. Len(Steps(r)) = Len(Shape(r)) /\ Len(Shape(r)) \in 1 .. 13
              /\ \A k \in 1 .. Len(Steps(r)) : Blur(Steps(r)[k]) = Shape(r)[k]
          BY EveryShape DEF Shaped, ShapeSound
        <4>2. step \in Nat
          BY DEF Types
        <4>3. in_flight' = Steps(r)[step + 1] /\ step < Len(Steps(r))
          BY <3>1, <3>2
        <4>4. Blur(in_flight)' = Shape(r)[step + 1]
          <5>1. Blur(in_flight') = Shape(r)[step + 1]
            BY <4>1, <4>2, <4>3
          <5> QED
            BY <5>1 DEF Blur
        <4> QED
          BY <1>1, <1>2, <3>1, <4>1, <4>3, <4>4 DEF InFlightFor
      <3> QED
        BY <1>1, <1>2, <2>1, <2>3, <3>2 DEF Control
    <2> QED
      BY <2>2, <2>3
  <1>6. Registers'
    <2>1. \A r \in BOOLEAN : ProgressFor(r)' = ProgressFor(r)
      BY <1>1, <1>2 DEF ProgressFor
    <2>2. BornReady' = BornReady
      BY <1>1 DEF BornReady
    <2>3. active
      BY DEF Issue, MayRun
    <2> QED
      BY <1>1, <2>1, <2>2, <2>3 DEF Registers
  <1> QED
    BY <1>3, <1>4, <1>5, <1>6

(* A submission fails: the sequence is given up. *)
LEMMA IssueFailsInv ==
  ASSUME Inv, IssueFails
  PROVE  Inv'
  <1> USE DEF Inv
  <1>1. UNCHANGED <<driver, index, settings, chip, chip_type, regs, initialised,
                    active, reload, device_phase, in_flight, pending, spoiled>>
    BY DEF IssueFails, config
  <1>2. step' = step + 1 /\ ok' = FALSE /\ active /\ Idle
    BY DEF IssueFails, MayRun
  <1>3. \A r \in BOOLEAN : Shape(r)' = Shape(r)
    BY <1>1, ShapeSame
  <1>4. Types'
    <2>1. Flags'
      BY <1>1, <1>2 DEF Types, Flags
    <2>2. step' \in Nat /\ chip' \in Chips \cup {NoChip}
      BY <1>1, <1>2 DEF Types
    <2> QED
      BY <1>1, <2>1, <2>2, TypesKept DEF Types
  <1>5. Known'
    BY <1>1 DEF Known
  <1>6. Control'
    <2>1. Idle'
      BY <1>1, <1>2 DEF Idle
    <2>2. device_phase => step = 0
      BY DEF IssueFails, HasDeviceStep
    <2>3. ASSUME NEW r \in BOOLEAN, reload = r, ~device_phase
          PROVE  step' <= Len(Shape(r)') + 1
      <3>1. step < Len(Steps(r))
        BY <2>3 DEF IssueFails, HasStep
      <3>2. Len(Steps(r)) = Len(Shape(r)) /\ Len(Shape(r)) \in 1 .. 13 /\ step \in Nat
        BY ShapeLengths DEF Types
      <3> QED
        BY ONLY <1>2, <1>3, <3>1, <3>2, r \in BOOLEAN
    <2> QED
      BY <1>1, <1>2, <2>1, <2>2, <2>3 DEF Control
  <1>7. Registers'
    <2>1. BornReady' = BornReady
      BY <1>1 DEF BornReady
    <2> QED
      BY <1>1, <1>2, <2>1 DEF Registers
  <1> QED
    BY <1>4, <1>5, <1>6, <1>7

(* The version has been read, or not: the sequence proper begins. *)
LEMMA DevicePhaseEndInv ==
  ASSUME Inv, DevicePhaseEnd
  PROVE  Inv'
  <1> USE DEF Inv
  <1>1. UNCHANGED <<driver, index, settings, chip, chip_type, regs, initialised,
                    active, reload, in_flight, pending, spoiled>>
    BY DEF DevicePhaseEnd, config
  <1>2. step' = 0 /\ ok' = TRUE /\ active /\ Idle /\ device_phase /\ device_phase' = FALSE
    BY DEF DevicePhaseEnd, FirstStep, MayRun
  <1>3. \A r \in BOOLEAN : Shape(r)' = Shape(r)
    BY <1>1, ShapeSame
  <1>4. Types'
    <2>1. Flags'
      BY <1>1, <1>2 DEF Types, Flags
    <2>2. step' \in Nat /\ chip' \in Chips \cup {NoChip}
      BY <1>1, <1>2 DEF Types
    <2> QED
      BY <1>1, <2>1, <2>2, TypesKept DEF Types
  <1>5. Known'
    BY <1>1 DEF Known
  <1>6. Control'
    <2>1. Idle'
      BY <1>1, <1>2 DEF Idle
    <2>2. \A r \in BOOLEAN : Len(Shape(r)') \in 1 .. 13
      BY <1>3, ShapeLengths
    <2> QED
      BY <1>1, <1>2, <2>1, <2>2 DEF Control
  <1>7. Registers'
    <2>1. BornReady' = BornReady
      BY <1>1 DEF BornReady
    <2>2. \A r \in BOOLEAN : ProgressFor(r)'
      BY <1>2 DEF ProgressFor
    <2>3. ~reload
      BY <1>2 DEF Control
    <2> QED
      BY <1>1, <1>2, <2>1, <2>2, <2>3 DEF Registers
  <1> QED
    BY <1>4, <1>5, <1>6, <1>7

(* The registers a step has set keep their values if no later step sets    *)
(* them.                                                                   *)
LEMMA AppliedKept ==
  ASSUME NEW R, NEW Q, NEW u, Applied(R, u),
         u.request \in RateSetters => Q.rate = R.rate,
         u.request \in LineSetters => Q.line = R.line
  PROVE  Applied(Q, u)
  BY DEF Applied, RateSetters, LineSetters

(* What is known of the step that is on its way. *)
LEMMA StepOnItsWay ==
  ASSUME Inv, NEW r \in BOOLEAN, reload = r, ~device_phase, ~Idle
  PROVE  /\ active /\ ok /\ step < Len(Shape(r))
         /\ StepSound(Shape(r), r, step + 1)
         /\ Blur(in_flight) = Shape(r)[step + 1]
         /\ ~pending => in_flight = Steps(r)[step + 1]
         /\ ExecutedAs(in_flight, Executed(in_flight))
  <1> USE DEF Inv
  <1>1. active /\ InFlightFor(r)
    BY DEF Control
  <1>2. step \in Nat /\ Record(regs)
    BY DEF Types
  <1>3. Shaped(r) /\ ShapeSound(Shape(r), r)
    BY EveryShape
  <1>4. ok /\ step < Len(Shape(r)) /\ Blur(in_flight) = Shape(r)[step + 1]
        /\ (~pending => in_flight = Steps(r)[step + 1])
    BY <1>1 DEF InFlightFor
  <1>5. StepSound(Shape(r), r, step + 1)
    BY <1>2, <1>3, <1>4 DEF ShapeSound
  <1>6. in_flight.request \in Requests /\ PortOf(in_flight) = index
    <2>1. Blur(in_flight).request \in Requests /\ PortOf(Blur(in_flight)) = index
      BY <1>4, <1>5 DEF StepSound
    <2>2. PortOf(Blur(in_flight)) = PortOf(in_flight)
      BY BlurKeeps, PortByTo
    <2> QED
      BY <2>1, <2>2, BlurKeeps
  <1>7. ExecutedAs(in_flight, Executed(in_flight))
    BY <1>2, <1>6, ExecutedFields
  <1> QED
    BY <1>1, <1>4, <1>5, <1>7

(* A step that is executed adds to the progress. *)
LEMMA StepProgress ==
  ASSUME Inv, NEW r \in BOOLEAN, reload = r, ~device_phase, ~Idle, initialised,
         ProgressFor(r), NEW k \in 1 .. step + 1
  PROVE  /\ Started(Executed(in_flight), Shape(r)[k])
         /\ ~pending => Applied(Executed(in_flight), Steps(r)[k])
  <1> USE DEF Inv
  <1> DEFINE t == in_flight
             R == Executed(in_flight)
             S == Shape(r)
             n == step + 1
  <1>1. step \in Nat
    BY DEF Types
  <1>2. /\ step < Len(S) /\ StepSound(S, r, n) /\ Blur(t) = S[n]
        /\ ~pending => t = Steps(r)[n]
        /\ ExecutedAs(t, R)
    BY StepOnItsWay
  <1>3. Shaped(r) /\ ShapeSound(S, r)
    BY EveryShape
  <1>4. /\ t.request = S[n].request
        /\ t.request = "vendor_write" => t = S[n]
    BY <1>2, BlurKeeps
  <1>5. VendorIndex(chip_type) = VendorIndex(chip.type)
    BY ChipKnown DEF Known
  <1> HIDE DEF t, R, S
  <1>6. CASE k = n
    <2>1. Started(R, S[n])
      BY <1>2, <1>4, <1>5 DEF StepSound, ExecutedAs, Started, Wakes
    <2>2. ~pending => Applied(R, Steps(r)[n])
      BY <1>2 DEF ExecutedAs
    <2> QED
      BY <1>6, <2>1, <2>2 DEF R, S
  <1>7. CASE k # n
    <2>1. k \in 1 .. step /\ n # 1
      BY <1>1, <1>7
    <2>2. t.request \notin Starters
      BY <1>2, <1>4, <2>1 DEF StepSound
    <2>3. Started(regs, S[k]) /\ (~pending => Applied(regs, Steps(r)[k]))
      BY <2>1 DEF ProgressFor, S
    <2>4. (regs.ready => R.ready) /\ (regs.modem => R.modem)
      BY <1>2, <2>2 DEF ExecutedAs
    <2>5. Started(R, S[k])
      BY <2>3, <2>4 DEF Started
    <2>6. ASSUME ~pending
          PROVE  Applied(R, Steps(r)[k])
      <3> DEFINE u == Steps(r)[k]
      <3>1. k \in 1 .. Len(S) /\ n \in 1 .. Len(S) /\ Len(S) = Len(Steps(r))
        BY <1>1, <1>2, <1>3, <2>1 DEF Shaped, ShapeSound, S
      <3>2. u.request = S[k].request
        BY <1>3, <3>1, BlurKeeps DEF Shaped, S
      <3>3. u.request \in RateSetters => R.rate = regs.rate
        BY <1>2, <1>3, <1>4, <1>7, <2>2, <3>1, <3>2 DEF ShapeSound, ExecutedAs
      <3>4. u.request \in LineSetters => R.line = regs.line
        BY <1>2, <1>3, <1>4, <1>7, <2>2, <3>1, <3>2 DEF ShapeSound, ExecutedAs
      <3> QED
        BY <2>3, <2>6, <3>3, <3>4, AppliedKept
    <2> QED
      BY <2>5, <2>6 DEF R, S
  <1> QED
    BY <1>6, <1>7

(* A transfer is completed, executed or not. *)
LEMMA CompleteInv ==
  ASSUME Inv, NEW success \in BOOLEAN, NEW executed \in BOOLEAN, Complete(success, executed)
  PROVE  Inv'
  <1> USE DEF Inv
  <1>1. UNCHANGED <<driver, index, settings, chip, chip_type, initialised, active, reload,
                    device_phase, pending, spoiled>>
    BY DEF Complete, config
  <1>2. /\ ~Idle /\ (success => executed) /\ (executed => chip # NoChip)
        /\ step' = step + 1 /\ ok' = success /\ in_flight' = NoTransfer
        /\ regs' = IF executed THEN Executed(in_flight) ELSE regs
    BY DEF Complete
  <1>3. \A r \in BOOLEAN : Shape(r)' = Shape(r) /\ Steps(r)' = Steps(r)
    BY <1>1, ShapeSame, StepsSame
  <1>4. Idle'
    BY <1>2 DEF Idle, NoTransfer, Transfer
  <1>5. active
    BY <1>2 DEF Control
  <1>6. step \in Nat /\ Record(regs)
    BY DEF Types
  <1>7. Known'
    BY <1>1 DEF Known
  <1>8. ASSUME Record(regs')
        PROVE  Types'
    <2>1. Flags'
      BY <1>1, <1>2 DEF Types, Flags
    <2>2. step' \in Nat /\ chip' \in Chips \cup {NoChip}
      BY <1>1, <1>2 DEF Types
    <2>3. Record(regs)'
      BY <1>8 DEF Record
    <2> QED
      BY <1>1, <2>1, <2>2, <2>3, TypesKept DEF Types
  <1>9. BornReady' = BornReady
    BY <1>1 DEF BornReady
  <1>10. CASE device_phase
    <2>1. in_flight = Transfer("version", Ch34xCommand(index), 0, 0) /\ step = 0
      BY <1>2, <1>10 DEF Control
    <2>2. in_flight.request = "version"
      BY <2>1, Fields
    <2>3. Executed(in_flight) = regs
      BY <2>2, Zenon DEF Executed
    <2>4. regs' = regs
      BY <1>2, <2>3
    <2>5. Types'
      BY <1>6, <1>8, <2>4
    <2>6. ~reload
      BY <1>10 DEF Control
    <2>7. Control'
      BY <1>1, <1>2, <1>4, <1>5, <1>10, <2>1, <2>6 DEF Control
    <2>8. Registers'
      BY <1>1, <1>5, <1>9, <1>10, <2>4, <2>6 DEF Registers
    <2> QED
      BY <1>7, <2>5, <2>7, <2>8
  <1>11. CASE ~device_phase
    <2> SUFFICES ASSUME NEW r \in BOOLEAN, reload = r
                 PROVE  Inv'
      BY DEF Types, Flags
    <2> DEFINE t == in_flight
               S == Shape(r)
    <2>1. /\ ok /\ step < Len(S)
          /\ StepSound(S, r, step + 1)
          /\ Blur(t) = S[step + 1]
          /\ ~pending => t = Steps(r)[step + 1]
          /\ ExecutedAs(t, Executed(t))
      BY <1>2, <1>11, StepOnItsWay
    <2>2. Types'
      <3>1. Record(regs')
        BY <1>2, <1>6, <2>1 DEF ExecutedAs
      <3> QED
        BY <1>8, <3>1
    <2>3. Len(S) \in 1 .. 13 /\ S' = S
      BY <1>3, ShapeLengths
    <2>4. Control'
      <3>1. step' <= Len(S) + 1 /\ step' <= Len(S)
        BY <1>2, <1>6, <2>1, <2>3
      <3> QED
        BY <1>1, <1>2, <1>3, <1>4, <1>5, <1>11, <2>3, <3>1 DEF Control
    <2>5. Registers'
      <3> SUFFICES ASSUME initialised
                   PROVE  /\ BornReady => regs'.ready
                          /\ reload => regs'.ready /\ regs'.modem
                          /\ success => ProgressFor(r)'
        BY <1>1, <1>2, <1>5, <1>9, <1>11 DEF Registers
      <3>1. /\ BornReady => regs.ready
            /\ reload => regs.ready /\ regs.modem
            /\ ProgressFor(r)
        BY <1>5, <1>11, <2>1 DEF Registers
      <3>2. regs.ready => regs'.ready
        BY <1>2, <2>1 DEF ExecutedAs
      <3>3. t.request \in Starters => step = 0 /\ ~r
        <4>1. Blur(t).request = t.request
          BY BlurKeeps
        <4> QED
          BY <1>6, <2>1, <4>1 DEF StepSound
      <3>4. reload => regs'.modem
        BY <1>2, <2>1, <3>1, <3>3 DEF ExecutedAs
      <3>5. success => ProgressFor(r)'
        <4> SUFFICES ASSUME success, NEW k \in 1 .. step'
                     PROVE  /\ Started(regs', S'[k])
                            /\ ~pending' => Applied(regs', Steps(r)'[k])
          BY DEF ProgressFor, Started, Applied, Wakes
        <4>1. k \in 1 .. step + 1 /\ regs' = Executed(in_flight)
          BY <1>2
        <4>2. /\ Started(Executed(in_flight), Shape(r)[k])
              /\ ~pending => Applied(Executed(in_flight), Steps(r)[k])
          BY <1>2, <1>11, <3>1, <4>1, StepProgress
        <4> QED
          BY <1>1, <1>3, <4>1, <4>2
      <3> QED
        BY <3>1, <3>2, <3>4, <3>5
    <2> QED
      BY <1>7, <2>2, <2>4, <2>5
  <1> QED
    BY <1>10, <1>11

------------------------------------------------------------------------------
(* The end of a sequence, and the theorems. *)

(* An init that was not cut short has started the chip and raised DTR. *)
LEMMA InitDone ==
  ASSUME Types, ProgressFor(FALSE), step >= Len(Shape(FALSE)), BornReady => regs.ready
  PROVE  regs.ready /\ regs.modem
  <1> DEFINE S == Shape(FALSE)
             n == Len(S)
  <1>1. ShapeSound(S, FALSE)
    BY EveryShape
  <1>0. n \in 1 .. 13 /\ step \in Nat /\ step >= n
    BY ShapeLengths DEF Types
  <1>2. \A k \in 1 .. n : Started(regs, S[k])
    <2> HIDE DEF n
    <2>1. \A k \in 1 .. n : k \in 1 .. step
      BY ONLY <1>0
    <2> QED
      BY <2>1 DEF ProgressFor
  <1> HIDE DEF S
  <1>3. regs.modem
    BY <1>1, <1>2 DEF ShapeSound, Started
  <1>4. regs.ready
    BY <1>1, <1>2 DEF ShapeSound, Started
  <1> QED
    BY <1>3, <1>4

(* The sequence ends: with all its steps done the chip has the settings. *)
LEMMA SequenceEndInv ==
  ASSUME Inv, SequenceEnd
  PROVE  Inv'
  <1> USE DEF Inv
  <1>1. UNCHANGED <<driver, index, settings, chip, chip_type, regs, device_phase, in_flight>>
    BY DEF SequenceEnd, config
  <1>2. /\ active /\ Idle /\ ~device_phase /\ ~HasStep
        /\ initialised' = (initialised /\ (ok \/ reload))
        /\ spoiled' = (initialised /\ ~ok)
        /\ active' = pending /\ reload' = (reload \/ pending) /\ pending' = FALSE
        /\ step' = 0 /\ ok' = TRUE
    BY DEF SequenceEnd, MayRun, FirstStep
  <1>3. Flags /\ step \in Nat
    BY DEF Types
  <1>4. Flags'
    <2>1. initialised' \in BOOLEAN /\ spoiled' \in BOOLEAN
      BY <1>2
    <2>2. active' \in BOOLEAN /\ reload' \in BOOLEAN
      BY <1>2, <1>3 DEF Flags
    <2>3. device_phase' \in BOOLEAN /\ ok' \in BOOLEAN /\ pending' \in BOOLEAN
      BY <1>1, <1>2, <1>3 DEF Flags
    <2> QED
      BY <2>1, <2>2, <2>3 DEF Flags
  <1>5. Types'
    <2>1. step' \in Nat /\ chip' \in Chips \cup {NoChip}
      BY <1>1, <1>2 DEF Types
    <2> QED
      BY <1>1, <1>4, <2>1, TypesKept DEF Types
  <1>6. Known'
    BY <1>1, <1>2 DEF Known
  <1>7. \A r \in BOOLEAN : Shape(r)' = Shape(r)
    BY <1>1, ShapeSame
  <1>8. Control'
    <2>1. Idle'
      BY <1>1, <1>2 DEF Idle
    <2>2. \A r \in BOOLEAN : 0 <= Len(Shape(r)') + 1 /\ 0 <= Len(Shape(r)')
      BY <1>7, ShapeLengths
    <2> QED
      BY <1>1, <1>2, <2>1, <2>2 DEF Control
  <1>9. ASSUME initialised, ok
        PROVE  \A r \in BOOLEAN : reload = r => step >= Len(Shape(r)) /\ ProgressFor(r)
    <2> SUFFICES ASSUME NEW r \in BOOLEAN, reload = r
                 PROVE  step >= Len(Shape(r)) /\ ProgressFor(r)
      OBVIOUS
    <2>1. ProgressFor(r)
      BY <1>2, <1>9 DEF Registers
    <2>2. ~(step < Len(Steps(r)))
      BY <1>2, <1>9 DEF HasStep
    <2>3. Len(Steps(r)) = Len(Shape(r)) /\ Len(Shape(r)) \in 1 .. 13
      BY ShapeLengths
    <2> QED
      BY <1>3, <2>1, <2>2, <2>3
  <1>10. ASSUME initialised'
         PROVE  regs.ready /\ regs.modem
    <2>1. initialised /\ (ok \/ reload)
      BY <1>2, <1>10
    <2>2. CASE reload
      BY <2>1, <2>2 DEF Registers
    <2>3. CASE ~reload
      <3>1. reload = FALSE
        BY <1>3, <2>3 DEF Flags
      <3>2. step >= Len(Shape(FALSE)) /\ ProgressFor(FALSE)
        BY <1>9, <2>1, <2>3, <3>1
      <3>3. BornReady => regs.ready
        BY <2>1 DEF Registers
      <3> QED
        BY <3>2, <3>3, InitDone
    <2> QED
      BY <2>2, <2>3
  <1>11. ASSUME initialised', ~active', ~spoiled'
         PROVE  Settled'
    <2>1. initialised /\ ok /\ ~pending /\ chip # NoChip
      BY <1>2, <1>11 DEF Known
    <2> SUFFICES ASSUME NEW r \in BOOLEAN, reload = r
                 PROVE  Settled'
      BY <1>3 DEF Flags
    <2>2. step >= Len(Shape(r)) /\ ProgressFor(r)
      BY <1>9, <2>1
    <2>3. AllApplied(r)
      <3>1. Len(Steps(r)) = Len(Shape(r)) /\ Len(Shape(r)) \in 1 .. 13
        BY ShapeLengths
      <3> QED
        BY <1>3, <2>1, <2>2, <3>1 DEF ProgressFor, AllApplied
    <2>4. Settled
      BY <2>1, <2>3, SettledByAll
    <2> QED
      BY <1>1, <2>4, SettledSame DEF config
  <1>12. Registers'
    <2>1. \A r \in BOOLEAN : ProgressFor(r)'
      BY <1>2 DEF ProgressFor
    <2> QED
      BY <1>1, <1>10, <1>11, <2>1 DEF Registers
  <1> QED
    BY <1>5, <1>6, <1>8, <1>12

(* Steps of other parts. *)
LEMMA StutterInv ==
  ASSUME Inv, UNCHANGED vars
  PROVE  Inv'
  <1> USE DEF Inv
  <1>1. UNCHANGED <<driver, index, settings, chip, chip_type, regs, initialised,
                    active, reload, device_phase, step, ok, pending, in_flight, spoiled>>
    BY DEF vars, config, machine
  <1>2. \A r \in BOOLEAN : Shape(r)' = Shape(r) /\ Steps(r)' = Steps(r)
    BY <1>1, ShapeSame, StepsSame
  <1>3. Types'
    BY <1>1, TypesKept DEF Types, Flags
  <1>4. Known'
    BY <1>1 DEF Known
  <1>5. Control'
    <2>1. Idle' = Idle
      BY <1>1 DEF Idle
    <2>2. \A r \in BOOLEAN : InFlightFor(r)' = InFlightFor(r)
      BY <1>1, <1>2 DEF InFlightFor
    <2> QED
      BY <1>1, <1>2, <2>1, <2>2 DEF Control
  <1>6. Registers'
    <2>1. \A r \in BOOLEAN : ProgressFor(r)' = ProgressFor(r)
      BY <1>1, <1>2 DEF ProgressFor
    <2>2. BornReady' = BornReady /\ Settled' = Settled
      BY <1>1, SettledSame DEF BornReady, config
    <2> QED
      BY <1>1, <2>1, <2>2 DEF Registers
  <1> QED
    BY <1>3, <1>4, <1>5, <1>6

(* The inductive invariant: the progress of the sequence is what the       *)
(* registers hold, whatever fails, and whatever changes on the way.        *)
THEOREM Invariance == Spec => []Inv
  <1>1. Inv /\ [Next]_vars => Inv'
    <2> SUFFICES ASSUME Inv, [Next]_vars PROVE Inv'
      OBVIOUS
    <2>1. ASSUME NEW c \in Chips, Connect(c) PROVE Inv'
      BY <2>1, ConnectInv
    <2>2. CASE Disconnect
      BY <2>2, DisconnectInv
    <2>3. CASE Asks
      BY <2>3, LoadSettingsInv DEF Asks
    <2>4. CASE IssueFails
      BY <2>4, IssueFailsInv
    <2>5. CASE Runs
      BY <2>5, IssueInv, DevicePhaseEndInv, SequenceEndInv DEF Runs
    <2>6. CASE Completes
      BY <2>6, CompleteInv DEF Completes
    <2>7. CASE UNCHANGED vars
      BY <2>7, StutterInv
    <2> QED
      BY <2>1, <2>2, <2>3, <2>4, <2>5, <2>6, <2>7 DEF Next
  <1> QED
    BY <1>1, InitInv, PTL DEF Spec

(* The members of the channel stay in their types, and step in the         *)
(* sequence of config_step or one past its end.                            *)
THEOREM TypeCorrect == Spec => []TypeOK
  BY Invariance, InvTypeOK, PTL

(* usb_uart.cpp, run_config_machine_ with every config_step: whenever the  *)
(* machine is at rest and nothing was given up, the chip has been started, *)
(* has DTR set, and runs with the settings of the channel as near as it    *)
(* can: for every driver, chip, rate and format, after every sequence of   *)
(* changes, failures and replugs.                                          *)
THEOREM SettingsReachTheChip == Spec => []ChipSound
  <1>1. Inv => ChipSound
    <2> SUFFICES ASSUME Inv PROVE SettingsApplied
      BY InvTypeOK DEF ChipSound
    <2> QED
      BY DEF Inv, Registers, Settled, SettingsApplied
  <1> QED
    BY <1>1, Invariance, PTL

==============================================================================
