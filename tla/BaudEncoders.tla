------------------------------ MODULE BaudEncoders ------------------------------
(***************************************************************************)
(* How the drivers of usb_uart turn a baud rate into the registers of the  *)
(* bridge chips (ft23xx.cpp, ch34x.cpp, pl2303.cpp), what the chips make   *)
(* of the registers, and when the result is as good as it can be.          *)
(*                                                                         *)
(* All operators are pure.  Shifts and masks are written as quotients and  *)
(* remainders; fields that are or-ed together are added.                   *)
(***************************************************************************)
EXTENDS Integers, Sequences

Abs(n) == IF n < 0 THEN -n ELSE n

------------------------------------------------------------------------------
(* FTDI.  A divisor is counted in eighths: 14 bits of whole divisor, then  *)
(* a code of 3 bits for the eighths.                                       *)

FtdiH == {"2232H", "4232H", "232H"}
FtdiB == {"BM", "2232C", "R", "230X"}

FRAC_CODE == <<0, 3, 2, 4, 1, 5, 6, 7>>
FracCode(eighths) == FRAC_CODE[(eighths % 8) + 1]

EncodeEighths(n) == n \div 8 + FracCode(n) * 16384

(* rate is clk / clk_div. *)
BestDivisor(baud, rate) ==
  LET divisor == (rate * 16) \div baud
      best == (divisor + 1) \div 2
  IN  IF best > 131072 THEN 131071 ELSE best

(* The three highest rates have codes of their own. *)
ftdi_to_clkbits(baud, rate) ==
  IF baud >= rate THEN 0
  ELSE IF baud >= (2 * rate) \div 3 THEN 1
  ELSE IF baud >= rate \div 2 THEN 2
  ELSE EncodeEighths(BestDivisor(baud, rate))

(* The AM has no code for 3, 5, 6 and 7 eighths: the divisor is adjusted   *)
(* down, and the next one up.                                              *)
AM_ADJUST_UP == <<0, 0, 0, 1, 0, 3, 2, 1>>
AM_ADJUST_DN == <<0, 0, 0, 1, 0, 1, 2, 3>>

AmEstimate(n) == (24000000 + n \div 2) \div n
AmDiff(n, baud) == Abs(AmEstimate(n) - baud)

(* The first candidate (i = 0) and the second, of which the closer wins. *)
AmCandidate(divisor, i) ==
  LET n == divisor + i
      up == n + AM_ADJUST_UP[(n % 8) + 1]
  IN  IF n <= 8 THEN 8
      ELSE IF divisor < 16 THEN 16
      ELSE IF up > 131064 THEN 131064 ELSE up

AmDivisor(baud) ==
  LET exact == 24000000 \div baud
      divisor == exact - AM_ADJUST_DN[(exact % 8) + 1]
      first == AmCandidate(divisor, 0)
      second == AmCandidate(divisor, 1)
  IN  IF AmDiff(second, baud) < AmDiff(first, baud) THEN second ELSE first

ftdi_to_clkbits_am(baud) ==
  LET encoded == EncodeEighths(AmDivisor(baud))
  IN  IF encoded = 1 THEN 0 ELSE IF encoded = 16385 THEN 1 ELSE encoded

(* The H chips count from 12 MHz, with bit 17 set, or from 3 MHz. *)
FtdiFast(baud, chip) == chip \in FtdiH /\ baud * 10 > 120000000 \div 16383

EncodedDivisor(baud, chip) ==
  IF FtdiFast(baud, chip) THEN ftdi_to_clkbits(baud, 12000000) + 131072
  ELSE IF chip \in FtdiH \cup FtdiB THEN ftdi_to_clkbits(baud, 3000000)
  ELSE ftdi_to_clkbits_am(baud)

ftdi_convert_baudrate(baud, chip, channel) ==
  LET encoded == EncodedDivisor(baud, chip)
  IN  [value |-> encoded % 65536,
       index |-> IF chip \in FtdiH
                   THEN (encoded \div 65536) * 256 + channel + 1
                   ELSE encoded \div 65536]

(* The chip: the divisor in eighths, from the 17 bits of the code. *)
EighthsOf(code) == CHOOSE e \in 0 .. 7 : FracCode(e) = code

DecodeEighths(code) ==
  CASE code = 0 -> 8
    [] code = 1 -> 12
    [] OTHER -> (code % 16384) * 8 + EighthsOf((code \div 16384) % 8)

(* n eighths is the divisor nearest to that of the baud rate, for rates    *)
(* that have a divisor from two up; of those above, the next one below.    *)
NearestEighths(n, baud, rate) ==
  IF baud < rate \div 2 THEN Abs(2 * n * baud - 16 * rate) <= baud
  ELSE n = IF baud >= rate THEN 8 ELSE IF baud >= (2 * rate) \div 3 THEN 12 ELSE 16

(* The same for an AM: no divisor it has, within a whole one, is closer. *)
NearestAmEighths(n, baud) ==
  baud < 1500000 =>
    \A m \in n - 8 .. n + 8 :
      m >= 16 /\ m % 8 \in {0, 1, 2, 4} => AmDiff(n, baud) <= AmDiff(m, baud)

(* The third bit of the code for the eighths, which the value has no room  *)
(* for, in the index that is sent: where the encoder puts it, which is bit *)
(* 0 of the high byte for the H chips and of the low byte for the others.  *)
(* The divisors of an AM do without it.                                    *)
FtdiThirdBit(chip, low, high) ==
  CASE chip \in FtdiH -> high % 2
    [] chip \in FtdiB -> low % 2
    [] OTHER -> 0

(* The chip makes of the code the nearest divisor it has. *)
FtdiNearestCode(code, baud, chip, rate) ==
  IF chip = "AM" THEN NearestAmEighths(DecodeEighths(code), baud)
  ELSE NearestEighths(DecodeEighths(code), baud, rate)

------------------------------------------------------------------------------
(* CH34x: a clock, chosen by a prescaler code, over a divisor of 8 bits    *)
(* that is sent as its complement.                                         *)

Ch34xClock == [p \in {0, 1, 2, 3, 7} |->
  CASE p = 7 -> 12000000 [] p = 3 -> 6000000 [] p = 2 -> 750000
    [] p = 1 -> 93750 [] p = 0 -> 11719]

Ch34xPrescaler(baud) ==
  IF baud >= 256000 THEN 7
  ELSE IF baud > 6000000 \div 255 THEN 3
  ELSE IF baud > 750000 \div 255 THEN 2
  ELSE IF baud > 93750 \div 255 THEN 1 ELSE 0

(* The quotient is cut to eight bits before it is looked at. *)
Ch34xQuotient(baud) == (Ch34xClock[Ch34xPrescaler(baud)] \div baud) % 256
Ch34xRejected(baud) == Ch34xQuotient(baud) \in {0, 255}

Ch34xFactor(baud) ==
  LET clk == Ch34xClock[Ch34xPrescaler(baud)]
      factor == Ch34xQuotient(baud)
      next == clk \div factor - baud > baud - clk \div (factor + 1)
  IN  256 - IF next THEN factor + 1 ELSE factor

Ch34xRate(prescaler, factor) == Ch34xClock[prescaler] \div (256 - factor)

(* No other divisor of this clock comes closer. *)
Ch34xNearest(prescaler, factor, baud) ==
  \A other \in 1 .. 254 :
    Abs(Ch34xRate(prescaler, factor) - baud) <= Abs(Ch34xRate(prescaler, other) - baud)

------------------------------------------------------------------------------
(* PL2303: the rate itself in 32 bits, or a mantissa and an exponent with  *)
(* the top bit set.  The four bytes are a sequence, the lowest first.      *)

SUPPORTED_BAUD_RATES ==
  {75, 150, 300, 600, 1200, 1800, 2400, 3600, 4800, 7200, 9600, 14400, 19200,
   28800, 38400, 57600, 115200, 230400, 460800, 614400, 921600, 1228800,
   2457600, 3000000, 6000000}

(* Of two as near, the higher. *)
nearest_supported_baud(baud) ==
  CHOOSE r \in SUPPORTED_BAUD_RATES : \A s \in SUPPORTED_BAUD_RATES :
    \/ Abs(r - baud) < Abs(s - baud)
    \/ Abs(r - baud) = Abs(s - baud) /\ r >= s

encode_baud_direct(baud) ==
  <<baud % 256, (baud \div 256) % 256, (baud \div 65536) % 256, baud \div 16777216>>

DirectBaud(bytes) ==
  bytes[1] + 256 * bytes[2] + 65536 * bytes[3] + 16777216 * bytes[4]

(* The exact divisor of BASELINE, and a divisor that is divided by the     *)
(* base until it is below the limit.                                       *)
ExactDivisor(baud) == IF baud > 384000000 THEN 1 ELSE 384000000 \div baud

Scaled(divisor, base, limit, most) ==
  LET fits == {e \in 0 .. most : divisor \div base^e < limit}
      exponent == CHOOSE e \in fits : \A f \in fits : e <= f
  IN  IF fits = {} THEN [mantissa |-> limit - 1, exponent |-> most]
      ELSE [mantissa |-> divisor \div base^exponent, exponent |-> exponent]

encode_baud_divisor(baud) ==
  LET s == Scaled(ExactDivisor(baud), 4, 512, 7)
  IN  <<s.mantissa % 256, s.exponent * 2 + (s.mantissa \div 256), 0, 128>>

encode_baud_divisor_alt(baud) ==
  LET s == Scaled(ExactDivisor(baud), 2, 2048, 15)
  IN  <<s.mantissa % 256, (s.exponent \div 2) * 32 + (s.mantissa \div 256),
        s.exponent % 2, 128>>

Pl2303Alt == {"TA", "TB"}

Pl2303Baud(baud, chip) ==
  IF baud = nearest_supported_baud(baud) \/ chip = "HXN" THEN encode_baud_direct(baud)
  ELSE IF chip \in Pl2303Alt THEN encode_baud_divisor_alt(baud)
  ELSE encode_baud_divisor(baud)

(* The chip: the divisor of 384 MHz in a coding with the top bit set, as   *)
(* the mantissa and the power it is multiplied by.                         *)
Pl2303Divisor(bytes, chip) ==
  IF chip \in Pl2303Alt
    THEN [mantissa |-> (bytes[2] % 8) * 256 + bytes[1],
          power |-> 2^((bytes[2] \div 32) * 2 + bytes[3])]
    ELSE [mantissa |-> (bytes[2] % 2) * 256 + bytes[1],
          power |-> 4^(bytes[2] \div 2)]

(* It is the rate itself, or the divisor is the exact one cut to the       *)
(* precision of the mantissa: the rate is at most one part in the mantissa *)
(* too high, and never too low.                                            *)
Pl2303Close(bytes, chip, baud) ==
  IF bytes[4] < 128
    THEN DirectBaud(bytes) = baud
    ELSE LET d == Pl2303Divisor(bytes, chip)
         IN  /\ d.mantissa * d.power <= 384000000 \div baud
             /\ 384000000 \div baud < (d.mantissa + 1) * d.power
             /\ d.mantissa >= 64
==============================================================================
