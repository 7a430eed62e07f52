------------------------------- MODULE ClockGen ------------------------------
(***************************************************************************)
(* The numbers of src/src/si5351v2.c: from a frequency to the divider of   *)
(* the output stage, the multiplier of the PLL, and the eight register     *)
(* bytes of each.  The C code works in integers of 32 and 64 bits; up to   *)
(* 650 MHz nothing below leaves 31 bits but the quotient in Num, and the   *)
(* radio asks for its dial plus some 40 MHz.  The single-precision         *)
(* quotients in setup_pll() are exact, num being below 2^19 and denom a    *)
(* power of two.  The output divider R and the divide-by-4 bits, which     *)
(* share a byte with Parameters, are always nought in that range.          *)
(***************************************************************************)

EXTENDS Integers

Vco   == 650000000      \* what the PLL is kept at or a little above
Xtal  == 25000000       \* xtal_freq_calibrated, which nothing changes
Denom == 524288         \* 0x80000

(* si5351bx_setfreq(): the next even number.  The quotient times Vco, in   *)
(* 64 bits, is the frequency only for Vco itself.                          *)
PllDivDown(f) ==                \* mutant: rounded down to an even number
  2 * ((Vco \div f) \div 2)

PllDiv(f) ==
  LET quotient == Vco \div f
      above    == IF f = Vco THEN quotient ELSE quotient + 1
  IN IF above % 2 = 1 THEN above + 1 ELSE above

(* set_freq_fixeddiv()                                                     *)
PllFreq(f) == f * PllDiv(f)
Multi(f)   == PllFreq(f) \div Xtal
Rest(f)    == PllFreq(f) % Xtal

(* Rest * Denom \div Xtal, which takes 64 bits, in steps that take 31.     *)
NumOf(rest) ==
  LET whole == rest \div 390625
      part  == (rest % 390625) * 4096
  IN 8192 * whole + 2 * (part \div 390625) + (2 * (part % 390625)) \div 390625

Num(f) == NumOf(Rest(f))

(* setup_pll() and setup_multisynth(): the three parameters of a divider   *)
(* of a + b / c, and the bytes they are sent in.                           *)
Parameters(a, b, c) ==
  IF b = 0
  THEN [p1 |-> 128 * a - 512, p2 |-> 0, p3 |-> 1]
  ELSE [p1 |-> 128 * a + (128 * b) \div c - 512, p2 |-> (128 * b) % c, p3 |-> c]

Byte(n, k) == CASE k = 0 -> n % 256
                [] k = 1 -> (n \div 256) % 256

Bytes(p) ==
  [i \in 0 .. 7 |->
     CASE i = 0 -> Byte(p.p3, 1)
       [] i = 1 -> Byte(p.p3, 0)
       [] i = 2 -> (p.p1 \div 65536) % 4
       [] i = 3 -> Byte(p.p1, 1)
       [] i = 4 -> Byte(p.p1, 0)
       [] i = 5 -> (((p.p3 \div 65536) % 16) * 16) + ((p.p2 \div 65536) % 16)
       [] i = 6 -> Byte(p.p2, 1)
       [] i = 7 -> Byte(p.p2, 0)]

PllBytes(f) == Bytes(Parameters(Multi(f), Num(f), Denom))
MsBytes(f)  == Bytes(Parameters(PllDiv(f), 0, 1))

-----------------------------------------------------------------------------
(* The chip's reading of the registers (its application note AN619)        *)

Read(r) ==
  [p1 |-> r[2] * 65536 + r[3] * 256 + r[4],
   p2 |-> (r[5] % 16) * 65536 + r[6] * 256 + r[7],
   p3 |-> (r[5] \div 16) * 65536 + r[0] * 256 + r[1]]

(* a + b / c, as the whole part and the parts in c.                        *)
Whole(p)  == (p.p1 + 512) \div 128
Part(p)   == (((p.p1 + 512) % 128) * p.p3 + p.p2) \div 128

(* A frequency the radio sets comes out of the chip: the PLL within its    *)
(* range of 600 to 900 MHz, an even whole divider of the output stage,     *)
(* from 8 to 1800, and registers that say what was computed, with nothing  *)
(* cut off by the width of a field.                                        *)
Reaches(f) ==
  LET pll == Read(PllBytes(f))
      ms  == Read(MsBytes(f))
  IN /\ Whole(ms) % 2 = 0 /\ 8 <= Whole(ms) /\ Whole(ms) <= 1800
     /\ Part(ms) = 0
     /\ 600000000 <= f * Whole(ms) /\ f * Whole(ms) <= 900000000
     /\ Whole(pll) = (f * Whole(ms)) \div Xtal
     /\ IF Num(f) = 0 THEN Part(pll) = 0
        ELSE pll.p3 = Denom /\ Part(pll) = NumOf((f * Whole(ms)) % Xtal)

=============================================================================
