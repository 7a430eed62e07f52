-------------------------- MODULE RemoteTuneProofs --------------------------
(***************************************************************************)
(* Machine-checked proofs about the modules of the run RemoteTune.         *)
(*                                                                         *)
(* ClockGen: every frequency in the range of the clocks comes out of the   *)
(* chip.  RxChain: for filters of any length and blocks of any size the    *)
(* receive path puts out what the whole stream says; how far each of its   *)
(* loops has come (Progress) is the invariant.  Bounds are stated as       *)
(* inequalities there: the prover writes an interval of numbers out.       *)
(*                                                                         *)
(* RemoteTune, for any number of surfaces and any frequencies and offsets: *)
(* three arguments, one per property.  What the EP2 thread knows of the    *)
(* dial from the place it has come to in a packet, before keying (Keying)  *)
(* and after (Following), and on which dial the offsets that may still be  *)
(* stored were read (Dialing).                                             *)
(***************************************************************************)

EXTENDS MCRemoteTune, TLAPS

(* The product taken in steps of 31 bits is the one the code takes in 64.  *)
LEMMA NumOfIsProduct ==
  ASSUME NEW rest \in Nat
  PROVE  NumOf(rest) = (rest * Denom) \div Xtal
<1> DEFINE whole == rest \div 390625
           left  == rest % 390625
           part  == (left * 4096) \div 390625
           last  == (left * 4096) % 390625
<1>1. /\ whole \in Nat /\ left \in Nat
      /\ rest = 390625 * whole + left
  OBVIOUS
<1> HIDE DEF whole, left
<1>2. /\ part \in Nat /\ last \in Nat
      /\ left * 4096 = 390625 * part + last
  BY <1>1
<1>3. NumOf(rest) = 8192 * whole + 2 * part + ((2 * last) \div 390625)
  BY DEF NumOf, whole, left
<1>4. (rest * Denom) \div Xtal = (rest * 8192) \div 390625
  BY DEF Denom, Xtal
<1> HIDE DEF part, last
<1>5. rest * 8192 = 390625 * (8192 * whole + 2 * part) + 2 * last
  BY <1>1, <1>2
<1>6. QED
  BY <1>1, <1>2, <1>3, <1>4, <1>5

LEMMA NumFits ==
  ASSUME NEW rest \in Nat, rest < Xtal
  PROVE  NumOf(rest) \in Nat /\ NumOf(rest) < Denom
BY NumOfIsProduct DEF Denom, Xtal

(* The registers say what was computed: no parameter is cut off.           *)
LEMMA RegistersSay ==
  ASSUME NEW p1 \in Nat, p1 < 262144, NEW p2 \in Nat, p2 < 1048576,
         NEW p3 \in Nat, p3 < 1048576
  PROVE  Read(Bytes([p1 |-> p1, p2 |-> p2, p3 |-> p3])) =
           [p1 |-> p1, p2 |-> p2, p3 |-> p3]
<1> DEFINE r == Bytes([p1 |-> p1, p2 |-> p2, p3 |-> p3])
<1>1. /\ r[0] = (p3 \div 256) % 256
      /\ r[1] = p3 % 256
      /\ r[2] = (p1 \div 65536) % 4
      /\ r[3] = (p1 \div 256) % 256
      /\ r[4] = p1 % 256
      /\ r[5] = (((p3 \div 65536) % 16) * 16) + ((p2 \div 65536) % 16)
      /\ r[6] = (p2 \div 256) % 256
      /\ r[7] = p2 % 256
  BY DEF Bytes, Byte
<1> HIDE DEF r
<1>2. r[2] * 65536 + r[3] * 256 + r[4] = p1
  BY <1>1
<1>3. r[5] % 16 = (p2 \div 65536) % 16 /\ r[5] \div 16 = (p3 \div 65536) % 16
  BY <1>1
<1>4. (r[5] % 16) * 65536 + r[6] * 256 + r[7] = p2
  BY <1>1, <1>3
<1>5. (r[5] \div 16) * 65536 + r[0] * 256 + r[1] = p3
  BY <1>1, <1>3
<1>6. Read(r) = [p1 |-> p1, p2 |-> p2, p3 |-> p3]
  BY <1>2, <1>4, <1>5 DEF Read
<1>7. QED
  BY <1>6 DEF r

(* What a divider of a + b / c makes of its parameters.                    *)
LEMMA DividerIs ==
  ASSUME NEW a \in Nat, 4 <= a, a < 2048, NEW b \in Nat, b < Denom
  PROVE  LET p == Read(Bytes(Parameters(a, b, Denom)))
         IN /\ Whole(p) = a
            /\ IF b = 0 THEN Part(p) = 0 ELSE p.p3 = Denom /\ Part(p) = b
<1> DEFINE q == (128 * b) \div Denom
           s == (128 * b) % Denom
<1>1. /\ q \in Nat /\ q < 128 /\ s \in Nat /\ s < Denom
      /\ 128 * b = q * Denom + s
  BY DEF Denom
<1>2. CASE b = 0
  <2>1. Read(Bytes(Parameters(a, b, Denom))) = [p1 |-> 128 * a - 512, p2 |-> 0, p3 |-> 1]
    BY <1>2, RegistersSay DEF Parameters
  <2>2. QED BY <1>2, <2>1 DEF Whole, Part
<1>3. CASE b # 0
  <2>1. Parameters(a, b, Denom) = [p1 |-> 128 * a + q - 512, p2 |-> s, p3 |-> Denom]
    BY <1>3 DEF Parameters
  <2> HIDE DEF q, s
  <2>2. Read(Bytes(Parameters(a, b, Denom))) =
          [p1 |-> 128 * a + q - 512, p2 |-> s, p3 |-> Denom]
    BY <1>1, <2>1, RegistersSay DEF Denom
  <2>3. (128 * a + q) \div 128 = a /\ (128 * a + q) % 128 = q
    BY <1>1
  <2>4. (q * Denom + s) \div 128 = b
    BY <1>1
  <2>5. 128 * a + q - 512 + 512 = 128 * a + q
    BY <1>1
  <2>6. QED BY <1>1, <1>3, <2>2, <2>3, <2>4, <2>5 DEF Whole, Part
<1>4. QED BY <1>2, <1>3

LEMMA WholeDividerIs ==
  ASSUME NEW a \in Nat, 4 <= a, a < 2048
  PROVE  LET p == Read(Bytes(Parameters(a, 0, 1)))
         IN Whole(p) = a /\ Part(p) = 0
<1>1. Read(Bytes(Parameters(a, 0, 1))) = [p1 |-> 128 * a - 512, p2 |-> 0, p3 |-> 1]
  BY RegistersSay DEF Parameters
<1>2. QED BY <1>1 DEF Whole, Part

(* The divider is even and takes the PLL to 650 MHz or a little above.     *)
LEMMA DividerInRange ==
  ASSUME NEW f \in Nat, 400000 <= f, f <= 100000000
  PROVE  /\ PllDiv(f) \in Nat /\ 8 <= PllDiv(f) /\ PllDiv(f) <= 1800
         /\ PllDiv(f) % 2 = 0
         /\ PllFreq(f) \in Nat /\ Vco <= PllFreq(f) /\ PllFreq(f) <= 850000000
<1> DEFINE q == Vco \div f
<1>1. q \in Nat /\ q * f <= Vco /\ Vco < q * f + f
  BY DEF Vco
<1>2. 6 <= q /\ q <= 1625
  BY <1>1 DEF Vco
<1>3. PllDiv(f) \in {q + 1, q + 2} /\ PllDiv(f) % 2 = 0
  <2> DEFINE above == IF f = Vco THEN q ELSE q + 1
  <2>1. PllDiv(f) = IF above % 2 = 1 THEN above + 1 ELSE above
    BY DEF PllDiv
  <2>2. above = q + 1
    BY DEF Vco
  <2> HIDE DEF above, q
  <2>3. QED BY <1>1, <2>1, <2>2
<1> HIDE DEF q
<1>4. PllFreq(f) \in {q * f + f, q * f + f + f}
  BY <1>1, <1>3 DEF PllFreq
<1>5. QED BY <1>1, <1>2, <1>3, <1>4 DEF Vco

(* Whatever the dial, the RIT and the pitch: every frequency from 400 kHz  *)
(* to 100 MHz comes out of the chip as it was asked for.                   *)
THEOREM EveryFrequency ==
  \A f \in Nat : 400000 <= f /\ f <= 100000000 => Reaches(f)
<1> SUFFICES ASSUME NEW f \in Nat, 400000 <= f, f <= 100000000 PROVE Reaches(f)
  OBVIOUS
<1>1. /\ PllDiv(f) \in Nat /\ 8 <= PllDiv(f) /\ PllDiv(f) <= 1800
      /\ PllDiv(f) % 2 = 0
      /\ PllFreq(f) \in Nat /\ Vco <= PllFreq(f) /\ PllFreq(f) <= 850000000
  BY DividerInRange
<1>2. /\ Multi(f) \in Nat /\ 4 <= Multi(f) /\ Multi(f) < 2048
      /\ Rest(f) \in Nat /\ Rest(f) < Xtal
  BY <1>1 DEF Multi, Rest, Vco, Xtal
<1>3. Num(f) = NumOf(Rest(f)) /\ Num(f) \in Nat /\ Num(f) < Denom
  BY <1>2, NumFits DEF Num
<1>4. /\ Whole(Read(MsBytes(f))) = PllDiv(f)
      /\ Part(Read(MsBytes(f))) = 0
  BY <1>1, WholeDividerIs DEF MsBytes
<1>5. /\ Whole(Read(PllBytes(f))) = Multi(f)
      /\ IF Num(f) = 0 THEN Part(Read(PllBytes(f))) = 0
         ELSE Read(PllBytes(f)).p3 = Denom /\ Part(Read(PllBytes(f))) = Num(f)
  BY <1>2, <1>3, DividerIs DEF PllBytes
<1>6. PllFreq(f) = f * PllDiv(f) /\ Multi(f) = PllFreq(f) \div Xtal
      /\ Rest(f) = PllFreq(f) % Xtal
  BY DEF PllFreq, Multi, Rest
<1>7. QED
  BY <1>1, <1>3, <1>4, <1>5, <1>6 DEF Reaches, Vco

(* So do those the run tries, next to each change of the divider.          *)
THEOREM ClockReachesAll == MCSpec => []ClockReaches
<1> DEFINE Asked == input # <<>> /\ input[1] = "clock" => input[2] \in Frequencies
<1>1. MCInit => Asked
  <2> SUFFICES ASSUME MCInit PROVE Asked
    OBVIOUS
  <2>1. CASE input \in {<<>>, <<"samples">>, <<"file">>, <<"usb">>}
    BY <2>1
  <2>2. CASE input \in {<<"clock", f>> : f \in Frequencies}
    BY <2>2
  <2>3. QED BY <2>1, <2>2 DEF MCInit
<1>2. Asked /\ [MCNext]_mcVars => Asked'
  BY DEF MCNext, mcVars
<1>3. Asked => ClockReaches
  <2>1. \A f \in Frequencies : f \in Nat /\ 400000 <= f /\ f <= 100000000
    <3>1. Teeth \in Nat /\ Teeth <= 2500
      BY DEF Teeth
    <3>2. \A d \in 9 .. 16 : Vco \div d \in Nat /\ Vco \div d <= 72222222
      BY DEF Vco
    <3>3. \A k \in 0 .. Teeth : 40000000 + 12345 * k <= 100000000
      BY <3>1
    <3>4. QED BY <3>2, <3>3 DEF Frequencies
  <2>2. QED BY <2>1, EveryFrequency DEF ClockReaches
<1>4. QED BY <1>1, <1>2, <1>3, PTL DEF MCSpec

-----------------------------------------------------------------------------
(* The filters.  A filter that has taken a stream holds the last taps of   *)
(* it from the place where it will write next, the oldest first, and every *)
(* sample twice.                                                           *)
FirHolds(fir, taps, s) ==
  /\ fir = [hist |-> fir.hist, pos |-> fir.pos]
  /\ fir.hist = [i \in 0 .. 2 * taps - 1 |-> fir.hist[i]]
  /\ fir.pos \in 0 .. taps - 1
  /\ \A i \in 0 .. taps - 1 : fir.hist[i + taps] = fir.hist[i]
  /\ \A i \in 1 .. taps :
       fir.hist[fir.pos + i - 1] =
         IF Len(s) - taps + i >= 1 THEN s[Len(s) - taps + i] ELSE Silence

LEMMA NewFirHolds ==
  ASSUME NEW taps \in Nat \ {0}
  PROVE  FirHolds(NewFir(taps), taps, <<>>)
BY DEF FirHolds, NewFir

(* A sample more: the taps see it and the last ones before it.             *)
LEMMA FirGoesOn ==
  ASSUME NEW taps \in Nat \ {0}, NEW S, NEW s \in Seq(S), NEW x \in S, NEW fir,
         FirHolds(fir, taps, s)
  PROVE  /\ FirHolds(Push(fir, taps, x), taps, Append(s, x))
         /\ Taken(fir, taps, x) = LastOf(Append(s, x), Len(s) + 1, taps)
<1> DEFINE next == Push(fir, taps, x)
           pos  == fir.pos
           t    == Append(s, x)
<1>1. pos \in Nat /\ pos < taps
  BY DEF FirHolds
<1>2. /\ next.hist = [i \in 0 .. 2 * taps - 1 |->
                        IF i \in {pos, pos + taps} THEN x ELSE fir.hist[i]]
      /\ next.pos = IF pos + 1 = taps THEN 0 ELSE pos + 1
      /\ next = [hist |-> next.hist, pos |-> next.pos]
  BY <1>1 DEF Push, FirHolds
<1>3. /\ Len(t) = Len(s) + 1 /\ Len(s) \in Nat
      /\ t[Len(s) + 1] = x
      /\ \A k \in 1 .. Len(s) : t[k] = s[k]
  OBVIOUS
<1> HIDE DEF next, t
<1>4. \A i \in 0 .. taps - 1 : next.hist[i + taps] = next.hist[i]
  <2> TAKE i \in 0 .. taps - 1
  <2>1. /\ i \in 0 .. 2 * taps - 1 /\ i + taps \in 0 .. 2 * taps - 1
        /\ i \in {pos, pos + taps} <=> i + taps \in {pos, pos + taps}
    BY <1>1
  <2>2. fir.hist[i + taps] = fir.hist[i]
    BY DEF FirHolds
  <2> HIDE DEF pos
  <2>3. QED BY <1>2, <2>1, <2>2
<1>5. \A i \in 1 .. taps :
        next.hist[pos + i] =
          IF Len(t) - taps + i >= 1 THEN t[Len(t) - taps + i] ELSE Silence
  <2> SUFFICES ASSUME NEW i \in 1 .. taps
               PROVE  next.hist[pos + i] =
                        IF Len(t) - taps + i >= 1 THEN t[Len(t) - taps + i] ELSE Silence
    OBVIOUS
  <2>1. CASE i = taps
    <3>1. Len(t) - taps + i = Len(t) /\ Len(t) >= 1
      BY <1>3, <2>1
    <3>2. pos + i \in 0 .. 2 * taps - 1 /\ pos + i = pos + taps
      BY <1>1, <2>1
    <3>3. next.hist[pos + i] = x
      BY <1>2, <3>2
    <3>4. QED BY <1>3, <3>1, <3>3
  <2>2. CASE i # taps
    <3>1. next.hist[pos + i] = fir.hist[pos + i]
      BY <1>1, <1>2, <2>2
    <3>2. i + 1 \in 1 .. taps
      BY <2>2
    <3>3. fir.hist[pos + (i + 1) - 1] =
            IF Len(s) - taps + (i + 1) >= 1 THEN s[Len(s) - taps + (i + 1)] ELSE Silence
      BY <3>2 DEF FirHolds
    <3>4. pos + (i + 1) - 1 = pos + i
      BY <1>1
    <3>5. Len(s) - taps + (i + 1) = Len(t) - taps + i
      BY <1>3
    <3>6. Len(t) - taps + i <= Len(s)
      BY <1>3, <2>2
    <3>7. QED
      BY <1>3, <3>1, <3>3, <3>4, <3>5, <3>6
  <2>3. QED BY <2>1, <2>2
<1>6. \A i \in 1 .. taps :
        next.hist[next.pos + i - 1] =
          IF Len(t) - taps + i >= 1 THEN t[Len(t) - taps + i] ELSE Silence
  <2>1. CASE pos + 1 # taps
    <3>1. next.pos = pos + 1
      BY <1>2, <2>1
    <3>2. \A i \in 1 .. taps : next.pos + i - 1 = pos + i
      BY <1>1, <3>1
    <3>3. QED BY <1>5, <3>2
  <2>2. CASE pos + 1 = taps
    <3>1. \A i \in 1 .. taps : next.hist[i - 1] = next.hist[pos + i]
      <4> TAKE i \in 1 .. taps
      <4>1. i - 1 \in 0 .. taps - 1 /\ (i - 1) + taps = pos + i
        BY <1>1, <2>2
      <4>2. QED BY <1>4, <4>1
    <3>2. next.pos = 0
      BY <1>2, <2>2
    <3>3. \A i \in 1 .. taps : next.pos + i - 1 = i - 1
      BY <3>2
    <3>4. QED BY <1>5, <3>1, <3>2, <3>3
  <2>3. QED BY <2>1, <2>2
<1>7. FirHolds(next, taps, t)
  <2>1. next.hist = [i \in 0 .. 2 * taps - 1 |-> next.hist[i]]
    BY <1>2
  <2>2. next.pos \in 0 .. taps - 1
    BY <1>1, <1>2
  <2>3. QED BY <1>2, <1>4, <1>6, <2>1, <2>2 DEF FirHolds
<1>8. Taken(fir, taps, x) = LastOf(t, Len(s) + 1, taps)
  <2>1. Taken(fir, taps, x) = [i \in 1 .. taps |-> next.hist[pos + i]]
    BY DEF Taken, next
  <2>2. QED BY <1>3, <1>5, <2>1 DEF LastOf
<1>9. QED
  BY <1>7, <1>8, Zenon DEF next, t

-----------------------------------------------------------------------------
(* The chain.  How far its mixer and first filter, its decimator and its   *)
(* demodulator have come is three streams of their own: a block passes one *)
(* loop after the other.                                                   *)
Filtered(chain, s) ==
  /\ chain.lo = (Len(s) * LoStep) % 65536
  /\ FirHolds(chain.aa, AaTaps, Down(s))
  /\ chain.iq = Smooth(Down(s), AaTaps)

Decimated(chain, t) ==
  /\ chain.phase = Len(t) % 2
  /\ FirHolds(chain.dec, DecTaps, t)
  /\ chain.usb = EveryOther(Smooth(t, DecTaps))

(* What the narrow filter should take for the k-th sample.                 *)
Audio(t, k) ==
  [tone |-> LastOf(t, k, SsbTaps), by |-> ReadIq(((k - 1) * BfoStep) % 65536)]

Audios(t) == [k \in 1 .. Len(t) |-> Audio(t, k)]

Demodulated(chain, t) ==
  /\ chain.bfo = (Len(t) * BfoStep) % 65536
  /\ FirHolds(chain.ssb, SsbTaps, t)
  /\ chain.narrow = Audios(t)
  /\ chain.agc = t

LEMMA AppendIs ==
  ASSUME NEW S, NEW d \in Seq(S), NEW m \in S
  PROVE  Append(d, m) =
           [k \in 1 .. Len(d) + 1 |-> IF k = Len(d) + 1 THEN m ELSE d[k]]
<1> DEFINE a == Append(d, m)
<1>1. /\ a \in Seq(S) /\ Len(a) = Len(d) + 1 /\ Len(d) \in Nat
      /\ a[Len(d) + 1] = m /\ \A k \in 1 .. Len(d) : a[k] = d[k]
  OBVIOUS
<1> HIDE DEF a
<1>2. a = [k \in 1 .. Len(a) |-> a[k]]
  BY <1>1
<1>3. \A k \in 1 .. Len(d) + 1 : a[k] = IF k = Len(d) + 1 THEN m ELSE d[k]
  BY <1>1
<1>4. a = [k \in 1 .. Len(d) + 1 |-> IF k = Len(d) + 1 THEN m ELSE d[k]]
  BY <1>1, <1>2, <1>3
<1>5. QED BY <1>4 DEF a

(* The last elements up to the k-th are the same in a longer stream.       *)
LEMMA LastOfLonger ==
  ASSUME NEW taps \in Nat \ {0}, NEW S, NEW s \in Seq(S), NEW x \in S,
         NEW k \in 1 .. Len(s)
  PROVE  LastOf(Append(s, x), k, taps) = LastOf(s, k, taps)
BY DEF LastOf

LEMMA SmoothGrows ==
  ASSUME NEW taps \in Nat \ {0}, NEW S, NEW s \in Seq(S), NEW x \in S
  PROVE  Smooth(Append(s, x), taps) =
           Append(Smooth(s, taps), LastOf(Append(s, x), Len(s) + 1, taps))
<1> DEFINE t == Append(s, x)
           v == LastOf(t, Len(s) + 1, taps)
<1>1. Len(t) = Len(s) + 1 /\ Len(s) \in Nat
  OBVIOUS
<1>2. \A k \in 1 .. Len(s) : LastOf(t, k, taps) = LastOf(s, k, taps)
  BY LastOfLonger
<1>3. Smooth(t, taps) = [k \in 1 .. Len(t) |-> LastOf(t, k, taps)]
  BY DEF Smooth
<1>4. Smooth(s, taps) = [k \in 1 .. Len(s) |-> LastOf(s, k, taps)]
  BY DEF Smooth
<1>5. Append(Smooth(s, taps), v) =
        [k \in 1 .. Len(s) + 1 |-> IF k = Len(s) + 1 THEN v ELSE LastOf(s, k, taps)]
  <2> HIDE DEF t, v
  <2>1. QED BY <1>1, <1>4
<1> HIDE DEF t, v
<1>6. Smooth(t, taps) = Append(Smooth(s, taps), v)
  <2>1. \A k \in 1 .. Len(s) + 1 :
          LastOf(t, k, taps) = IF k = Len(s) + 1 THEN v ELSE LastOf(s, k, taps)
    BY <1>1, <1>2 DEF v
  <2>2. Smooth(t, taps) = [k \in 1 .. Len(s) + 1 |-> LastOf(t, k, taps)]
    BY <1>1, <1>3, Zenon
  <2>3. QED BY <1>5, <2>1, <2>2
<1>7. QED BY <1>6, Zenon DEF t, v

LEMMA EveryOtherGrows ==
  ASSUME NEW S, NEW u \in Seq(S), NEW v \in S
  PROVE  EveryOther(Append(u, v)) =
           IF Len(u) % 2 = 1 THEN EveryOther(u) ELSE Append(EveryOther(u), v)
<1> DEFINE w == Append(u, v)
           n == Len(u)
           half == (n + 1) \div 2
<1>1. n \in Nat /\ Len(w) = n + 1 /\ w[n + 1] = v /\ \A k \in 1 .. n : w[k] = u[k]
  OBVIOUS
<1>2. EveryOther(w) = [k \in 1 .. (n + 2) \div 2 |-> w[2 * k - 1]]
  BY <1>1 DEF EveryOther
<1>3. EveryOther(u) = [k \in 1 .. half |-> u[2 * k - 1]]
  BY DEF EveryOther
<1> HIDE DEF w, n
<1>4. half \in Nat /\ \A k \in 1 .. half : 2 * k - 1 \in 1 .. n
  BY <1>1
<1>5. CASE n % 2 = 1
  <2>1. (n + 2) \div 2 = half
    BY <1>1, <1>5
  <2>2. EveryOther(w) = EveryOther(u)
    BY <1>1, <1>2, <1>3, <1>4, <2>1
  <2>3. QED BY <1>5, <2>2 DEF w, n
<1>6. CASE n % 2 # 1
  <2>1. (n + 2) \div 2 = half + 1 /\ 2 * (half + 1) - 1 = n + 1
    BY <1>1, <1>6
  <2>2. Append(EveryOther(u), v) =
          [k \in 1 .. half + 1 |-> IF k = half + 1 THEN v ELSE u[2 * k - 1]]
    <3> HIDE DEF half
    <3>1. QED BY <1>3, <1>4
  <2>3. \A k \in 1 .. half + 1 :
          w[2 * k - 1] = IF k = half + 1 THEN v ELSE u[2 * k - 1]
    <3> HIDE DEF half
    <3>1. QED BY <1>1, <1>4, <2>1
  <2>4. EveryOther(w) = Append(EveryOther(u), v)
    <3> HIDE DEF half
    <3>1. QED BY <1>2, <2>1, <2>2, <2>3
  <2>5. QED BY <1>6, <2>4 DEF w, n
<1>7. QED BY <1>5, <1>6

(* The local oscillator is at a quarter of the sampling rate.              *)
LEMMA QuarterIs ==
  ASSUME NEW n \in Nat
  PROVE  ReadIq((n * LoStep) % 65536) = Quarters[(n % 4) + 1]
<1> DEFINE m == n % 4
<1>1. LoStep = 16384
  BY DEF LoStep, Increment
<1>2. m \in {0, 1, 2, 3} /\ (n * 16384) % 65536 = m * 16384
  OBVIOUS
<1> HIDE DEF m
<1>3. ReadIq(m * 16384) = Quarters[m + 1]
  <2>1. /\ 0 % 65536 = 0 /\ 16384 % 65536 = 16384 /\ 32768 % 65536 = 32768
        /\ 49152 % 65536 = 49152 /\ 65536 % 65536 = 0
    OBVIOUS
  <2>2. /\ Sine(0) = 0 /\ Sine(16384) = 16383 /\ Sine(32768) = 0
        /\ Sine(49152) = -16383 /\ Sine(65536) = 0
    <3>1. Sine(0) = 0
      BY DEF Sine
    <3>2. Sine(16384) = 16383
      BY DEF Sine
    <3>3. Sine(32768) = 0
      BY DEF Sine
    <3>4. Sine(49152) = -16383
      BY DEF Sine
    <3>5. Sine(65536) = 0
      BY DEF Sine
    <3>6. QED BY <3>1, <3>2, <3>3, <3>4, <3>5
  <2>3. /\ ReadIq(0) = Quarters[1] /\ ReadIq(16384) = Quarters[2]
        /\ ReadIq(32768) = Quarters[3] /\ ReadIq(49152) = Quarters[4]
    BY <2>1, <2>2 DEF ReadIq, Quarters
  <2>4. QED BY <1>2, <2>3
<1>4. QED BY <1>1, <1>2, <1>3 DEF m

IsChain(chain) ==
  chain = [f \in {"lo", "aa", "dec", "phase", "ssb", "bfo", "narrow", "agc", "on",
                  "iq", "usb", "speaker"} |-> chain[f]]

(* At power up nothing has passed.                                         *)
LEMMA FreshChain ==
  /\ IsChain(Fresh)
  /\ Filtered(Fresh, <<>>) /\ Decimated(Fresh, <<>>) /\ Demodulated(Fresh, <<>>)
<1>1. IsChain(Fresh)
  BY DEF IsChain, Fresh
<1>2. /\ Fresh.lo = 0 /\ Fresh.phase = 0 /\ Fresh.bfo = 0
      /\ Fresh.iq = <<>> /\ Fresh.usb = <<>> /\ Fresh.speaker = <<>>
      /\ Fresh.narrow = <<>> /\ Fresh.agc = <<>>
      /\ Fresh.aa = NewFir(AaTaps) /\ Fresh.dec = NewFir(DecTaps)
      /\ Fresh.ssb = NewFir(SsbTaps)
  BY DEF Fresh
<1>3. Down(<<>>) = <<>> /\ \A taps : Smooth(<<>>, taps) = <<>>
  BY DEF Down, Smooth
<1>4. EveryOther(<<>>) = <<>>
  BY DEF EveryOther
<1>5. LoStep \in Nat /\ BfoStep \in Nat
  BY DEF LoStep, BfoStep, Increment
<1>6. Filtered(Fresh, <<>>)
  BY <1>2, <1>3, <1>5, NewFirHolds, ChainAssumption DEF Filtered
<1>7. Decimated(Fresh, <<>>)
  BY <1>2, <1>3, <1>4, NewFirHolds, ChainAssumption DEF Decimated
<1>8. Demodulated(Fresh, <<>>)
  BY <1>2, <1>5, NewFirHolds, ChainAssumption DEF Demodulated, Audios
<1>9. QED BY <1>1, <1>6, <1>7, <1>8

(* A captured sample more: mixed with the oscillator where it has come to, *)
(* and filtered with the last ones, in whatever block they came.           *)
THEOREM FilterGoesOn ==
  ASSUME NEW S, NEW s \in Seq(S), NEW x \in S, NEW chain, IsChain(chain),
         Filtered(chain, s)
  PROVE  LET next == Filter(chain, x)
         IN /\ IsChain(next) /\ Filtered(next, Append(s, x))
            /\ next.dec = chain.dec /\ next.phase = chain.phase
            /\ next.usb = chain.usb /\ next.ssb = chain.ssb
            /\ next.bfo = chain.bfo /\ next.narrow = chain.narrow
            /\ next.agc = chain.agc /\ next.speaker = chain.speaker
            /\ next.on = chain.on
<1> DEFINE next == Filter(chain, x)
           n    == Len(s)
           m    == Mixed(x, chain.lo)
           T    == [sample : S, by : {Quarters[i] : i \in 1 .. 4}]
<1>1. n \in Nat
  OBVIOUS
<1>2. /\ next.lo = Advance(chain.lo, LoStep)
      /\ next.aa = Push(chain.aa, AaTaps, m)
      /\ next.iq = Append(chain.iq, Taken(chain.aa, AaTaps, m))
      /\ next.dec = chain.dec /\ next.phase = chain.phase
      /\ next.usb = chain.usb /\ next.ssb = chain.ssb
      /\ next.bfo = chain.bfo /\ next.narrow = chain.narrow
      /\ next.agc = chain.agc /\ next.speaker = chain.speaker
      /\ next.on = chain.on /\ IsChain(next)
  BY DEF IsChain, Filter
<1>3. m = [sample |-> x, by |-> Quarters[(n % 4) + 1]]
  BY <1>1, QuarterIs DEF Mixed, Filtered
<1>4. (n % 4) + 1 \in 1 .. 4 /\ \A k \in 1 .. n : ((k - 1) % 4) + 1 \in 1 .. 4
  BY <1>1
<1> HIDE DEF next, m, n
<1>5. m \in T
  BY <1>3, <1>4
<1>6. Down(s) \in Seq(T) /\ Len(Down(s)) = n
  <2>1. Down(s) = [k \in 1 .. n |->
                     [sample |-> s[k], by |-> Quarters[((k - 1) % 4) + 1]]]
    BY DEF Down, n
  <2>2. \A k \in 1 .. n :
          [sample |-> s[k], by |-> Quarters[((k - 1) % 4) + 1]] \in T
    BY <1>4 DEF n
  <2> HIDE DEF T
  <2>3. QED BY <1>1, <2>1, <2>2
<1>7. Down(Append(s, x)) = Append(Down(s), m)
  <2>1. Down(Append(s, x)) =
          [k \in 1 .. n + 1 |-> [sample |-> Append(s, x)[k],
                                 by |-> Quarters[((k - 1) % 4) + 1]]]
    BY <1>1 DEF Down, n
  <2>2. \A k \in 1 .. n + 1 :
          [sample |-> Append(s, x)[k], by |-> Quarters[((k - 1) % 4) + 1]] =
          IF k = n + 1 THEN m ELSE Down(s)[k]
    <3>1. Append(s, x)[n + 1] = x /\ \A k \in 1 .. n : Append(s, x)[k] = s[k]
      BY DEF n
    <3>2. \A k \in 1 .. n :
            Down(s)[k] = [sample |-> s[k], by |-> Quarters[((k - 1) % 4) + 1]]
      BY DEF Down, n
    <3>3. (n + 1) - 1 = n
      BY <1>1
    <3>4. TAKE k \in 1 .. n + 1
    <3>5. CASE k = n + 1
      BY <1>3, <3>1, <3>3, <3>5
    <3>6. CASE k # n + 1
      <4>1. k \in 1 .. n
        BY <1>1, <3>6
      <4>2. QED BY <3>1, <3>2, <3>6, <4>1
    <3>7. QED BY <3>5, <3>6
  <2>3. Append(Down(s), m) =
          [k \in 1 .. n + 1 |-> IF k = n + 1 THEN m ELSE Down(s)[k]]
    <3> HIDE DEF T
    <3> DEFINE d == Down(s)
    <3>1. d \in Seq(T) /\ Len(d) = n
      BY <1>6
    <3> HIDE DEF d
    <3>2. Append(d, m) = [k \in 1 .. Len(d) + 1 |-> IF k = Len(d) + 1 THEN m ELSE d[k]]
      BY <1>5, <3>1, AppendIs
    <3>3. Append(d, m) = [k \in 1 .. n + 1 |-> IF k = n + 1 THEN m ELSE d[k]]
      BY <3>1, <3>2
    <3>4. QED BY <3>3 DEF d
  <2>4. QED BY <2>1, <2>2, <2>3
<1> HIDE DEF T
<1>8. /\ FirHolds(next.aa, AaTaps, Down(Append(s, x)))
      /\ next.iq = Smooth(Down(Append(s, x)), AaTaps)
  <2>1. next.aa = Push(chain.aa, AaTaps, m)
        /\ next.iq = Append(Smooth(Down(s), AaTaps), Taken(chain.aa, AaTaps, m))
    BY <1>2 DEF Filtered
  <2>2. AaTaps \in Nat \ {0} /\ FirHolds(chain.aa, AaTaps, Down(s))
    BY ChainAssumption DEF Filtered
  <2>3. QED
    BY <1>5, <1>6, <1>7, <2>1, <2>2, FirGoesOn, SmoothGrows
<1>9. next.lo = (Len(Append(s, x)) * LoStep) % 65536
  <2>1. LoStep = 16384
    BY DEF LoStep, Increment
  <2>2. chain.lo = (n * 16384) % 65536
    BY <2>1 DEF Filtered, n
  <2>3. next.lo = (chain.lo + 16384) % 65536 /\ Len(Append(s, x)) = n + 1
    BY <1>2, <2>1 DEF Advance, n
  <2>4. QED BY <1>1, <2>1, <2>2, <2>3
<1>10. QED
  BY <1>2, <1>8, <1>9 DEF IsChain, Filtered, next

(* A filtered sample more for the USB gadget: the history takes every one  *)
(* and every other one makes an output, which of them being decided by the *)
(* whole stream and not by where a block began.                            *)
THEOREM DecimateGoesOn ==
  ASSUME NEW S, NEW t \in Seq(S), NEW y \in S, NEW chain, IsChain(chain),
         Decimated(chain, t)
  PROVE  LET next == Decimate(chain, y)
         IN /\ IsChain(next) /\ Decimated(next, Append(t, y))
            /\ next.lo = chain.lo /\ next.aa = chain.aa /\ next.iq = chain.iq
            /\ next.ssb = chain.ssb /\ next.bfo = chain.bfo
            /\ next.narrow = chain.narrow /\ next.agc = chain.agc
            /\ next.speaker = chain.speaker /\ next.on = chain.on
<1> DEFINE next == Decimate(chain, y)
           n    == Len(t)
           out  == Taken(chain.dec, DecTaps, y)
           old  == Smooth(t, DecTaps)
<1>1. /\ next.phase = 1 - chain.phase
      /\ next.dec = Push(chain.dec, DecTaps, y)
      /\ next.usb = IF chain.phase = 1 THEN chain.usb ELSE Append(chain.usb, out)
      /\ next.lo = chain.lo /\ next.aa = chain.aa /\ next.iq = chain.iq
      /\ next.ssb = chain.ssb /\ next.bfo = chain.bfo
      /\ next.narrow = chain.narrow /\ next.agc = chain.agc
      /\ next.speaker = chain.speaker /\ next.on = chain.on
      /\ IsChain(next)
  BY DEF IsChain, Decimate
<1>2. n \in Nat /\ Len(Append(t, y)) = n + 1
  OBVIOUS
<1> HIDE DEF next, n, out
<1>3. chain.phase = n % 2 /\ FirHolds(chain.dec, DecTaps, t)
      /\ chain.usb = EveryOther(old)
  BY DEF Decimated, n
<1>4. /\ FirHolds(next.dec, DecTaps, Append(t, y))
      /\ Smooth(Append(t, y), DecTaps) = Append(old, out)
  <2>1. DecTaps \in Nat \ {0}
    BY ChainAssumption
  <2>2. QED BY <1>1, <1>3, <2>1, FirGoesOn, SmoothGrows DEF out
<1>5. EveryOther(Append(old, out)) =
        IF n % 2 = 1 THEN EveryOther(old) ELSE Append(EveryOther(old), out)
  <2> DEFINE V == {LastOf(t, k, DecTaps) : k \in 1 .. n} \union {out}
  <2>1. old = [k \in 1 .. n |-> LastOf(t, k, DecTaps)]
    BY DEF Smooth, n
  <2>2. \A k \in 1 .. n : LastOf(t, k, DecTaps) \in V
    OBVIOUS
  <2>3. out \in V
    OBVIOUS
  <2> HIDE DEF V, old
  <2>4. old \in Seq(V) /\ Len(old) = n
    BY <1>2, <2>1, <2>2
  <2>5. QED BY <2>3, <2>4, EveryOtherGrows
<1> HIDE DEF old
<1>6. next.usb = EveryOther(Smooth(Append(t, y), DecTaps))
  BY <1>1, <1>2, <1>3, <1>4, <1>5
<1>7. next.phase = Len(Append(t, y)) % 2
  BY <1>1, <1>2, <1>3
<1>8. Decimated(next, Append(t, y))
  BY <1>4, <1>6, <1>7 DEF Decimated
<1>9. QED BY <1>1, <1>8 DEF next

(* A filtered sample more for the speaker: the sideband filter, the beat   *)
(* oscillator, the narrow filter and the gain run on over the end of a     *)
(* block, and what is heard is decided by the samples and by where the     *)
(* switch of the narrow filter is now, not by where it was before.         *)
THEOREM DemodulateGoesOn ==
  ASSUME NEW S, NEW t \in Seq(S), NEW y \in S, NEW chain, IsChain(chain),
         Demodulated(chain, t)
  PROVE  LET next == Demodulate(chain, y)
             all  == Append(t, y)
         IN /\ IsChain(next) /\ Demodulated(next, all)
            /\ next.speaker = Append(chain.speaker, Heard(chain.on, Audios(all), all))
            /\ next.lo = chain.lo /\ next.aa = chain.aa /\ next.iq = chain.iq
            /\ next.dec = chain.dec /\ next.phase = chain.phase
            /\ next.usb = chain.usb /\ next.on = chain.on
<1> DEFINE next == Demodulate(chain, y)
           n    == Len(t)
           out  == [tone |-> Taken(chain.ssb, SsbTaps, y), by |-> ReadIq(chain.bfo)]
           wide == Append(chain.narrow, out)
<1>1. /\ next.ssb = Push(chain.ssb, SsbTaps, y)
      /\ next.bfo = Advance(chain.bfo, BfoStep)
      /\ next.narrow = wide
      /\ next.agc = Append(chain.agc, y)
      /\ next.speaker = Append(chain.speaker, Heard(chain.on, wide, Append(chain.agc, y)))
      /\ next.lo = chain.lo /\ next.aa = chain.aa /\ next.iq = chain.iq
      /\ next.dec = chain.dec /\ next.phase = chain.phase /\ next.usb = chain.usb
      /\ next.on = chain.on
      /\ IsChain(next)
  BY DEF IsChain, Demodulate, Sideband
<1>2. n \in Nat /\ Len(Append(t, y)) = n + 1
  OBVIOUS
<1>3. SsbTaps \in Nat \ {0}
  BY ChainAssumption
<1> HIDE DEF next, n, wide
<1>4. /\ chain.bfo = (n * BfoStep) % 65536
      /\ FirHolds(chain.ssb, SsbTaps, t)
      /\ chain.narrow = [k \in 1 .. n |-> Audio(t, k)]
      /\ chain.agc = t
  BY DEF Demodulated, Audios, n
<1>5. /\ FirHolds(next.ssb, SsbTaps, Append(t, y))
      /\ Taken(chain.ssb, SsbTaps, y) = LastOf(Append(t, y), n + 1, SsbTaps)
  BY <1>1, <1>3, <1>4, FirGoesOn DEF n
<1>6. out = Audio(Append(t, y), n + 1)
  <2>1. (n + 1) - 1 = n
    BY <1>2
  <2>2. QED BY <1>4, <1>5, <2>1 DEF Audio
<1>7. \A k \in 1 .. n : Audio(Append(t, y), k) = Audio(t, k)
  BY <1>3, LastOfLonger DEF n, Audio
<1>8. wide = Audios(Append(t, y))
  <2> DEFINE V == {Audio(t, k) : k \in 1 .. n} \union {out}
             d == chain.narrow
  <2>1. out \in V /\ \A k \in 1 .. n : Audio(t, k) \in V
    OBVIOUS
  <2> HIDE DEF V, out
  <2>2. d \in Seq(V) /\ Len(d) = n /\ \A k \in 1 .. n : d[k] = Audio(t, k)
    BY <1>2, <1>4, <2>1
  <2>3. wide = Append(d, out)
    BY DEF wide, out
  <2> HIDE DEF d
  <2>4. Append(d, out) = [k \in 1 .. Len(d) + 1 |-> IF k = Len(d) + 1 THEN out ELSE d[k]]
    BY <2>1, <2>2, AppendIs
  <2>5. Append(d, out) = [k \in 1 .. n + 1 |-> IF k = n + 1 THEN out ELSE d[k]]
    BY <2>2, <2>4
  <2>6. \A k \in 1 .. n + 1 :
          (IF k = n + 1 THEN out ELSE d[k]) = Audio(Append(t, y), k)
    BY <1>2, <1>6, <1>7, <2>2
  <2>7. Append(d, out) = [k \in 1 .. n + 1 |-> Audio(Append(t, y), k)]
    BY <2>5, <2>6
  <2>8. QED BY <1>2, <2>3, <2>7 DEF Audios
<1>9. next.bfo = ((n + 1) * BfoStep) % 65536
  <2>1. BfoStep \in Nat
    BY DEF BfoStep, Increment
  <2>2. next.bfo = (((n * BfoStep) % 65536) + BfoStep) % 65536
    BY <1>1, <1>4 DEF Advance
  <2> DEFINE z == n * BfoStep
  <2>3. z \in Nat /\ (n + 1) * BfoStep = z + BfoStep
    BY <1>2, <2>1
  <2> HIDE DEF z
  <2>4. ((z % 65536) + BfoStep) % 65536 = (z + BfoStep) % 65536
    BY <2>1, <2>3
  <2>5. QED BY <2>2, <2>3, <2>4 DEF z
<1> HIDE DEF out
<1>10. next.agc = Append(t, y)
  BY <1>1, <1>4
<1>11. Demodulated(next, Append(t, y))
  BY <1>1, <1>2, <1>5, <1>8, <1>9, <1>10 DEF Demodulated
<1>12. next.speaker =
         Append(chain.speaker, Heard(chain.on, Audios(Append(t, y)), Append(t, y)))
  BY <1>1, <1>4, <1>8
<1>13. QED BY <1>1, <1>11, <1>12 DEF next

-----------------------------------------------------------------------------
(* The receive path as the loops run over it.  The k-th sample is k; the   *)
(* k-th mixed one, and what the taps of the first filter meet then.        *)
Samples == Nat

Numbers(m) == [k \in 1 .. m |-> k]

Mix(k) == [sample |-> k, by |-> Quarters[((k - 1) % 4) + 1]]

Iq(k) == [i \in 1 .. AaTaps |->
            IF k - AaTaps + i >= 1 THEN Mix(k - AaTaps + i) ELSE Silence]

IqTo(m) == [k \in 1 .. m |-> Iq(k)]

Iqs == {Iq(k) : k \in Nat}

LEMMA NumbersGrow ==
  ASSUME NEW m \in Nat
  PROVE  /\ Numbers(m) \in Seq(Samples) /\ Len(Numbers(m)) = m
         /\ Numbers(m + 1) = Append(Numbers(m), m + 1)
BY DEF Numbers, Samples

LEMMA IqGrows ==
  ASSUME NEW m \in Nat
  PROVE  /\ IqTo(m) \in Seq(Iqs) /\ Len(IqTo(m)) = m
         /\ Iq(m + 1) \in Iqs
         /\ IqTo(m + 1) = Append(IqTo(m), Iq(m + 1))
<1>1. \A k \in 1 .. m + 1 : Iq(k) \in Iqs
  BY DEF Iqs
<1>2. IqTo(m) \in Seq(Iqs) /\ Len(IqTo(m)) = m
  BY <1>1 DEF IqTo
<1>3. IqTo(m + 1) = Append(IqTo(m), Iq(m + 1))
  BY <1>1 DEF IqTo
<1>4. QED BY <1>1, <1>2, <1>3

LEMMA IqIsSmooth ==
  ASSUME NEW m \in Nat
  PROVE  Smooth(Down(Numbers(m)), AaTaps) = IqTo(m)
<1> DEFINE d == Down(Numbers(m))
<1>1. /\ d = [k \in 1 .. m |-> Mix(k)]
      /\ Len(d) = m
  BY DEF Down, Numbers, Mix
<1> HIDE DEF d
<1>2. \A k \in 1 .. m : LastOf(d, k, AaTaps) = Iq(k)
  <2> TAKE k \in 1 .. m
  <2>1. AaTaps \in Nat
    BY ChainAssumption
  <2>2. \A i \in 1 .. AaTaps : k - AaTaps + i >= 1 => k - AaTaps + i \in 1 .. m
    BY <2>1
  <2>3. \A i \in 1 .. AaTaps :
          (IF k - AaTaps + i >= 1 THEN d[k - AaTaps + i] ELSE Silence) =
          (IF k - AaTaps + i >= 1 THEN Mix(k - AaTaps + i) ELSE Silence)
    BY <1>1, <2>2
  <2>4. QED BY <2>3 DEF LastOf, Iq
<1>3. Smooth(d, AaTaps) = [k \in 1 .. m |-> LastOf(d, k, AaTaps)]
  BY <1>1 DEF Smooth
<1>4. Smooth(d, AaTaps) = IqTo(m)
  BY <1>2, <1>3 DEF IqTo
<1>5. QED BY <1>4 DEF d

(* r has filtered a samples, decimated b and demodulated c of them, with   *)
(* the narrow filter on or off as w says.                                  *)
HasCome(r, w, a, b, c) ==
  /\ IsChain(r) /\ r.on \in BOOLEAN
  /\ Filtered(r, Numbers(a))
  /\ Decimated(r, IqTo(b))
  /\ Demodulated(r, IqTo(c))
  /\ w \in Seq(BOOLEAN) /\ Len(w) = c
  /\ r.speaker = [k \in 1 .. c |-> Heard(w[k], Audios(IqTo(k)), IqTo(k))]

LEMMA FilterStep ==
  ASSUME NEW r, NEW w, NEW a \in Nat, NEW b \in Nat, NEW c \in Nat,
         HasCome(r, w, a, b, c), NEW x \in Samples, x = a + 1
  PROVE  HasCome(Filter(r, x), w, x, b, c)
<1> DEFINE next == Filter(r, x)
<1>1. /\ IsChain(next) /\ Filtered(next, Append(Numbers(a), x))
      /\ next.dec = r.dec /\ next.phase = r.phase
      /\ next.usb = r.usb /\ next.ssb = r.ssb
      /\ next.bfo = r.bfo /\ next.narrow = r.narrow
      /\ next.agc = r.agc /\ next.speaker = r.speaker /\ next.on = r.on
  <2>1. Numbers(a) \in Seq(Samples)
    BY NumbersGrow
  <2>2. IsChain(r) /\ Filtered(r, Numbers(a))
    BY DEF HasCome
  <2>3. QED BY <2>1, <2>2, FilterGoesOn
<1>2. Numbers(x) = Append(Numbers(a), x)
  BY NumbersGrow
<1> HIDE DEF next
<1>3. Filtered(next, Numbers(x))
  BY <1>1, <1>2, Zenon
<1>4. Decimated(next, IqTo(b))
  BY <1>1 DEF HasCome, Decimated
<1>5. Demodulated(next, IqTo(c))
  BY <1>1 DEF HasCome, Demodulated
<1>6. HasCome(next, w, x, b, c)
  BY <1>1, <1>3, <1>4, <1>5 DEF HasCome
<1>7. QED BY <1>6 DEF next

(* What is still to be decimated or demodulated is in the two arrays.      *)
LEMMA ReadyIs ==
  ASSUME NEW r, NEW w, NEW a \in Nat, NEW b, NEW c,
         HasCome(r, w, a, b, c), NEW k \in Nat, k < a
  PROVE  r.iq[k + 1] = Iq(k + 1)
<1>1. r.iq = IqTo(a)
  BY IqIsSmooth DEF HasCome, Filtered
<1>2. QED BY <1>1 DEF IqTo

LEMMA DecimateStep ==
  ASSUME NEW r, NEW w, NEW a \in Nat, NEW b \in Nat, NEW c \in Nat,
         HasCome(r, w, a, b, c)
  PROVE  HasCome(Decimate(r, Iq(b + 1)), w, a, b + 1, c)
<1> DEFINE next == Decimate(r, Iq(b + 1))
<1>1. /\ IsChain(next) /\ Decimated(next, IqTo(b + 1))
      /\ next.lo = r.lo /\ next.aa = r.aa /\ next.iq = r.iq
      /\ next.ssb = r.ssb /\ next.bfo = r.bfo
      /\ next.narrow = r.narrow /\ next.agc = r.agc
      /\ next.speaker = r.speaker /\ next.on = r.on
  <2>1. IqTo(b) \in Seq(Iqs) /\ Iq(b + 1) \in Iqs
    BY IqGrows
  <2>2. IsChain(r) /\ Decimated(r, IqTo(b))
    BY DEF HasCome
  <2>3. /\ IsChain(next) /\ Decimated(next, Append(IqTo(b), Iq(b + 1)))
        /\ next.lo = r.lo /\ next.aa = r.aa /\ next.iq = r.iq
        /\ next.ssb = r.ssb /\ next.bfo = r.bfo
        /\ next.narrow = r.narrow /\ next.agc = r.agc
        /\ next.speaker = r.speaker /\ next.on = r.on
    BY <2>1, <2>2, DecimateGoesOn
  <2>4. IqTo(b + 1) = Append(IqTo(b), Iq(b + 1))
    BY IqGrows
  <2>5. QED BY <2>3, <2>4, Zenon
<1> HIDE DEF next
<1>2. Filtered(next, Numbers(a))
  BY <1>1 DEF HasCome, Filtered
<1>3. Demodulated(next, IqTo(c))
  BY <1>1 DEF HasCome, Demodulated
<1>4. HasCome(next, w, a, b + 1, c)
  BY <1>1, <1>2, <1>3 DEF HasCome
<1>5. QED BY <1>4 DEF next

LEMMA DemodulateStep ==
  ASSUME NEW r, NEW w, NEW a \in Nat, NEW b \in Nat, NEW c \in Nat,
         HasCome(r, w, a, b, c)
  PROVE  HasCome(Demodulate(r, Iq(c + 1)), Append(w, r.on), a, b, c + 1)
<1> DEFINE next  == Demodulate(r, Iq(c + 1))
           heard == Heard(r.on, Audios(IqTo(c + 1)), IqTo(c + 1))
           W     == Append(w, r.on)
           said(k) == Heard(w[k], Audios(IqTo(k)), IqTo(k))
<1>1. /\ IsChain(next) /\ Demodulated(next, IqTo(c + 1))
      /\ next.speaker = Append(r.speaker, heard)
      /\ next.lo = r.lo /\ next.aa = r.aa /\ next.iq = r.iq
      /\ next.dec = r.dec /\ next.phase = r.phase
      /\ next.usb = r.usb /\ next.on = r.on
  <2> DEFINE all == Append(IqTo(c), Iq(c + 1))
  <2>1. IqTo(c) \in Seq(Iqs) /\ Iq(c + 1) \in Iqs
    BY IqGrows
  <2>2. IsChain(r) /\ Demodulated(r, IqTo(c))
    BY DEF HasCome
  <2>3. /\ IsChain(next) /\ Demodulated(next, all)
        /\ next.speaker = Append(r.speaker, Heard(r.on, Audios(all), all))
        /\ next.lo = r.lo /\ next.aa = r.aa /\ next.iq = r.iq
        /\ next.dec = r.dec /\ next.phase = r.phase
        /\ next.usb = r.usb /\ next.on = r.on
    BY <2>1, <2>2, DemodulateGoesOn
  <2>4. IqTo(c + 1) = all
    BY IqGrows
  <2>5. QED BY <2>3, <2>4, Zenon
<1>2. /\ W \in Seq(BOOLEAN) /\ Len(W) = c + 1
      /\ W[c + 1] = r.on /\ \A k \in 1 .. c : W[k] = w[k]
  BY DEF HasCome
<1>3. r.speaker = [k \in 1 .. c |-> said(k)]
  BY DEF HasCome
<1> HIDE DEF next, W
<1>4. next.speaker = [k \in 1 .. c + 1 |-> Heard(W[k], Audios(IqTo(k)), IqTo(k))]
  <2> DEFINE V == {said(k) : k \in 1 .. c} \union {heard}
             d == r.speaker
  <2>1. heard \in V /\ \A k \in 1 .. c : said(k) \in V
    OBVIOUS
  <2>2. \A k \in 1 .. c + 1 :
          Heard(W[k], Audios(IqTo(k)), IqTo(k)) = IF k = c + 1 THEN heard ELSE said(k)
    BY <1>2
  <2> HIDE DEF V, said, heard
  <2>3. d \in Seq(V) /\ Len(d) = c /\ \A k \in 1 .. c : d[k] = said(k)
    BY <1>3, <2>1
  <2> HIDE DEF d
  <2>4. Append(d, heard) =
          [k \in 1 .. Len(d) + 1 |-> IF k = Len(d) + 1 THEN heard ELSE d[k]]
    BY <2>1, <2>3, AppendIs
  <2>5. Append(d, heard) =
          [k \in 1 .. c + 1 |-> IF k = c + 1 THEN heard ELSE said(k)]
    BY <2>3, <2>4
  <2>6. next.speaker = Append(d, heard)
    BY <1>1 DEF d
  <2>7. QED BY <2>2, <2>5, <2>6
<1> HIDE DEF heard, said
<1>5. Filtered(next, Numbers(a))
  BY <1>1 DEF HasCome, Filtered
<1>6. Decimated(next, IqTo(b))
  BY <1>1 DEF HasCome, Decimated
<1>7. HasCome(next, W, a, b, c + 1)
  BY <1>1, <1>2, <1>4, <1>5, <1>6 DEF HasCome
<1>8. QED BY <1>7 DEF next, W

LEMMA SwitchStep ==
  ASSUME NEW r, NEW w, NEW a, NEW b, NEW c, HasCome(r, w, a, b, c),
         NEW enable \in BOOLEAN
  PROVE  HasCome([r EXCEPT !.on = enable], w, a, b, c)
<1> DEFINE next == [r EXCEPT !.on = enable]
<1>1. /\ IsChain(next) /\ next.on \in BOOLEAN
      /\ next.lo = r.lo /\ next.aa = r.aa /\ next.iq = r.iq
      /\ next.dec = r.dec /\ next.phase = r.phase /\ next.usb = r.usb
      /\ next.ssb = r.ssb /\ next.bfo = r.bfo /\ next.narrow = r.narrow
      /\ next.agc = r.agc /\ next.speaker = r.speaker
  BY DEF HasCome, IsChain
<1> HIDE DEF next
<1>2. HasCome(next, w, a, b, c)
  BY <1>1 DEF HasCome, Filtered, Decimated, Demodulated
<1>3. QED BY <1>2 DEF next

(* How far the three loops have come in the stream.                        *)
FilteredTo ==
  IF loop = "read" THEN begun
  ELSE IF loop = "filter" THEN begun + done ELSE begun + block

DecimatedTo ==
  IF loop = "demodulate" THEN begun + block
  ELSE IF loop = "decimate" THEN begun + done ELSE begun

HeardTo == IF loop = "demodulate" THEN begun + done ELSE begun

Progress ==
  /\ loop \in {"read", "filter", "decimate", "demodulate"}
  /\ begun \in Nat /\ block \in Nat /\ done \in Nat
  /\ IF loop = "read" THEN done = 0 ELSE done < block
  /\ HasCome(receiver, wasOn, FilteredTo, DecimatedTo, HeardTo)

LEMMA StartsProgress == ChainInit => Progress
<1> SUFFICES ASSUME ChainInit PROVE Progress
  OBVIOUS
<1>1. /\ receiver = Fresh /\ wasOn = <<>> /\ loop = "read"
      /\ begun = 0 /\ block = 0 /\ done = 0
  BY DEF ChainInit
<1>2. FilteredTo = 0 /\ DecimatedTo = 0 /\ HeardTo = 0
  BY <1>1 DEF FilteredTo, DecimatedTo, HeardTo
<1>3. Numbers(0) = <<>> /\ IqTo(0) = <<>>
  BY DEF Numbers, IqTo
<1>4. Fresh.on = TRUE /\ Fresh.speaker = <<>>
  BY DEF Fresh
<1>5. HasCome(Fresh, <<>>, 0, 0, 0)
  <2>1. Fresh.speaker = [k \in 1 .. 0 |-> Heard(<<>>[k], Audios(IqTo(k)), IqTo(k))]
    BY <1>4
  <2>2. <<>> \in Seq(BOOLEAN) /\ Len(<<>>) = 0
    OBVIOUS
  <2>3. QED BY <1>3, <1>4, <2>1, <2>2, FreshChain DEF HasCome
<1>6. QED BY <1>1, <1>2, <1>5 DEF Progress

LEMMA KeepsProgress == Progress /\ [ChainNext]_rxVars => Progress'
<1> SUFFICES ASSUME Progress, [ChainNext]_rxVars PROVE Progress'
  OBVIOUS
<1> USE DEF FilteredTo, DecimatedTo, HeardTo
<1>1. CASE ReadBlock
  <2>1. \E frames \in 1 .. MaxFrames : block' = frames
    BY <1>1 DEF ReadBlock
  <2>2. block' \in Nat /\ block' > 0
    BY <2>1, ChainAssumption
  <2>3. /\ FilteredTo' = FilteredTo /\ DecimatedTo' = DecimatedTo /\ HeardTo' = HeardTo
        /\ receiver' = receiver /\ wasOn' = wasOn
    BY <1>1 DEF ReadBlock, Progress
  <2>4. QED BY <1>1, <2>2, <2>3 DEF ReadBlock, Progress
<1>2. CASE FilterSample
  <2>1. FilteredTo = begun + done /\ DecimatedTo = begun /\ HeardTo = begun
    BY <1>2 DEF FilterSample
  <2>2. HasCome(receiver', wasOn', begun + done + 1, begun, begun)
    BY <1>2, <2>1, FilterStep DEF FilterSample, Progress, Samples
  <2>3. FilteredTo' = begun + done + 1 /\ DecimatedTo' = begun /\ HeardTo' = begun
    BY <1>2 DEF FilterSample, Onward, Progress
  <2>4. QED BY <1>2, <2>2, <2>3 DEF FilterSample, Onward, Progress
<1>3. CASE DecimateSample
  <2>1. FilteredTo = begun + block /\ DecimatedTo = begun + done /\ HeardTo = begun
    BY <1>3 DEF DecimateSample
  <2>2. Ready = Iq(begun + done + 1)
    <3>1. /\ begun + done \in Nat /\ begun + block \in Nat
          /\ begun + done < begun + block
          /\ HasCome(receiver, wasOn, begun + block, DecimatedTo, HeardTo)
      BY <1>3, <2>1 DEF DecimateSample, Progress
    <3> HIDE DEF DecimatedTo, HeardTo
    <3>2. QED BY <3>1, ReadyIs DEF Ready
  <2>3. HasCome(receiver', wasOn', begun + block, begun + done + 1, begun)
    BY <1>3, <2>1, <2>2, DecimateStep DEF DecimateSample, Progress
  <2>4. /\ FilteredTo' = begun + block /\ DecimatedTo' = begun + done + 1
        /\ HeardTo' = begun
    BY <1>3 DEF DecimateSample, Onward, Progress
  <2>5. QED BY <1>3, <2>3, <2>4 DEF DecimateSample, Onward, Progress
<1>4. CASE DemodulateSample
  <2>1. /\ FilteredTo = begun + block /\ DecimatedTo = begun + block
        /\ HeardTo = begun + done
    BY <1>4 DEF DemodulateSample
  <2>2. Ready = Iq(begun + done + 1)
    <3>1. /\ begun + done \in Nat /\ begun + block \in Nat
          /\ begun + done < begun + block
          /\ HasCome(receiver, wasOn, begun + block, DecimatedTo, HeardTo)
      BY <1>4, <2>1 DEF DemodulateSample, Progress
    <3> HIDE DEF DecimatedTo, HeardTo
    <3>2. QED BY <3>1, ReadyIs DEF Ready
  <2>3. HasCome(receiver', wasOn', begun + block, begun + block, begun + done + 1)
    BY <1>4, <2>1, <2>2, DemodulateStep DEF DemodulateSample, Progress
  <2>4. /\ FilteredTo' = begun + block /\ DecimatedTo' = begun + block
        /\ HeardTo' = begun + done + 1
    BY <1>4 DEF DemodulateSample, Onward, Progress
  <2>5. QED BY <1>4, <2>3, <2>4 DEF DemodulateSample, Onward, Progress
<1>5. CASE SwitchNarrow
  <2>1. /\ FilteredTo' = FilteredTo /\ DecimatedTo' = DecimatedTo /\ HeardTo' = HeardTo
        /\ wasOn' = wasOn
    BY <1>5 DEF SwitchNarrow
  <2>2. HasCome(receiver', wasOn', FilteredTo', DecimatedTo', HeardTo')
    BY <1>5, <2>1, SwitchStep DEF SwitchNarrow, Progress
  <2>3. QED BY <1>5, <2>2 DEF SwitchNarrow, Progress
<1>6. CASE UNCHANGED rxVars
  BY <1>6 DEF rxVars, Progress
<1>7. QED
  BY <1>1, <1>2, <1>3, <1>4, <1>5, <1>6 DEF ChainNext

(* What has been heard, in the words of the property.                      *)
LEMMA HeardIs ==
  ASSUME NEW m \in Nat, NEW k \in 1 .. m, NEW on \in BOOLEAN
  PROVE  Heard(on, Audios(IqTo(k)), IqTo(k)) =
           [tone |-> SubSeq(Audios(IqTo(m)), IF on THEN 1 ELSE k, k),
            gain |-> SubSeq(IqTo(m), 1, k)]
<1> DEFINE tones == Audios(IqTo(m))
           A     == {Audio(IqTo(m), j) : j \in 1 .. m}
<1>1. SubSeq(IqTo(m), 1, k) = IqTo(k)
  <2>1. SubSeq(IqTo(m), 1, k) = [j \in 1 .. k |-> IqTo(m)[j]]
    BY IqGrows
  <2>2. QED BY <2>1 DEF IqTo
<1>2. \A j \in 1 .. k : Audio(IqTo(k), j) = Audio(IqTo(m), j)
  <2> TAKE j \in 1 .. k
  <2>1. SsbTaps \in Nat
    BY ChainAssumption
  <2>2. \A i \in 1 .. SsbTaps :
          j - SsbTaps + i >= 1 => j - SsbTaps + i \in 1 .. k /\ j - SsbTaps + i \in 1 .. m
    BY <2>1
  <2>3. LastOf(IqTo(k), j, SsbTaps) = LastOf(IqTo(m), j, SsbTaps)
    BY <2>2 DEF LastOf, IqTo
  <2>4. QED BY <2>3 DEF Audio
<1>3. /\ tones = [j \in 1 .. m |-> Audio(IqTo(m), j)]
      /\ \A j \in 1 .. m : Audio(IqTo(m), j) \in A
  BY IqGrows DEF Audios
<1> DEFINE part == Audios(IqTo(k))
<1>4. part = [j \in 1 .. k |-> Audio(IqTo(k), j)]
  BY IqGrows DEF Audios
<1> HIDE DEF tones, A, part
<1>5. /\ tones \in Seq(A) /\ Len(tones) = m
      /\ \A j \in 1 .. m : tones[j] = Audio(IqTo(m), j)
  BY <1>3
<1>6. part = [j \in 1 .. k |-> tones[j]]
  BY <1>2, <1>4, <1>5
<1>7. part \in Seq(A) /\ Len(part) = k
  BY <1>3, <1>5, <1>6
<1>8. SubSeq(tones, 1, k) = part
  BY <1>5, <1>6
<1>9. SubSeq(tones, k, k) = <<Last(part)>>
  <2>1. Last(part) = tones[k]
    BY <1>6, <1>7 DEF Last
  <2>2. SubSeq(tones, k, k) = [i \in 1 .. 1 |-> tones[i + k - 1]]
    BY <1>5
  <2>3. \A i \in 1 .. 1 : tones[i + k - 1] = tones[k]
    OBVIOUS
  <2>4. QED BY <2>1, <2>2, <2>3
<1>10. Heard(on, part, IqTo(k)) =
         [tone |-> SubSeq(tones, IF on THEN 1 ELSE k, k),
          gain |-> SubSeq(IqTo(m), 1, k)]
  BY <1>1, <1>8, <1>9 DEF Heard
<1>11. QED BY <1>10 DEF tones, part

(* However the stream is cut into blocks, for filters of any length: the   *)
(* oscillators, the histories and the switched narrow filter go on over    *)
(* the end of a block as if there were none.                               *)
THEOREM BlocksDoNotShow == ChainSpec => []NoBoundaryShows
<1>1. Progress => NoBoundaryShows
  <2> SUFFICES ASSUME Progress, loop = "read"
               PROVE  NoBoundaryShows
    BY DEF NoBoundaryShows
  <2> DEFINE numbers == [k \in 1 .. begun |-> k]
             iq      == Smooth(Down(numbers), AaTaps)
             tones   == [k \in 1 .. begun |->
                           [tone |-> LastOf(iq, k, SsbTaps),
                            by   |-> ReadIq(((k - 1) * BfoStep) % 65536)]]
             heard(k) == [tone |-> SubSeq(tones, IF wasOn[k] THEN 1 ELSE k, k),
                          gain |-> SubSeq(iq, 1, k)]
  <2>1. begun \in Nat /\ HasCome(receiver, wasOn, begun, begun, begun)
    BY DEF Progress, FilteredTo, DecimatedTo, HeardTo
  <2>2. numbers = Numbers(begun)
    BY DEF Numbers
  <2> HIDE DEF numbers
  <2>3. iq = IqTo(begun)
    BY <2>1, <2>2, IqIsSmooth
  <2> HIDE DEF iq
  <2>4. Audios(iq) = tones
    BY <2>1, <2>3, IqGrows DEF Audios, Audio
  <2> HIDE DEF tones
  <2>5. receiver.iq = iq /\ receiver.usb = EveryOther(Smooth(iq, DecTaps))
    BY <2>1, <2>2, <2>3, IqIsSmooth DEF HasCome, Filtered, Decimated
  <2>6. \A k \in 1 .. begun : Heard(wasOn[k], Audios(IqTo(k)), IqTo(k)) = heard(k)
    <3> TAKE k \in 1 .. begun
    <3>1. wasOn[k] \in BOOLEAN
      BY <2>1 DEF HasCome
    <3>2. Heard(wasOn[k], Audios(IqTo(k)), IqTo(k)) =
            [tone |-> SubSeq(Audios(IqTo(begun)), IF wasOn[k] THEN 1 ELSE k, k),
             gain |-> SubSeq(IqTo(begun), 1, k)]
      BY <2>1, <3>1, HeardIs
    <3>3. QED BY <2>3, <2>4, <3>2, Zenon
  <2>7. receiver.speaker = [k \in 1 .. begun |-> heard(k)]
    <3> HIDE DEF heard
    <3>1. receiver.speaker =
            [k \in 1 .. begun |-> Heard(wasOn[k], Audios(IqTo(k)), IqTo(k))]
      BY <2>1 DEF HasCome
    <3>2. QED BY <2>6, <3>1
  <2>8. LET IQ == Smooth(Down(numbers), AaTaps)
            T  == [k \in 1 .. begun |->
                     [tone |-> LastOf(IQ, k, SsbTaps),
                      by   |-> ReadIq(((k - 1) * BfoStep) % 65536)]]
        IN /\ receiver.iq = IQ
           /\ receiver.usb = EveryOther(Smooth(IQ, DecTaps))
           /\ receiver.speaker =
                [k \in 1 .. begun |->
                   [tone |-> SubSeq(T, IF wasOn[k] THEN 1 ELSE k, k),
                    gain |-> SubSeq(IQ, 1, k)]]
    BY <2>5, <2>7 DEF iq, tones
  <2>9. QED
    BY <2>8 DEF NoBoundaryShows, numbers
<1>2. QED
  BY <1>1, StartsProgress, KeepsProgress, PTL DEF ChainSpec

-----------------------------------------------------------------------------
USE RemoteAssumption DEF packet, commands, steps, ritVars

LEMMA ClampInRange == ASSUME NEW hz \in Int PROVE Clamp(hz) \in -RitMax .. RitMax
BY DEF Clamp

(* The variables keep to their types, a step is stale only while it is     *)
(* under way, and nothing follows a frequency never given.                 *)
Typed == RemoteTypeOK /\ (ep2 = "follow" => lastRx # 0)

LEMMA StartsTyped == RemoteInit => Typed
<1> SUFFICES ASSUME RemoteInit PROVE Typed
  OBVIOUS
<1>1. /\ inTx \in BOOLEAN /\ netMox \in BOOLEAN /\ wantTx \in BOOLEAN
      /\ alone \in BOOLEAN /\ straddled \in BOOLEAN
  BY Zenon DEF RemoteInit
<1>2. /\ dial = StartFreq /\ rit = 0 /\ lastTx = 0 /\ lastRx = 0
      /\ ep2 = "idle" /\ frame = 1 /\ asked = 0 /\ ritDial = 0 /\ stale = {}
      /\ at = [s \in Surfaces |-> "idle"]
      /\ arg = [s \in Surfaces |-> 0] /\ from = [s \in Surfaces |-> 0]
  BY Zenon DEF RemoteInit
<1> QED
  BY <1>1, <1>2 DEF Typed, RemoteTypeOK, Stepping

(* What clearing RIT leaves, the values that are no numbers first.         *)
LEMMA ClearedRit ==
  ASSUME ClearRit
  PROVE  straddled' \in BOOLEAN /\ rit' = 0 /\ ritDial' = 0 /\ stale' = Stepping
BY Zenon DEF ClearRit

LEMMA KeepsTypes == Typed /\ [RemoteNext]_remoteVars => Typed'
<1> SUFFICES ASSUME Typed, [RemoteNext]_remoteVars PROVE Typed'
  OBVIOUS
<1> USE DEF Typed, RemoteTypeOK, Stepping
<1>1. CASE TakePacket
  BY <1>1 DEF TakePacket
<1>2. CASE FrameFreq
  BY <1>2 DEF FrameFreq, AtFrame, PastFrame
<1>3. CASE FrameOther
  BY <1>3 DEF FrameOther, AtFrame, PastFrame
<1>4. ASSUME NEW want \in BOOLEAN, FrameMoxKept(want) PROVE Typed'
  BY <1>4 DEF FrameMoxKept, AtFrame, PastFrame
<1>5. ASSUME NEW want \in BOOLEAN, FrameMox(want) PROVE Typed'
  BY <1>5 DEF FrameMox, AtFrame
<1>6. CASE TuneForTx
  <2>1. alone' \in BOOLEAN
    BY <1>6, Zenon DEF TuneForTx
  <2> QED
    BY <1>6, <2>1 DEF TuneForTx, TxFreq
<1>7. CASE EndTuneForTx \/ EndFollow
  <2>1. ClearRit
    BY <1>7, Zenon DEF EndTuneForTx, EndFollow
  <2> QED
    BY <1>7, <2>1, ClearedRit DEF EndTuneForTx, EndFollow
<1>8. CASE NetworkKeys
  BY <1>8 DEF NetworkKeys, PastFrame, Promised
<1>9. CASE Look
  <2>1. alone' \in BOOLEAN
    BY <1>9, Zenon DEF Look
  <2>2. ep2' \in {"follow", "idle"}
    BY <1>9 DEF Look
  <2> QED
    BY <1>9, <2>1, <2>2 DEF Look
<1>10. ASSUME NEW s \in Surfaces, NEW f \in Freqs, TuneTo(s, f) PROVE Typed'
  BY <1>10 DEF TuneTo
<1>11. ASSUME NEW s \in Surfaces, EndTune(s) PROVE Typed'
  <2>1. ClearRit
    BY <1>11, Zenon DEF EndTune
  <2> QED
    BY <1>11, <2>1, ClearedRit DEF EndTune
<1>12. ASSUME NEW s \in Surfaces, NEW hz \in Offsets \union {0}, SetRit(s, hz)
       PROVE Typed'
  BY <1>12 DEF SetRit
<1>13. ASSUME NEW s \in Surfaces, NEW delta \in {RitStep, -RitStep}, ReadRit(s, delta)
       PROVE Typed'
  <2>1. Clamp(rit + delta) \in -RitMax .. RitMax
    BY ClampInRange
  <2> QED BY <1>13, <2>1 DEF ReadRit
<1>14. ASSUME NEW s \in Surfaces, StepRit(s) PROVE Typed'
  BY <1>14 DEF StepRit
<1>15. ASSUME NEW tx_on \in BOOLEAN, SurfaceKeys(tx_on) PROVE Typed'
  BY <1>15 DEF SurfaceKeys
<1>16. CASE Follow
  BY <1>16 DEF Follow
<1>17. CASE UNCHANGED remoteVars
  BY <1>17 DEF remoteVars
<1> QED
  BY <1>1, <1>2, <1>3, <1>4, <1>5, <1>6, <1>7, <1>8, <1>9, <1>10, <1>11, <1>12,
     <1>13, <1>14, <1>15, <1>16, <1>17 DEF RemoteNext, Packet, Command

THEOREM RemoteTypes == RemoteSpec => []RemoteTypeOK
BY StartsTyped, KeepsTypes, PTL DEF RemoteSpec, Typed

-----------------------------------------------------------------------------
(* Between the frame that asks for the transmitter and the call that keys  *)
(* it the radio does not transmit for the network, and comes to be on the  *)
(* frequency asked for.                                                    *)
Keying ==
  /\ TransmitsWhereAsked
  /\ ep2 \in {"compare", "tx_clear", "follow", "rx_clear"} => asked = 0
  /\ ep2 \in {"tx_clear", "call"} /\ wantTx /\ alone =>
       Promised = 0 \/ dial = Promised

(* On the way out of a packet with the radio receiving.                    *)
Following ==
  /\ FollowsInReceive
  /\ ep2 = "rx_clear" /\ alone => dial = lastRx

LEMMA KeepsKeying ==
  Typed /\ Keying /\ Following /\ [RemoteNext]_remoteVars =>
    Keying' /\ Following'
<1> SUFFICES ASSUME Typed, Keying, Following, [RemoteNext]_remoteVars
             PROVE  Keying' /\ Following'
  OBVIOUS
<1> USE DEF Typed, RemoteTypeOK, Keying, Following, TransmitsWhereAsked, FollowsInReceive,
            Promised
<1>1. CASE TakePacket
  BY <1>1 DEF TakePacket
<1>2. CASE FrameFreq
  BY <1>2 DEF FrameFreq, AtFrame, PastFrame
<1>3. CASE FrameOther
  BY <1>3 DEF FrameOther, AtFrame, PastFrame
<1>4. ASSUME NEW want \in BOOLEAN, FrameMoxKept(want) PROVE Keying' /\ Following'
  BY <1>4 DEF FrameMoxKept, AtFrame, PastFrame
<1>5. ASSUME NEW want \in BOOLEAN, FrameMox(want) PROVE Keying' /\ Following'
  BY <1>5 DEF FrameMox, AtFrame
<1>6. CASE TuneForTx
  BY <1>6 DEF TuneForTx, TxFreq
<1>7. CASE EndTuneForTx \/ EndFollow
  BY <1>7 DEF EndTuneForTx, EndFollow
<1>8. CASE NetworkKeys
  BY <1>8 DEF NetworkKeys, PastFrame
<1>9. CASE Look
  BY <1>9 DEF Look
<1>10. CASE Follow
  BY <1>10 DEF Follow
<1>11. ASSUME NEW s \in Surfaces, NEW f \in Freqs, TuneTo(s, f)
       PROVE Keying' /\ Following'
  BY <1>11 DEF TuneTo
<1>12. ASSUME NEW s \in Surfaces, EndTune(s) \/ StepRit(s)
       PROVE Keying' /\ Following'
  BY <1>12 DEF EndTune, StepRit
<1>13. ASSUME NEW s \in Surfaces, NEW hz \in Int, SetRit(s, hz) \/ ReadRit(s, hz)
       PROVE Keying' /\ Following'
  BY <1>13 DEF SetRit, ReadRit
<1>14. ASSUME NEW tx_on \in BOOLEAN, SurfaceKeys(tx_on) PROVE Keying' /\ Following'
  BY <1>14 DEF SurfaceKeys
<1>15. CASE UNCHANGED remoteVars
  BY <1>15 DEF remoteVars
<1> QED
  BY <1>1, <1>2, <1>3, <1>4, <1>5, <1>6, <1>7, <1>8, <1>9, <1>10, <1>11, <1>12,
     <1>13, <1>14, <1>15 DEF RemoteNext, Packet, Command

LEMMA StartsKeying == RemoteInit => Keying /\ Following
BY DEF RemoteInit, Keying, Following, TransmitsWhereAsked, FollowsInReceive

(* The network transmits where it asked to, whatever the frames, the order *)
(* of the packets and the other surfaces.                                  *)
THEOREM NetworkTransmitsThere == RemoteSpec => []TransmitsWhereAsked
BY StartsTyped, KeepsTypes, StartsKeying, KeepsKeying, PTL DEF RemoteSpec, Keying

(* A packet leaves a receiving radio where the application listens.        *)
THEOREM RadioFollows == RemoteSpec => []FollowsInReceive
BY StartsTyped, KeepsTypes, StartsKeying, KeepsKeying, PTL DEF RemoteSpec, Following

-----------------------------------------------------------------------------
(* With nobody tuning, every offset that is stored or about to be was      *)
(* dialed in on the present frequency, the stale ones excepted.            *)
Dialing ==
  NobodyTunes /\ ~straddled =>
    /\ rit # 0 => ritDial = dial
    /\ \A s \in Stepping : s \notin stale => from[s] = dial

LEMMA StartsDialing == RemoteInit => Dialing
BY DEF RemoteInit, Dialing, Stepping

LEMMA KeepsDialing ==
  Typed /\ Dialing /\ [RemoteNext]_remoteVars => Dialing'
<1> SUFFICES ASSUME Typed, Dialing, [RemoteNext]_remoteVars PROVE Dialing'
  OBVIOUS
<1> USE DEF Typed, RemoteTypeOK, Dialing, NobodyTunes, Stepping
<1>1. CASE TakePacket \/ FrameFreq \/ FrameOther
  BY <1>1 DEF TakePacket, FrameFreq, FrameOther, AtFrame, PastFrame
<1>2. ASSUME NEW want \in BOOLEAN, FrameMoxKept(want) \/ FrameMox(want)
      PROVE Dialing'
  BY <1>2 DEF FrameMoxKept, FrameMox, AtFrame, PastFrame
<1>3. CASE TuneForTx \/ Look \/ Follow
  BY <1>3 DEF TuneForTx, Look, Follow
<1>4. CASE EndTuneForTx \/ EndFollow
  BY <1>4 DEF EndTuneForTx, EndFollow, ClearRit
<1>5. CASE NetworkKeys
  BY <1>5 DEF NetworkKeys, PastFrame
<1>6. ASSUME NEW s \in Surfaces, NEW f \in Freqs, TuneTo(s, f) PROVE Dialing'
  BY <1>6 DEF TuneTo
<1>7. ASSUME NEW s \in Surfaces, EndTune(s) PROVE Dialing'
  BY <1>7 DEF EndTune, ClearRit
<1>8. ASSUME NEW s \in Surfaces, NEW hz \in Offsets \union {0}, SetRit(s, hz)
      PROVE Dialing'
  BY <1>8 DEF SetRit
<1>9. ASSUME NEW s \in Surfaces, NEW delta \in {RitStep, -RitStep}, ReadRit(s, delta)
      PROVE Dialing'
  BY <1>9 DEF ReadRit
<1>10. ASSUME NEW s \in Surfaces, StepRit(s) PROVE Dialing'
  BY <1>10 DEF StepRit
<1>11. ASSUME NEW tx_on \in BOOLEAN, SurfaceKeys(tx_on) PROVE Dialing'
  BY <1>11 DEF SurfaceKeys
<1>12. CASE UNCHANGED remoteVars
  BY <1>12 DEF remoteVars
<1> QED
  BY <1>1, <1>2, <1>3, <1>4, <1>5, <1>6, <1>7, <1>8, <1>9, <1>10, <1>11, <1>12
     DEF RemoteNext, Packet, Command

(* RIT keeps within its limits and starts afresh on a new frequency, with  *)
(* any number of surfaces stepping it at once.                             *)
THEOREM RitIsFresh == RemoteSpec => []RitStartsAfresh
<1>1. Typed /\ Dialing => RitStartsAfresh
  BY DEF Typed, RemoteTypeOK, Dialing, RitStartsAfresh
<1> QED
  BY <1>1, StartsTyped, KeepsTypes, StartsDialing, KeepsDialing, PTL DEF RemoteSpec

-----------------------------------------------------------------------------
(* What the run checks is these systems beside each other, so the theorems *)
(* about each hold of it.                                                  *)
THEOREM RunIsEach == MCSpec => RemoteSpec /\ ChainSpec /\ LoadSpec /\ CatSpec
<1>1. MCInit => RemoteInit /\ ChainInit /\ LoadInit /\ CatInit
  BY DEF MCInit
<1>2. [MCNext]_mcVars =>
        /\ [RemoteNext]_remoteVars /\ [ChainNext]_rxVars
        /\ [LoadNext]_settingsVars /\ [CatNext]_usbVars
  BY Zenon DEF MCNext, mcVars
<1>3. QED
  BY <1>1, <1>2, PTL DEF MCSpec, RemoteSpec, ChainSpec, LoadSpec, CatSpec, usbVars

=============================================================================
