------------------------------- MODULE RxChain -------------------------------
(***************************************************************************)
(* The path of the received samples through the audio thread:              *)
(* sound_process() in src/src/sound.c with the filters of antialias.c,     *)
(* decim48k.c and rx_audio.c.  The thread hands over a block of whatever   *)
(* length the codec gave, and three loops go over it one after the other;  *)
(* what must go on from block to block is kept in static variables, here   *)
(* the receiver.  The k-th sample captured is the number k.                *)
(*                                                                         *)
(* All three filters keep their history in an array of twice its length    *)
(* and write each sample twice, so that the taps are read in one run       *)
(* without wrapping.  What a filter computes is left out: its output is    *)
(* the tuple of the samples its taps are multiplied with, oldest first.    *)
(* The two rails, I and Q, pass the same code in lockstep and are one: a   *)
(* mixed sample is what was captured with the two oscillator values it is  *)
(* multiplied with.  The narrow filter and the envelope of the AGC have a  *)
(* memory without end: their output is everything they took.  The S-meter, *)
(* which only watches what is heard, and the volume, which scales it, are  *)
(* left out.  So is a command that tunes or keys the radio and moves the   *)
(* phase of the local oscillator: the dial is left alone here.             *)
(***************************************************************************)

EXTENDS Integers, SequencesExt

CONSTANTS
  AaTaps,       \* ANTIALIAS_TAPS
  DecTaps,      \* DECIM48K_TAPS
  SsbTaps,      \* SSB_FIR_TAPS
  Silence,      \* 0.0, what the histories hold at first
  MaxFrames,    \* MAX_FRAMES, the length of a buffer
  MaxSamples    \* a bound on the samples captured

ASSUME ChainAssumption ==
  /\ AaTaps \in Nat \ {0}
  /\ DecTaps \in Nat \ {0}
  /\ SsbTaps \in Nat \ {0}
  /\ MaxFrames \in Nat
  /\ MaxSamples \in Nat

VARIABLES
  receiver,     \* the static variables, and all that has come out of them
  loop,         \* where the thread is: in "read", or in a loop over the block
  begun,        \* the samples captured before this block
  block,        \* n_samples, its length
  done,         \* n, how many of the block the loop has done
  wasOn         \* what narrow_filter_enabled was when each sample was heard

rxVars == <<receiver, loop, begun, block, done, wasOn>>

-----------------------------------------------------------------------------
(* vfo.c: an oscillator is a phase that goes round in 65536 steps          *)

Increment(hz) == (hz * 65536) \div 96000

LoStep  == Increment(24000)     \* RX_IF_FREQ_HZ
BfoStep == Increment(700)       \* CW_PITCH_HZ

(* vfo_lookup().  The table rises with its index from 0 to 16383, which    *)
(* stands for the quarter of a sine it holds.                              *)
Sine(phase) ==
  LET p == phase % 65536
  IN CASE p < 16384                -> p
       [] p >= 16384 /\ p < 32768  -> 32767 - p
       [] p >= 32768 /\ p < 49152  -> 32768 - p
       [] p >= 49152               -> p - 65535

(* vfo_read_iq()                                                           *)
ReadIq(phase)        == [i |-> Sine(phase + 16384), q |-> Sine(phase)]
Advance(phase, step) == (phase + step) % 65536

-----------------------------------------------------------------------------
(* A filter with so many taps                                              *)

NewFir(taps) == [hist |-> [i \in 0 .. 2 * taps - 1 |-> Silence], pos |-> 0]

Push(fir, taps, x) ==
  [hist |-> [fir.hist EXCEPT ![fir.pos] = x, ![fir.pos + taps] = x],
   pos  |-> IF fir.pos + 1 = taps THEN 0 ELSE fir.pos + 1]

(* What the taps are multiplied with once x is in.                         *)
Taken(fir, taps, x) ==
  [i \in 1 .. taps |-> Push(fir, taps, x).hist[fir.pos + i]]

-----------------------------------------------------------------------------
(* The chain, and what has come out of it                                  *)

Fresh == [lo |-> 0, aa |-> NewFir(AaTaps), dec |-> NewFir(DecTaps), phase |-> 0,
          ssb |-> NewFir(SsbTaps), bfo |-> 0,
          narrow |-> <<>>, agc |-> <<>>, on |-> TRUE,
          iq |-> <<>>, usb |-> <<>>, speaker |-> <<>>]

Mixed(x, phase) == [sample |-> x, by |-> ReadIq(phase)]

(* The mixer, and antialias_apply().  The result is also what the network  *)
(* streams get (hpsdr_p1.c, iq_stream.c).                                  *)
Filter(chain, x) ==
  [chain EXCEPT !.lo = Advance(chain.lo, LoStep),
                !.aa = Push(chain.aa, AaTaps, Mixed(x, chain.lo)),
                !.iq = Append(chain.iq, Taken(chain.aa, AaTaps, Mixed(x, chain.lo)))]

(* decim48k_apply(): the history takes every sample, every other one makes *)
(* an output for the USB gadget.                                           *)
SkipHistory(chain, y) ==        \* mutant: a discarded sample is not kept
  IF chain.phase = 1 THEN [chain EXCEPT !.phase = 0]
  ELSE [chain EXCEPT !.phase = 1,
                     !.dec = Push(chain.dec, DecTaps, y),
                     !.usb = Append(chain.usb, Taken(chain.dec, DecTaps, y))]

Decimate(chain, y) ==
  [chain EXCEPT !.phase = 1 - chain.phase,
                !.dec = Push(chain.dec, DecTaps, y),
                !.usb = IF chain.phase = 1 THEN chain.usb
                        ELSE Append(chain.usb, Taken(chain.dec, DecTaps, y))]

(* ssb_filter_apply()                                                      *)
Sideband(chain, y) == Taken(chain.ssb, SsbTaps, y)

(* rx_audio_process(): the sideband filter, the product with the BFO, the  *)
(* narrow filter, which runs also when it is not heard, and the gain,      *)
(* which follows the samples as they came in.                              *)
Heard(on, narrow, agc) ==
  [tone |-> IF on THEN narrow ELSE <<Last(narrow)>>, gain |-> agc]

Demodulate(chain, y) ==
  LET audio  == [tone |-> Sideband(chain, y), by |-> ReadIq(chain.bfo)]
      narrow == Append(chain.narrow, audio)
      agc    == Append(chain.agc, y)
  IN [chain EXCEPT !.ssb     = Push(chain.ssb, SsbTaps, y),
                   !.bfo     = Advance(chain.bfo, BfoStep),
                   !.narrow  = narrow,
                   !.agc     = agc,
                   !.speaker = Append(chain.speaker, Heard(chain.on, narrow, agc))]

-----------------------------------------------------------------------------
(* sound_process(): one loop after another over the whole block            *)

ChainInit ==
  /\ receiver = Fresh
  /\ loop = "read"
  /\ begun = 0 /\ block = 0 /\ done = 0
  /\ wasOn = <<>>

(* audio_loop(): the codec gives what it has.                              *)
ReadBlock ==
  /\ loop = "read"
  /\ \E frames \in 1 .. MaxFrames :
       begun + frames <= MaxSamples /\ block' = frames
  /\ loop' = "filter"
  /\ UNCHANGED <<receiver, begun, done, wasOn>>

(* A sample of the loop done: the next one, or the next loop.              *)
Onward(next) ==
  IF done + 1 = block THEN done' = 0 /\ loop' = next
                      ELSE done' = done + 1 /\ UNCHANGED loop

FilterSample ==
  /\ loop = "filter"
  /\ receiver' = Filter(receiver, begun + done + 1)
  /\ Onward("decimate")
  /\ UNCHANGED <<begun, block, wasOn>>

(* The two arrays i_samples and q_samples hold what was filtered last.     *)
Ready == receiver.iq[begun + done + 1]

DecimateSample ==
  /\ loop = "decimate"
  /\ receiver' = Decimate(receiver, Ready)
  /\ Onward("demodulate")
  /\ UNCHANGED <<begun, block, wasOn>>

DemodulateSample ==
  /\ loop = "demodulate"
  /\ receiver' = Demodulate(receiver, Ready)
  /\ wasOn' = Append(wasOn, receiver.on)
  /\ Onward("read")
  /\ begun' = IF done + 1 = block THEN begun + block ELSE begun
  /\ UNCHANGED block

(* rx_audio_set_narrow_filter(), from rigctl's thread at any moment.       *)
SwitchNarrow ==
  /\ \E enable \in BOOLEAN : receiver' = [receiver EXCEPT !.on = enable]
  /\ UNCHANGED <<loop, begun, block, done, wasOn>>

ChainNext ==
  \/ ReadBlock \/ FilterSample \/ DecimateSample \/ DemodulateSample
  \/ SwitchNarrow

ChainSpec == ChainInit /\ [][ChainNext]_rxVars

-----------------------------------------------------------------------------
(* What should come out                                                    *)

(* The last so many elements of s up to the k-th, silence before the first.*)
LastOf(s, k, taps) ==
  [i \in 1 .. taps |-> IF k - taps + i >= 1 THEN s[k - taps + i] ELSE Silence]

Smooth(s, taps) == [k \in 1 .. Len(s) |-> LastOf(s, k, taps)]

EveryOther(s) == [k \in 1 .. (Len(s) + 1) \div 2 |-> s[2 * k - 1]]

(* The local oscillator, at a quarter of the sampling rate: the cosine and *)
(* the sine go through 1, 0, -1, 0 and 0, 1, 0, -1 for ever.               *)
Quarters == << [i |-> 16383, q |-> 0], [i |-> 0, q |-> 16383],
               [i |-> -16383, q |-> 0], [i |-> 0, q |-> -16383] >>

Down(s) == [k \in 1 .. Len(s) |-> [sample |-> s[k], by |-> Quarters[((k - 1) % 4) + 1]]]

(* Every sample passes the chain once and in order, however the codec cuts *)
(* the stream into blocks: the oscillators run on, each filter works on    *)
(* exactly the last samples before it, silence before the first, the USB   *)
(* gadget gets every other one of the filtered samples, and no block       *)
(* boundary shows.  Nor does it show, once the narrow filter is switched   *)
(* on, that it was off: it is as warm as if it had been on all the time.   *)
NoBoundaryShows ==
  loop = "read" =>
    LET iq    == Smooth(Down([k \in 1 .. begun |-> k]), AaTaps)
        tones == [k \in 1 .. begun |->
                    [tone |-> LastOf(iq, k, SsbTaps),
                     by   |-> ReadIq(((k - 1) * BfoStep) % 65536)]]
    IN /\ receiver.iq = iq
       /\ receiver.usb = EveryOther(Smooth(iq, DecTaps))
       /\ receiver.speaker =
            [k \in 1 .. begun |->
               [tone |-> SubSeq(tones, IF wasOn[k] THEN 1 ELSE k, k),
                gain |-> SubSeq(iq, 1, k)]]

=============================================================================
