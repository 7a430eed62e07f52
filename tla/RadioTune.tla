----------------------------- MODULE RadioTune ------------------------------
(***************************************************************************)
(* The dial of src/src/radio.c: radio_tune_to(), radio_set_rit() and       *)
(* radio_set_rit_enabled(), which any control surface calls from a thread  *)
(* of its own with no lock, together with the transmit path of RadioTx.    *)
(* They meet at clk2, the second clock of the si5351: a call sets it to    *)
(* the receive value, radio_tx_apply() sets it at both of its ends.        *)
(*                                                                         *)
(* si5351bx_setfreq() computes its argument first and then writes some     *)
(* twenty registers over I2C, so a write of clk2 is two steps: the value   *)
(* is fixed at Start, the clock has it at End.  Writes that overlap mix    *)
(* their registers and may leave the clock at neither value (Torn).        *)
(* A run of plain stores and loads next to each other in one function is   *)
(* one step.                                                               *)
(***************************************************************************)

EXTENDS RadioTx, Integers, FiniteSets

CONSTANTS
  Freqs,        \* the dial frequencies asked for, Hz
  Offsets,      \* the RIT offsets asked for, Hz
  StartFreq,    \* freq_hdr as main() tunes to it
  Worker        \* the transmit worker, as a writer of clk2

ASSUME DialAssumption ==
  /\ Freqs \subseteq Nat \ {0}
  /\ StartFreq \in Freqs
  /\ Offsets \subseteq Int
  /\ Worker \notin Callers

XtalFilterCenter == 40012400
CwPitch          == 700
Torn             == 0          \* clk2 at a mixture of two writes

VARIABLES
  freq,         \* freq_hdr
  ritOffset,    \* rit_offset
  ritEnabled,   \* rit_enabled
  clk2,         \* the frequency the si5351 puts out on clk2
  tuner,        \* per caller: where it is in its call, or "idle"
  arg,          \* per caller: the argument of its call
  flight,       \* per writer: the value being written to clk2, 0 if none
  mixed,        \* writes of clk2 have overlapped and one is still under way
  lines,        \* the low-pass filter pins driven high
  prevLpf,      \* prev_lpf
  \* Histories.
  ritFreq,      \* the dial frequency when ritOffset was set, 0 once cleared
  clkRaced,     \* the last call to rewrite clk2 overlapped another, or one
                \* of radio_set_rit() and _enabled() since did
  retuned,      \* the dial was tuned in transmit, and radio_set_tx() not
                \* called since
  lpfRaced      \* two tunes have overlapped, and no filter change for the
                \* dial frequency has been made alone since

rit      == <<ritOffset, ritEnabled, ritFreq>>
filters  == <<lines, prevLpf, lpfRaced>>
clock    == <<clk2, flight, mixed>>
clkPast  == <<clkRaced, retuned>>
dialVars == <<freq, rit, clock, tuner, arg, filters, clkPast>>
tuneVars == <<vars, dialVars>>

Writers  == Callers \union {Worker}
Tuning   == {c \in Callers : tuner[c] # "idle"}
Retuning == {c \in Callers :
               tuner[c] \in {"clear", "tune_clk2", "filter", "raise"}}
Flying   == {w \in Writers : flight[w] # 0}

(* The transmit path is at work, or a call that will put it to work is.    *)
Switching == ~AtRest \/ Calling # {}

(* The filter for a frequency, by the band edges of set_lpf_40mhz().       *)
LpfFor(f) ==
  CASE f < 5500000                      -> {"lpf_d"}
    [] f >= 5500000  /\ f < 10500000    -> {"lpf_c"}
    [] f >= 10500000 /\ f < 18500000    -> {"lpf_b"}
    [] f >= 18500000 /\ f < 30000000    -> {"lpf_a"}
    [] OTHER                            -> {}

RitApplied  == IF ritEnabled THEN ritOffset ELSE 0
RxClk2      == freq + RitApplied + XtalFilterCenter
TunedClk2(f) == f + XtalFilterCenter
TxClk2(f)   == f + XtalFilterCenter - CwPitch

(* main() has tuned to freq_hdr before the first control surface is up.    *)
TuneInit ==
  /\ Init
  /\ freq = StartFreq
  /\ ritOffset = 0
  /\ ritEnabled = FALSE
  /\ clk2 = TunedClk2(StartFreq)
  /\ tuner = [c \in Callers |-> "idle"]
  /\ arg = [c \in Callers |-> 0]
  /\ flight = [w \in Writers |-> 0]
  /\ mixed = FALSE
  /\ lines = LpfFor(StartFreq)
  /\ prevLpf = LpfFor(StartFreq)
  /\ ritFreq = 0
  /\ clkRaced = FALSE
  /\ retuned = FALSE
  /\ lpfRaced = FALSE

-----------------------------------------------------------------------------
(* si5351bx_setfreq(2, value)                                              *)

StartClk2(w, value) ==
  /\ flight' = [flight EXCEPT ![w] = value]
  /\ mixed' = (mixed \/ Flying # {})
  /\ UNCHANGED clk2

EndClk2(w) ==
  /\ clk2' \in {flight[w]} \union (IF mixed THEN {Torn} ELSE {})
  /\ flight' = [flight EXCEPT ![w] = 0]
  /\ mixed' = (mixed /\ Flying # {w})

Free(c) == caller[c] = "idle" /\ tuner[c] = "idle"

Step(c, from, to) ==
  /\ tuner[c] = from
  /\ tuner' = [tuner EXCEPT ![c] = to]
  /\ UNCHANGED vars

Return(c, from) == Step(c, from, "idle") /\ arg' = [arg EXCEPT ![c] = 0]

-----------------------------------------------------------------------------
(* radio_tune_to(f)                                                        *)

TuneTo(c, f) ==
  /\ Free(c)
  /\ Step(c, "idle", "clear")
  /\ freq' = f
  /\ arg' = [arg EXCEPT ![c] = f]
  /\ clkRaced' = (Tuning # {} \/ Switching)
  /\ retuned' = inTx
  /\ lpfRaced' = (lpfRaced \/ Retuning # {})
  /\ UNCHANGED <<rit, clock, lines, prevLpf>>

DisableRit(c) ==                \* mutant: the offset survives the tune
  /\ Step(c, "clear", "tune_clk2")
  /\ ritEnabled' = FALSE
  /\ StartClk2(c, TunedClk2(arg[c]))
  /\ UNCHANGED <<freq, ritOffset, ritFreq, arg, filters, clkPast>>

ClearRit(c) ==
  /\ Step(c, "clear", "tune_clk2")
  /\ ritOffset' = 0
  /\ ritEnabled' = FALSE
  /\ ritFreq' = 0
  /\ StartClk2(c, TunedClk2(arg[c]))
  /\ UNCHANGED <<freq, arg, filters, clkPast>>

EndTuneClk2(c) ==
  /\ Step(c, "tune_clk2", "filter")
  /\ EndClk2(c)
  /\ UNCHANGED <<freq, rit, arg, filters, clkPast>>

(* set_lpf_40mhz(f): nothing to do for the filter already selected, else   *)
(* all four pins low, then one high.                                       *)
KeepFilter(c) ==
  /\ Return(c, "filter")
  /\ LpfFor(arg[c]) = prevLpf
  /\ UNCHANGED <<freq, rit, clock, filters, clkPast>>

DropNoFilter(c) ==              \* mutant: the old filter is left selected
  /\ Step(c, "filter", "raise")
  /\ LpfFor(arg[c]) # prevLpf
  /\ lpfRaced' = (lpfRaced /\ (Retuning # {c} \/ freq # arg[c]))
  /\ UNCHANGED <<freq, rit, clock, arg, lines, prevLpf, clkPast>>

DropFilters(c) ==
  /\ Step(c, "filter", "raise")
  /\ LpfFor(arg[c]) # prevLpf
  /\ lines' = {}
  /\ lpfRaced' = (lpfRaced /\ (Retuning # {c} \/ freq # arg[c]))
  /\ UNCHANGED <<freq, rit, clock, arg, prevLpf, clkPast>>

RaiseFilter(c) ==
  /\ Return(c, "raise")
  /\ lines' = lines \union LpfFor(arg[c])
  /\ prevLpf' = LpfFor(arg[c])
  /\ UNCHANGED <<freq, rit, clock, lpfRaced, clkPast>>

-----------------------------------------------------------------------------
(* radio_set_rit(hz) and radio_set_rit_enabled(on)                         *)

SetRit(c, hz) ==
  /\ Free(c)
  /\ Step(c, "idle", "enable")
  /\ ritOffset' = hz
  /\ ritFreq' = freq
  /\ arg' = [arg EXCEPT ![c] = hz]
  /\ clkRaced' = (clkRaced \/ Tuning # {} \/ Switching)
  /\ UNCHANGED <<freq, ritEnabled, clock, filters, retuned>>

EnableRit(c) ==
  /\ Step(c, "enable", "check")
  /\ ritEnabled' = (arg[c] # 0)
  /\ arg' = [arg EXCEPT ![c] = 0]
  /\ UNCHANGED <<freq, ritOffset, ritFreq, clock, filters, clkPast>>

SetRitEnabled(c, turn_on) ==
  /\ Free(c)
  /\ Step(c, "idle", "check")
  /\ ritEnabled' = turn_on
  /\ clkRaced' = (clkRaced \/ Tuning # {} \/ Switching)
  /\ UNCHANGED <<freq, ritOffset, ritFreq, clock, arg, filters, retuned>>

(* In transmit the new setting waits for radio_tx_apply(0).                *)
LeaveRitForRx(c) ==
  /\ Return(c, "check")
  /\ inTx
  /\ UNCHANGED <<freq, rit, clock, filters, clkPast>>

StartRitClk2(c) ==
  /\ Step(c, "check", "rit_clk2")
  /\ ~inTx
  /\ StartClk2(c, RxClk2)
  /\ UNCHANGED <<freq, rit, arg, filters, clkPast>>

EndRitClk2(c) ==
  /\ Return(c, "rit_clk2")
  /\ EndClk2(c)
  /\ UNCHANGED <<freq, rit, filters, clkPast>>

-----------------------------------------------------------------------------
(* The transmit path, with the clk2 steps of radio_tx_apply() in full.     *)

CallTx ==
  /\ \E c \in Callers, tx_on \in BOOLEAN : Free(c) /\ SetTx(c, tx_on)
  /\ clkRaced' = (Tuning # {} \/ (Switching /\ clkRaced))
  /\ retuned' = FALSE
  /\ UNCHANGED <<freq, rit, clock, tuner, arg, filters>>

PostTx(c) == Post(c) /\ UNCHANGED dialVars

WorkerElsewhere ==
  /\ worker \notin {"clk2_tx", "clk2_rx"}
  /\ WorkerStep
  /\ UNCHANGED dialVars

WorkerForgetsPitch ==           \* mutant: the pitch is not taken off
  /\ flight[Worker] = 0
  /\ \/ worker = "clk2_tx" /\ StartClk2(Worker, TunedClk2(freq))
     \/ worker = "clk2_rx" /\ StartClk2(Worker, RxClk2)
  /\ UNCHANGED <<vars, freq, rit, tuner, arg, filters, clkPast>>

WorkerStartsClk2 ==
  /\ flight[Worker] = 0
  /\ \/ worker = "clk2_tx" /\ StartClk2(Worker, TxClk2(freq))
     \/ worker = "clk2_rx" /\ StartClk2(Worker, RxClk2)
  /\ UNCHANGED <<vars, freq, rit, tuner, arg, filters, clkPast>>

WorkerEndsClk2 ==
  /\ flight[Worker] # 0
  /\ SetClk2Tx \/ SetClk2Rx
  /\ EndClk2(Worker)
  /\ UNCHANGED <<freq, rit, tuner, arg, filters, clkPast>>

TuneWorkerStep == WorkerElsewhere \/ WorkerStartsClk2 \/ WorkerEndsClk2

TunerStep(c) ==
  \/ ClearRit(c) \/ EndTuneClk2(c)
  \/ KeepFilter(c) \/ DropFilters(c) \/ RaiseFilter(c)
  \/ EnableRit(c) \/ LeaveRitForRx(c) \/ StartRitClk2(c) \/ EndRitClk2(c)

CallTuner ==
  \E c \in Callers :
    \/ \E f \in Freqs : TuneTo(c, f)
    \/ \E hz \in Offsets : SetRit(c, hz)
    \/ \E turn_on \in BOOLEAN : SetRitEnabled(c, turn_on)

TuneNext ==
  \/ CallTx
  \/ CallTuner
  \/ \E c \in Callers : PostTx(c) \/ TunerStep(c)
  \/ TuneWorkerStep

TuneSafe == TuneInit /\ [][TuneNext]_tuneVars

(* A thread inside one of the calls goes on to its end, and so does the    *)
(* worker; the I2C writes are retried a bounded number of times.           *)
TuneFairness ==
  /\ WF_tuneVars(TuneWorkerStep)
  /\ \A c \in Callers : WF_tuneVars(PostTx(c)) /\ WF_tuneVars(TunerStep(c))

TuneSpec == TuneSafe /\ TuneFairness

-----------------------------------------------------------------------------
TunerPhases == {"idle", "clear", "tune_clk2", "filter", "raise",
                "enable", "check", "rit_clk2"}

TuneTypeOK ==
  /\ TypeOK
  /\ freq \in Freqs
  /\ ritOffset \in Offsets \union {0}
  /\ ritEnabled \in BOOLEAN
  /\ clk2 \in Int
  /\ tuner \in [Callers -> TunerPhases]
  /\ arg \in [Callers -> Int]
  /\ flight \in [Writers -> Int]
  /\ mixed \in BOOLEAN
  /\ lines \subseteq {"lpf_a", "lpf_b", "lpf_c", "lpf_d"}
  /\ prevLpf \subseteq {"lpf_a", "lpf_b", "lpf_c", "lpf_d"}
  /\ ritFreq \in Freqs \union {0}
  /\ clkRaced \in BOOLEAN
  /\ retuned \in BOOLEAN
  /\ lpfRaced \in BOOLEAN
  /\ \A c \in Callers : tuner[c] # "idle" => caller[c] = "idle"

Settled == Tuning = {} /\ ~Switching

(* Calls made one after the other, from whatever threads, leave clk2 where *)
(* the dial and RIT say: in receive with RIT as last set, kept over a      *)
(* transmission or changed during one; in transmit on the dial less the CW *)
(* pitch, except that a tune in transmit leaves it on the dial itself      *)
(* until radio_set_tx() is called again.                                   *)
Clk2FollowsDial ==
  Settled /\ ~clkRaced /\ ~raced =>
    IF hw.ptt = 1 THEN clk2 = (IF retuned THEN TunedClk2(freq) ELSE TxClk2(freq))
                  ELSE clk2 = RxClk2

(* The pitch is taken off "for the duration of TX" (cw.h), whatever the    *)
(* radio is tuned to in the course of it.                                  *)
PitchOffInTransmit ==
  Settled /\ ~clkRaced /\ ~raced /\ hw.ptt = 1 => clk2 = TxClk2(freq)

(* An offset left at the end of a call was dialed in on the frequency the  *)
(* radio is tuned to, even if a tune and a RIT change overlapped: this is  *)
(* why radio_tune_to() stores the frequency before it clears RIT.          *)
RitBelongsToDial ==
  Tuning = {} /\ ritOffset # 0 => ritFreq = freq

(* Tunes that do not overlap leave the one filter of the band selected,    *)
(* and never two of them on the way; the early return of set_lpf_40mhz()   *)
(* for a filter already selected is safe.                                  *)
FilterFollowsDial ==
  ~lpfRaced =>
    /\ Cardinality(lines) <= 1
    /\ Retuning = {} => lines = LpfFor(freq) /\ prevLpf = lines

(* "Dialing in RIT never moves your transmit frequency" (radio.h).  While  *)
(* the exciter is driven clk2 holds a dial frequency with no offset.       *)
RitKeepsOffTransmitter ==
  hw.drive = 1 /\ ~mixed =>
    clk2 \in {TxClk2(f) : f \in Freqs} \union {TunedClk2(f) : f \in Freqs}

=============================================================================
