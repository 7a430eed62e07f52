-------------------------- MODULE RadioTuneProofs ---------------------------
(***************************************************************************)
(* Machine-checked proofs about RadioTune, for any callers, frequencies    *)
(* and offsets: tuning from any thread never disturbs the transmit path,   *)
(* and a RIT offset never outlives the frequency it was dialed in on.  The *)
(* types of the state come last.                                           *)
(***************************************************************************)
EXTENDS RadioTune, RadioTxProofs, FiniteSetTheorems

-----------------------------------------------------------------------------
(* Every step of the composition is a step of RadioTx or leaves it alone.  *)

LEMMA TunerStepIsQuiet ==
  ASSUME NEW c \in Callers, TunerStep(c)
  PROVE  UNCHANGED vars
BY DEF TunerStep, ClearRit, EndTuneClk2, KeepFilter, DropFilters, RaiseFilter,
       EnableRit, LeaveRitForRx, StartRitClk2, EndRitClk2, Return, Step

LEMMA CallTunerIsQuiet == CallTuner => UNCHANGED vars
BY DEF CallTuner, TuneTo, SetRit, SetRitEnabled, Step

LEMMA WorkerIsRadioTx == TuneWorkerStep => [Next]_vars
<1>1. CASE WorkerElsewhere
  BY <1>1 DEF WorkerElsewhere, Next
<1>2. CASE WorkerStartsClk2
  BY <1>2 DEF WorkerStartsClk2
<1>3. CASE WorkerEndsClk2
  BY <1>3 DEF WorkerEndsClk2, Next, WorkerStep, GoTransmit, GoReceive
<1>4. QED BY <1>1, <1>2, <1>3 DEF TuneWorkerStep

LEMMA StepIsRadioTx == [TuneNext]_tuneVars => [Next]_vars
<1> SUFFICES ASSUME [TuneNext]_tuneVars PROVE [Next]_vars
  OBVIOUS
<1>1. CASE CallTx
  BY <1>1 DEF CallTx, Next, CallerStep
<1>2. CASE CallTuner
  BY <1>2, CallTunerIsQuiet
<1>3. ASSUME NEW c \in Callers, PostTx(c) PROVE [Next]_vars
  BY <1>3 DEF PostTx, Next, CallerStep
<1>4. ASSUME NEW c \in Callers, TunerStep(c) PROVE [Next]_vars
  BY <1>4, TunerStepIsQuiet
<1>5. CASE TuneWorkerStep
  BY <1>5, WorkerIsRadioTx
<1>6. CASE UNCHANGED tuneVars
  BY <1>6 DEF tuneVars
<1>7. QED BY <1>1, <1>2, <1>3, <1>4, <1>5, <1>6 DEF TuneNext

(* Tuning, RIT and keying together are a behaviour of the transmit path    *)
(* alone: the calls that move the dial have no way to disturb it.          *)
THEOREM TuningKeepsRadioTx == TuneSpec => Safe
<1>1. TuneInit => Init
  BY DEF TuneInit
<1>2. QED BY <1>1, StepIsRadioTx, PTL DEF TuneSpec, TuneSafe, Safe

(* So nothing is switched hot, whatever is tuned meanwhile.                *)
THEOREM TuningNeverHot == TuneSpec => []NoHotSwitch
<1>1. QED BY TuningKeepsRadioTx, NeverHot, PTL

-----------------------------------------------------------------------------
(* RIT and the dial.  Between calls the property is RitBelongsToDial; it   *)
(* is inductive once the calls under way are let in: an offset may belong  *)
(* to an older frequency only while some radio_tune_to() has yet to clear  *)
(* it.                                                                     *)

TunerTyped == tuner \in [Callers -> TunerPhases]

RitInv ==
  /\ TunerTyped
  /\ ritOffset # 0 =>
       ritFreq = freq \/ \E c \in Callers : tuner[c] = "clear"

(* What a step that is no TuneTo, SetRit or ClearRit leaves alone.         *)
KeepsRit ==
  /\ UNCHANGED <<freq, ritOffset, ritFreq>>
  /\ \A c \in Callers : tuner[c] = "clear" => tuner'[c] = "clear"

LEMMA RitInvInit == TuneInit => RitInv
BY DEF TuneInit, RitInv, TunerTyped, TunerPhases

LEMMA TunerTypedNext == TunerTyped /\ [TuneNext]_tuneVars => TunerTyped'
<1> SUFFICES ASSUME TunerTyped, [TuneNext]_tuneVars PROVE TunerTyped'
  OBVIOUS
<1> USE DEF TunerTyped, TunerPhases
<1>1. CASE CallTx
  BY <1>1 DEF CallTx
<1>2. CASE CallTuner
  BY <1>2 DEF CallTuner, TuneTo, SetRit, SetRitEnabled, Step
<1>3. ASSUME NEW c \in Callers, PostTx(c) PROVE TunerTyped'
  BY <1>3 DEF PostTx, dialVars
<1>4. ASSUME NEW c \in Callers, TunerStep(c) PROVE TunerTyped'
  BY <1>4 DEF TunerStep, ClearRit, EndTuneClk2, KeepFilter, DropFilters,
              RaiseFilter, EnableRit, LeaveRitForRx, StartRitClk2, EndRitClk2,
              Return, Step
<1>5. CASE TuneWorkerStep
  BY <1>5 DEF TuneWorkerStep, WorkerElsewhere, WorkerStartsClk2,
              WorkerEndsClk2, dialVars
<1>6. CASE UNCHANGED tuneVars
  BY <1>6 DEF tuneVars, dialVars
<1>7. QED BY <1>1, <1>2, <1>3, <1>4, <1>5, <1>6 DEF TuneNext

LEMMA RitInvNext == RitInv /\ [TuneNext]_tuneVars => RitInv'
<1> SUFFICES ASSUME RitInv, [TuneNext]_tuneVars PROVE RitInv'
  OBVIOUS
<1>0. TunerTyped /\ TunerTyped'
  BY TunerTypedNext DEF RitInv
<1>1. KeepsRit => RitInv'
  BY <1>0 DEF KeepsRit, RitInv
<1>2. ASSUME NEW c \in Callers, NEW f \in Freqs, TuneTo(c, f) PROVE RitInv'
  <2>1. tuner'[c] = "clear"
    BY <1>0, <1>2 DEF TuneTo, Step, TunerTyped
  <2>2. QED BY <1>0, <2>1 DEF RitInv
<1>3. ASSUME NEW c \in Callers, NEW hz \in Offsets, SetRit(c, hz) PROVE RitInv'
  BY <1>0, <1>3 DEF SetRit, RitInv
<1>4. ASSUME NEW c \in Callers, ClearRit(c) PROVE RitInv'
  BY <1>0, <1>4 DEF ClearRit, RitInv
<1>5. ASSUME NEW c \in Callers, NEW turn_on \in BOOLEAN, SetRitEnabled(c, turn_on)
      PROVE KeepsRit
  BY <1>0, <1>5 DEF SetRitEnabled, Step, KeepsRit, TunerTyped
<1>6. ASSUME NEW c \in Callers, TunerStep(c), ~ClearRit(c) PROVE KeepsRit
  <2> USE <1>0 DEF Step, Return, KeepsRit, TunerTyped, rit
  <2>1. CASE EndTuneClk2(c) BY <2>1 DEF EndTuneClk2
  <2>2. CASE KeepFilter(c) BY <2>2 DEF KeepFilter
  <2>3. CASE DropFilters(c) BY <2>3 DEF DropFilters
  <2>4. CASE RaiseFilter(c) BY <2>4 DEF RaiseFilter
  <2>5. CASE EnableRit(c) BY <2>5 DEF EnableRit
  <2>6. CASE LeaveRitForRx(c) BY <2>6 DEF LeaveRitForRx
  <2>7. CASE StartRitClk2(c) BY <2>7 DEF StartRitClk2
  <2>8. CASE EndRitClk2(c) BY <2>8 DEF EndRitClk2
  <2>9. QED
    BY <1>6, <2>1, <2>2, <2>3, <2>4, <2>5, <2>6, <2>7, <2>8 DEF TunerStep
<1>7. ASSUME CallTx PROVE KeepsRit
  BY <1>7 DEF CallTx, rit, KeepsRit
<1>8. ASSUME TuneWorkerStep PROVE KeepsRit
  BY <1>8 DEF TuneWorkerStep, WorkerElsewhere, WorkerStartsClk2,
              WorkerEndsClk2, dialVars, rit, KeepsRit
<1>9. ASSUME NEW c \in Callers, PostTx(c) PROVE KeepsRit
  BY <1>9 DEF PostTx, dialVars, rit, KeepsRit
<1>10. ASSUME UNCHANGED tuneVars PROVE KeepsRit
  BY <1>10 DEF tuneVars, dialVars, rit, KeepsRit
<1>11. CASE CallTuner
  BY <1>1, <1>2, <1>3, <1>5, <1>11 DEF CallTuner
<1>12. ASSUME NEW c \in Callers, TunerStep(c) PROVE RitInv'
  BY <1>1, <1>4, <1>6, <1>12
<1>13. QED
  BY <1>1, <1>7, <1>8, <1>9, <1>10, <1>11, <1>12 DEF TuneNext

(* However tunes and RIT changes from different threads interleave, once   *)
(* they are done an offset that is left was dialed in on this frequency.   *)
THEOREM RitStaysWithDial == TuneSpec => []RitBelongsToDial
<1>1. RitInv => RitBelongsToDial
  BY DEF RitInv, RitBelongsToDial, Tuning
<1>2. QED BY <1>1, RitInvInit, RitInvNext, PTL DEF TuneSpec, TuneSafe

-----------------------------------------------------------------------------
(* The low-pass filter.  While tunes do not overlap there is one at most,  *)
(* it is for the dial frequency, and the pins are those of prev_lpf but    *)
(* between the two halves of set_lpf_40mhz(), when they are all low.       *)

Selections == {{}, {"lpf_a"}, {"lpf_b"}, {"lpf_c"}, {"lpf_d"}}

Raising == {c \in Callers : tuner[c] = "raise"}

FilterInv ==
  /\ TunerTyped
  /\ freq \in Int
  /\ arg \in [Callers -> Int]
  /\ prevLpf \in Selections
  /\ ~lpfRaced =>
       /\ \A c, d \in Retuning : c = d
       /\ \A c \in Retuning : arg[c] = freq
       /\ lines = IF Raising = {} THEN prevLpf ELSE {}
       /\ Retuning = {} => prevLpf = LpfFor(freq)

KeepsFilter ==
  /\ UNCHANGED <<freq, filters>>
  /\ arg' \in [Callers -> Int]
  /\ \A c \in Retuning' : arg'[c] = arg[c]
  /\ Retuning' = Retuning
  /\ Raising' = Raising

LEMMA OneFilterPerBand == \A f \in Int : LpfFor(f) \in Selections
BY DEF LpfFor, Selections

LEMMA FilterInvInit == TuneInit => FilterInv
<1> SUFFICES ASSUME TuneInit PROVE FilterInv
  OBVIOUS
<1>1. StartFreq \in Int /\ LpfFor(StartFreq) \in Selections
  BY DialAssumption, OneFilterPerBand
<1>2. Retuning = {} /\ Raising = {}
  BY DEF TuneInit, Retuning, Raising
<1>3. TunerTyped
  BY RitInvInit DEF RitInv
<1>4. QED BY <1>1, <1>2, <1>3 DEF TuneInit, FilterInv

LEMMA FilterInvNext == FilterInv /\ [TuneNext]_tuneVars => FilterInv'
<1> SUFFICES ASSUME FilterInv, [TuneNext]_tuneVars PROVE FilterInv'
  OBVIOUS
<1>0. TunerTyped /\ TunerTyped'
  BY TunerTypedNext DEF FilterInv
<1>1. KeepsFilter => FilterInv'
  BY <1>0 DEF KeepsFilter, FilterInv, filters, LpfFor
<1>2. ASSUME NEW c \in Callers, NEW f \in Freqs, TuneTo(c, f) PROVE FilterInv'
  <2>1. Retuning' = Retuning \union {c} /\ Raising' = Raising /\ c \notin Retuning
    BY <1>0, <1>2 DEF TuneTo, Step, Retuning, Raising, TunerTyped
  <2>2. f \in Int /\ arg' = [arg EXCEPT ![c] = f] /\ freq' = f
    BY <1>2, DialAssumption DEF TuneTo
  <2>3. lpfRaced' = (lpfRaced \/ Retuning # {}) /\ UNCHANGED <<lines, prevLpf>>
    BY <1>2 DEF TuneTo
  <2>4. QED BY <1>0, <2>1, <2>2, <2>3 DEF FilterInv
<1>3. ASSUME NEW c \in Callers, KeepFilter(c) PROVE FilterInv'
  <2>1. Retuning' = Retuning \ {c} /\ Raising' = Raising /\ c \in Retuning
    BY <1>0, <1>3 DEF KeepFilter, Return, Step, Retuning, Raising, TunerTyped
  <2>2. /\ arg' = [arg EXCEPT ![c] = 0]
        /\ UNCHANGED <<freq, lines, prevLpf, lpfRaced>>
        /\ LpfFor(arg[c]) = prevLpf
    BY <1>3 DEF KeepFilter, Return, filters
  <2>3. QED BY <1>0, <2>1, <2>2 DEF FilterInv, LpfFor
<1>4. ASSUME NEW c \in Callers, DropFilters(c) PROVE FilterInv'
  <2>1. /\ Retuning' = Retuning
        /\ Raising' = Raising \union {c}
        /\ c \in Retuning
    BY <1>0, <1>4 DEF DropFilters, Step, Retuning, Raising, TunerTyped
  <2>2. /\ lines' = {}
        /\ lpfRaced' = (lpfRaced /\ (Retuning # {c} \/ freq # arg[c]))
        /\ UNCHANGED <<freq, arg, prevLpf>>
    BY <1>4 DEF DropFilters
  <2>3. QED BY <1>0, <2>1, <2>2 DEF FilterInv
<1>5. ASSUME NEW c \in Callers, RaiseFilter(c) PROVE FilterInv'
  <2>1. /\ Retuning' = Retuning \ {c}
        /\ Raising' = Raising \ {c}
        /\ c \in Retuning /\ c \in Raising
    BY <1>0, <1>5 DEF RaiseFilter, Return, Step, Retuning, Raising, TunerTyped
  <2>2. /\ lines' = lines \union LpfFor(arg[c])
        /\ prevLpf' = LpfFor(arg[c])
        /\ arg' = [arg EXCEPT ![c] = 0]
        /\ UNCHANGED <<freq, lpfRaced>>
    BY <1>5 DEF RaiseFilter, Return
  <2>3. prevLpf' \in Selections
    BY <2>2, OneFilterPerBand DEF FilterInv
  <2>4. ~lpfRaced => Retuning = {c} /\ Raising = {c} /\ arg[c] = freq /\ lines = {}
    BY <2>1 DEF FilterInv, Raising, Retuning
  <2>5. QED BY <1>0, <2>1, <2>2, <2>3, <2>4 DEF FilterInv, LpfFor
<1>6. ASSUME NEW c \in Callers, TunerStep(c),
             ~KeepFilter(c), ~DropFilters(c), ~RaiseFilter(c)
      PROVE  KeepsFilter
  <2> USE <1>0 DEF FilterInv, Step, Return, KeepsFilter, TunerTyped, filters,
                   Retuning, Raising
  <2>1. CASE ClearRit(c) BY <2>1 DEF ClearRit
  <2>2. CASE EndTuneClk2(c) BY <2>2 DEF EndTuneClk2
  <2>3. CASE EnableRit(c) BY <2>3 DEF EnableRit
  <2>4. CASE LeaveRitForRx(c) BY <2>4 DEF LeaveRitForRx
  <2>5. CASE StartRitClk2(c) BY <2>5 DEF StartRitClk2
  <2>6. CASE EndRitClk2(c) BY <2>6 DEF EndRitClk2
  <2>7. QED BY <1>6, <2>1, <2>2, <2>3, <2>4, <2>5, <2>6 DEF TunerStep
<1>7. ASSUME NEW c \in Callers, NEW hz \in Offsets, SetRit(c, hz)
      PROVE  KeepsFilter
  BY <1>0, <1>7, DialAssumption
     DEF FilterInv, SetRit, Step, KeepsFilter, TunerTyped, filters, Retuning, Raising
<1>8. ASSUME NEW c \in Callers, NEW turn_on \in BOOLEAN, SetRitEnabled(c, turn_on)
      PROVE  KeepsFilter
  BY <1>0, <1>8
     DEF FilterInv, SetRitEnabled, Step, KeepsFilter, TunerTyped, filters,
         Retuning, Raising
<1>9. ASSUME CallTx PROVE KeepsFilter
  BY <1>9 DEF FilterInv, CallTx, KeepsFilter, filters, Retuning, Raising
<1>10. ASSUME TuneWorkerStep PROVE KeepsFilter
  BY <1>10 DEF FilterInv, TuneWorkerStep, WorkerElsewhere, WorkerStartsClk2,
               WorkerEndsClk2, dialVars, KeepsFilter, filters, Retuning, Raising
<1>11. ASSUME NEW c \in Callers, PostTx(c) PROVE KeepsFilter
  BY <1>11 DEF FilterInv, PostTx, dialVars, KeepsFilter, filters, Retuning, Raising
<1>12. ASSUME UNCHANGED tuneVars PROVE KeepsFilter
  BY <1>12 DEF FilterInv, tuneVars, dialVars, KeepsFilter, filters, Retuning, Raising
<1>13. CASE CallTuner
  BY <1>1, <1>2, <1>7, <1>8, <1>13 DEF CallTuner
<1>14. ASSUME NEW c \in Callers, TunerStep(c) PROVE FilterInv'
  BY <1>1, <1>3, <1>4, <1>5, <1>6, <1>14
<1>15. QED
  BY <1>1, <1>9, <1>10, <1>11, <1>12, <1>13, <1>14 DEF TuneNext

LEMMA FewLines == \A S \in Selections : Cardinality(S) <= 1
<1>1. Cardinality({}) = 0
  BY FS_EmptySet
<1>2. \A x : Cardinality({x}) = 1
  BY FS_Singleton
<1>3. SUFFICES ASSUME NEW S \in Selections PROVE Cardinality(S) <= 1
  OBVIOUS
<1>4. PICK x : S = {} \/ S = {x}
  BY DEF Selections
<1>5. Cardinality(S) = 0 \/ Cardinality(S) = 1
  BY <1>1, <1>2, <1>4, Zenon
<1>6. QED BY <1>5

(* One filter, the right one, and never two on the way: for any number of  *)
(* control surfaces whose tunes do not overlap, and again after any tune   *)
(* to another band made alone.                                             *)
THEOREM OneFilterFollows == TuneSpec => []FilterFollowsDial
<1>1. FilterInv => FilterFollowsDial
  <2> SUFFICES ASSUME FilterInv, ~lpfRaced
               PROVE  /\ Cardinality(lines) <= 1
                      /\ Retuning = {} => lines = LpfFor(freq) /\ prevLpf = lines
    BY DEF FilterFollowsDial
  <2>1. lines \in Selections
    BY DEF FilterInv, Selections
  <2>2. Retuning = {} => Raising = {}
    BY DEF Retuning, Raising
  <2>3. QED BY <2>1, <2>2, FewLines DEF FilterInv
<1>2. QED BY <1>1, FilterInvInit, FilterInvNext, PTL DEF TuneSpec, TuneSafe

-----------------------------------------------------------------------------
(* The types, in three groups: numbers, truth values, filter pins.         *)
NumbersTyped ==
  /\ freq \in Freqs
  /\ ritOffset \in Offsets \union {0} /\ ritFreq \in Freqs \union {0}
  /\ clk2 \in Int
  /\ arg \in [Callers -> Int] /\ flight \in [Writers -> Int]

FlagsTyped ==
  ritEnabled \in BOOLEAN /\ mixed \in BOOLEAN /\ clkRaced \in BOOLEAN
    /\ retuned \in BOOLEAN /\ lpfRaced \in BOOLEAN

Pins == {"lpf_a", "lpf_b", "lpf_c", "lpf_d"}

PinsTyped == lines \subseteq Pins /\ prevLpf \subseteq Pins

OneCallEach ==
  /\ TunerTyped
  /\ caller \in [Callers -> {"idle", "post"}]
  /\ \A c \in Callers : tuner[c] # "idle" => caller[c] = "idle"

LEMMA NumbersNext == NumbersTyped /\ [TuneNext]_tuneVars => NumbersTyped'
<1> SUFFICES ASSUME NumbersTyped, [TuneNext]_tuneVars PROVE NumbersTyped'
  OBVIOUS
<1> USE DialAssumption DEF NumbersTyped, Writers, Step, Return, rit, clock
<1>1. ASSUME NEW w \in Writers, NEW value \in Int, StartClk2(w, value)
      PROVE  clk2' \in Int /\ flight' \in [Writers -> Int]
  BY <1>1 DEF StartClk2
<1>2. ASSUME NEW w \in Writers, EndClk2(w)
      PROVE  clk2' \in Int /\ flight' \in [Writers -> Int]
  BY <1>2 DEF EndClk2, Torn
<1>3. RxClk2 \in Int /\ \A f \in Int : TunedClk2(f) \in Int /\ TxClk2(f) \in Int
  BY DEF RxClk2, RitApplied, TunedClk2, TxClk2, XtalFilterCenter, CwPitch
<1>4. ASSUME NEW c \in Callers, TunerStep(c) PROVE NumbersTyped'
  <2>1. CASE ClearRit(c) BY <1>1, <1>3, <2>1 DEF ClearRit
  <2>2. CASE EndTuneClk2(c) BY <1>2, <2>2 DEF EndTuneClk2
  <2>3. CASE KeepFilter(c) \/ DropFilters(c) \/ RaiseFilter(c)
    BY <2>3 DEF KeepFilter, DropFilters, RaiseFilter
  <2>4. CASE EnableRit(c) \/ LeaveRitForRx(c)
    BY <2>4 DEF EnableRit, LeaveRitForRx
  <2>5. CASE StartRitClk2(c) BY <1>1, <1>3, <2>5 DEF StartRitClk2
  <2>6. CASE EndRitClk2(c) BY <1>2, <2>6 DEF EndRitClk2
  <2>7. QED BY <1>4, <2>1, <2>2, <2>3, <2>4, <2>5, <2>6 DEF TunerStep
<1>5. CASE CallTuner
  BY <1>5 DEF CallTuner, TuneTo, SetRit, SetRitEnabled
<1>6. CASE CallTx
  BY <1>6 DEF CallTx
<1>7. ASSUME NEW c \in Callers, PostTx(c) PROVE NumbersTyped'
  BY <1>7 DEF PostTx, dialVars
<1>8. CASE TuneWorkerStep
  <2>1. CASE WorkerElsewhere BY <2>1 DEF WorkerElsewhere, dialVars
  <2>2. CASE WorkerStartsClk2 BY <1>1, <1>3, <2>2 DEF WorkerStartsClk2
  <2>3. CASE WorkerEndsClk2 BY <1>2, <2>3 DEF WorkerEndsClk2
  <2>4. QED BY <1>8, <2>1, <2>2, <2>3 DEF TuneWorkerStep
<1>9. CASE UNCHANGED tuneVars
  BY <1>9 DEF tuneVars, dialVars
<1>10. QED BY <1>4, <1>5, <1>6, <1>7, <1>8, <1>9 DEF TuneNext

LEMMA FlagsNext == TypeOK /\ FlagsTyped /\ [TuneNext]_tuneVars => FlagsTyped'
<1> SUFFICES ASSUME TypeOK, FlagsTyped, [TuneNext]_tuneVars PROVE FlagsTyped'
  OBVIOUS
<1> USE DEF FlagsTyped, clkPast
<1>1. ASSUME NEW c \in Callers, TunerStep(c) PROVE FlagsTyped'
  BY <1>1, Zenon DEF TunerStep, ClearRit, EndTuneClk2, KeepFilter, DropFilters,
     RaiseFilter, EnableRit, LeaveRitForRx, StartRitClk2, EndRitClk2, StartClk2,
     EndClk2, rit, clock, filters
<1>2. CASE CallTuner
  BY <1>2, Zenon DEF TypeOK, CallTuner, TuneTo, SetRit, SetRitEnabled, rit, clock,
     filters
<1>3. CASE CallTx
  BY <1>3, Zenon DEF CallTx, rit, clock, filters
<1>4. CASE TuneWorkerStep
  BY <1>4, Zenon DEF TuneWorkerStep, WorkerElsewhere, WorkerStartsClk2,
     WorkerEndsClk2, StartClk2, EndClk2, dialVars, rit, clock, filters
<1>5. CASE UNCHANGED dialVars
  BY <1>5, Zenon DEF dialVars, rit, clock, filters
<1>6. QED BY <1>1, <1>2, <1>3, <1>4, <1>5, Zenon DEF TuneNext, PostTx, tuneVars

LEMMA PinsNext == PinsTyped /\ [TuneNext]_tuneVars => PinsTyped'
<1> SUFFICES ASSUME PinsTyped, [TuneNext]_tuneVars PROVE PinsTyped'
  OBVIOUS
<1> USE DEF PinsTyped, filters
<1>1. \A f : LpfFor(f) \subseteq Pins
  BY DEF LpfFor, Pins
<1>2. ASSUME NEW c \in Callers, TunerStep(c) PROVE PinsTyped'
  BY <1>1, <1>2 DEF TunerStep, ClearRit, EndTuneClk2, KeepFilter, DropFilters,
     RaiseFilter, EnableRit, LeaveRitForRx, StartRitClk2, EndRitClk2
<1>3. CASE CallTuner
  BY <1>3 DEF CallTuner, TuneTo, SetRit, SetRitEnabled
<1>4. CASE CallTx
  BY <1>4 DEF CallTx
<1>5. CASE TuneWorkerStep
  BY <1>5 DEF TuneWorkerStep, WorkerElsewhere, WorkerStartsClk2, WorkerEndsClk2,
     dialVars
<1>6. CASE UNCHANGED dialVars
  BY <1>6 DEF dialVars
<1>7. QED BY <1>2, <1>3, <1>4, <1>5, <1>6 DEF TuneNext, PostTx, tuneVars

LEMMA OneCallNext == OneCallEach /\ [TuneNext]_tuneVars => OneCallEach'
<1> SUFFICES ASSUME OneCallEach, [TuneNext]_tuneVars PROVE OneCallEach'
  OBVIOUS
<1>0. TunerTyped /\ TunerTyped'
  BY TunerTypedNext DEF OneCallEach
<1> USE <1>0 DEF OneCallEach, Step, Return
<1>1. ASSUME NEW c \in Callers, TunerStep(c) PROVE OneCallEach'
  <2>1. /\ UNCHANGED caller /\ tuner[c] # "idle"
        /\ \A d \in Callers : d # c => tuner'[d] = tuner[d]
    BY <1>1 DEF TunerTyped, TunerStep, ClearRit, EndTuneClk2, KeepFilter,
       DropFilters, RaiseFilter, EnableRit, LeaveRitForRx, StartRitClk2,
       EndRitClk2, vars
  <2>2. QED BY <2>1
<1>2. CASE CallTuner
  BY <1>2 DEF CallTuner, TuneTo, SetRit, SetRitEnabled, Free, TunerTyped, vars
<1>3. CASE CallTx
  BY <1>3 DEF CallTx, SetTx, Free
<1>4. ASSUME NEW c \in Callers, PostTx(c) PROVE OneCallEach'
  BY <1>4 DEF PostTx, Post, dialVars
<1>5. CASE TuneWorkerStep
  <2>1. UNCHANGED <<caller, tuner>>
    BY <1>5 DEF TuneWorkerStep, WorkerElsewhere, WorkerStartsClk2, WorkerEndsClk2,
       WorkerStep, TakeRequest, GoTransmit, GoReceive, MuteCapture, SetClk1Tx,
       SetClk2Tx, AssertPtt, CloseRelay, RaiseDrive, DropDrive, DropPtt,
       OpenRelay, SetClk1Rx, SetClk2Rx, UnmuteCapture, Phase, calls, dialVars, vars
  <2>2. QED BY <2>1
<1>6. CASE UNCHANGED tuneVars
  BY <1>6 DEF tuneVars, dialVars, vars
<1>7. QED BY <1>1, <1>2, <1>3, <1>4, <1>5, <1>6 DEF TuneNext

(* Whatever is tuned, stepped and keyed from wherever, no thread is in two *)
(* calls at once, and every number is one the clock generator can be given.*)
THEOREM TunerTypes == TuneSpec => []TuneTypeOK
<1>1. TuneInit => Init /\ NumbersTyped /\ FlagsTyped /\ PinsTyped /\ OneCallEach
  <2> SUFFICES ASSUME TuneInit
               PROVE  Init /\ NumbersTyped /\ FlagsTyped /\ PinsTyped /\ OneCallEach
    OBVIOUS
  <2>1. FlagsTyped
    BY Zenon DEF TuneInit, FlagsTyped
  <2>2. LpfFor(StartFreq) \subseteq Pins
    BY DEF LpfFor, Pins
  <2>3. TunerTyped
    BY RitInvInit DEF RitInv
  <2>4. OneCallEach
    BY <2>3, TypeInit DEF OneCallEach, TuneInit, TypeOK
  <2>5. PinsTyped
    BY <2>2 DEF TuneInit, PinsTyped
  <2>6. NumbersTyped
    BY DialAssumption DEF TuneInit, NumbersTyped, TunedClk2, XtalFilterCenter
  <2>7. QED BY <2>1, <2>4, <2>5, <2>6 DEF TuneInit
<1>2. TypeOK /\ NumbersTyped /\ FlagsTyped /\ PinsTyped /\ OneCallEach => TuneTypeOK
  BY Zenon DEF NumbersTyped, FlagsTyped, PinsTyped, Pins, OneCallEach, TunerTyped,
               TuneTypeOK
<1>3. QED
  BY <1>1, <1>2, TypeInit, TypeNext, StepIsRadioTx, NumbersNext, FlagsNext,
     PinsNext, OneCallNext, PTL DEF TuneSpec, TuneSafe

-----------------------------------------------------------------------------
(* clk2.  Clk2FollowsDial speaks of the radio at rest only.  Its invariant *)
(* follows each write from the value computed to the value in the clock,   *)
(* for the one thread whose turn it is while no calls overlap: a caller    *)
(* with the transmit path at rest, or the worker with no caller about.     *)

Writing ==
  /\ flight[Worker] # 0 => worker \in {"clk2_tx", "clk2_rx"}
  /\ \A c \in Callers : flight[c] # 0 => tuner[c] \in {"tune_clk2", "rit_clk2"}
  /\ mixed => Flying # {}

TakingTurns ==
  ~clkRaced =>
    /\ ~mixed
    /\ \A c \in Tuning : ~Switching /\ \A d \in Tuning : c = d

WorkerWrites ==
  ~clkRaced =>
    /\ flight[Worker] # 0 =>
         flight[Worker] = IF worker = "clk2_tx" THEN TxClk2(freq) ELSE RxClk2
    /\ worker \in {"ptt_on", "relay_on", "drive_on"} => clk2 = TxClk2(freq)
    /\ worker = "unmute" => clk2 = RxClk2
    /\ Switching => ~retuned

OnDial == clk2 = (IF retuned THEN TunedClk2(freq) ELSE TxClk2(freq))
Dialed == IF on THEN OnDial ELSE clk2 = RxClk2

(* A caller on its way through radio_tune_to() or a RIT call.              *)
OnItsWay(c) ==
  /\ tuner[c] \in {"clear", "tune_clk2", "filter", "raise"} /\ on => retuned
  /\ tuner[c] = "clear" => arg[c] = freq
  /\ tuner[c] = "tune_clk2" => ~ritEnabled /\ flight[c] = TunedClk2(freq)
  /\ tuner[c] \in {"filter", "raise"} => ~ritEnabled /\ clk2 = TunedClk2(freq)
  /\ tuner[c] \in {"enable", "check"} /\ on => OnDial
  /\ tuner[c] = "rit_clk2" => ~on /\ flight[c] = RxClk2

CallersWrite ==
  ~clkRaced /\ ~raced =>
    /\ Settled => Dialed
    /\ \A c \in Tuning : OnItsWay(c)

ClockInv == Writing /\ TakingTurns /\ WorkerWrites /\ CallersWrite

LEMMA WorkerIsNoCaller ==
  Worker \in Writers /\ Callers \subseteq Writers /\ Worker \notin Callers
BY DialAssumption DEF Writers

(* A step of a caller that is not the first of its call.                   *)
LEMMA TunerMoves ==
  ASSUME TuneTypeOK, NEW c \in Callers, TunerStep(c)
  PROVE  /\ UNCHANGED <<vars, freq, clkRaced, retuned>>
         /\ tuner[c] # "idle"
         /\ \A d \in Callers \ {c} : tuner'[d] = tuner[d]
         /\ flight'[Worker] = flight[Worker]
         /\ \A d \in Callers \ {c} : flight'[d] = flight[d]
BY WorkerIsNoCaller
   DEF TunerStep, ClearRit, EndTuneClk2, KeepFilter, DropFilters, RaiseFilter,
       EnableRit, LeaveRitForRx, StartRitClk2, EndRitClk2, Return, Step,
       StartClk2, EndClk2, TuneTypeOK, clock, clkPast

(* A caller whose turn it is, is alone.                                    *)
LEMMA Alone ==
  ASSUME TuneTypeOK, Writing, TakingTurns, ~clkRaced,
         NEW c \in Callers, tuner[c] # "idle"
  PROVE  /\ Tuning = {c} /\ ~Switching /\ ~mixed
         /\ worker \in Waiting /\ flight[Worker] = 0
         /\ \A d \in Callers \ {c} : flight[d] = 0
<1>1. c \in Tuning /\ ~Switching /\ Tuning = {c} /\ ~mixed
  BY DEF TakingTurns, Tuning
<1>2. worker \in Waiting /\ flight[Worker] = 0
  BY <1>1 DEF Switching, AtRest, Waiting, Writing
<1>3. \A d \in Callers \ {c} : tuner[d] = "idle"
  BY <1>1 DEF Tuning
<1>4. QED BY <1>1, <1>2, <1>3 DEF Writing

LEMMA NobodyWrites ==
  ASSUME TuneTypeOK, Writing, Tuning = {}, flight[Worker] = 0
  PROVE  Flying = {} /\ ~mixed
<1>1. \A c \in Callers : flight[c] = 0
  BY DEF Writing, Tuning
<1>2. QED BY <1>1 DEF Flying, Writers, Writing

LEMMA WorkingSwitches ==
  ASSUME TuneWorkerStep
  PROVE  Switching
BY DEF TuneWorkerStep, WorkerElsewhere, WorkerStartsClk2, WorkerEndsClk2, WorkerStep,
       TakeRequest, GoTransmit, GoReceive, MuteCapture, SetClk1Tx, SetClk2Tx,
       AssertPtt, CloseRelay, RaiseDrive, DropDrive, DropPtt, OpenRelay, SetClk1Rx,
       SetClk2Rx, UnmuteCapture, Phase, Switching, AtRest, Waiting

(* A quiet radio that no two calls have raced for says what it does.       *)
LEMMA TruthAtRest ==
  ASSUME IInv, ~Switching, ~raced
  PROVE  inTx = on
<1>1. inTx = pendingOn
  BY DEF IInv, Honest, Switching, Calling, TypeOK
<1>2. QED BY <1>1 DEF IInv, Request, Switching, AtRest

LEMMA CallTxStarts ==
  ASSUME TuneTypeOK, CallTx
  PROVE  /\ worker' = (IF worker = "unborn" THEN "wait" ELSE worker)
         /\ Switching' /\ ~retuned'
         /\ clkRaced' = (Tuning # {} \/ (Switching /\ clkRaced))
         /\ Tuning' = Tuning
         /\ UNCHANGED <<freq, rit, clock, tuner, arg>>
BY DEF CallTx, SetTx, Switching, Calling, TuneTypeOK, TypeOK, Tuning

(* The first step of a call that tunes or dials RIT.                       *)
LEMMA CallTunerStarts ==
  ASSUME TuneTypeOK, NEW c \in Callers,
         \/ \E f \in Freqs : TuneTo(c, f)
         \/ \E hz \in Offsets : SetRit(c, hz)
         \/ \E turn_on \in BOOLEAN : SetRitEnabled(c, turn_on)
  PROVE  /\ UNCHANGED <<vars, clock>>
         /\ tuner[c] = "idle" /\ tuner'[c] \in {"clear", "enable", "check"}
         /\ Tuning' = Tuning \union {c}
         /\ \A d \in Callers \ {c} : tuner'[d] = tuner[d]
         /\ ~clkRaced' => Tuning = {} /\ ~Switching
BY DEF TuneTo, SetRit, SetRitEnabled, Step, TuneTypeOK, Tuning, TunerPhases

LEMMA WritingNext == TuneTypeOK /\ Writing /\ [TuneNext]_tuneVars => Writing'
<1> SUFFICES ASSUME TuneTypeOK, Writing, [TuneNext]_tuneVars PROVE Writing'
  OBVIOUS
<1>1. ASSUME NEW w \in Writers, NEW v, flight[w] = 0, StartClk2(w, v), mixed'
      PROVE  Flying' # {}
  <2>1. PICK x \in Flying : TRUE
    BY <1>1 DEF StartClk2, Writing
  <2>2. x # w /\ x \in Writers /\ flight'[x] = flight[x] /\ flight[x] # 0
    BY <1>1, <2>1 DEF StartClk2, Flying, TuneTypeOK
  <2>3. QED BY <2>2 DEF Flying
<1>2. ASSUME NEW w \in Writers, EndClk2(w), mixed'
      PROVE  Flying' # {}
  <2>1. PICK x \in Flying : x # w
    BY <1>2 DEF EndClk2, Writing
  <2>2. x \in Writers /\ flight'[x] = flight[x] /\ flight[x] # 0
    BY <1>2, <2>1 DEF EndClk2, Flying, TuneTypeOK
  <2>3. QED BY <2>2 DEF Flying
<1>3. ASSUME NEW c \in Callers, TunerStep(c) PROVE Writing'
  <2>1. /\ worker' = worker /\ flight'[Worker] = flight[Worker]
        /\ \A d \in Callers \ {c} : tuner'[d] = tuner[d] /\ flight'[d] = flight[d]
    BY <1>3, TunerMoves DEF vars
  <2>2. SUFFICES /\ flight'[c] # 0 => tuner'[c] \in {"tune_clk2", "rit_clk2"}
                 /\ mixed' => Flying' # {}
    BY <2>1 DEF Writing
  <2> USE DEF Writing, Step, Return, TuneTypeOK, clock
  <2>3. CASE ClearRit(c)
    <3>1. flight[c] = 0 /\ c \in Writers /\ StartClk2(c, TunedClk2(arg[c]))
      BY <2>3, WorkerIsNoCaller DEF ClearRit
    <3>2. QED BY <1>1, <2>3, <3>1 DEF ClearRit
  <2>4. CASE StartRitClk2(c)
    <3>1. flight[c] = 0 /\ c \in Writers /\ StartClk2(c, RxClk2)
      BY <2>4, WorkerIsNoCaller DEF StartRitClk2
    <3>2. QED BY <1>1, <2>4, <3>1 DEF StartRitClk2
  <2>5. CASE EndTuneClk2(c) \/ EndRitClk2(c)
    <3>1. EndClk2(c) /\ c \in Writers
      BY <2>5, WorkerIsNoCaller DEF EndTuneClk2, EndRitClk2
    <3>2. flight'[c] = 0
      BY <3>1 DEF EndClk2
    <3>3. QED BY <1>2, <3>1, <3>2
  <2>6. CASE KeepFilter(c) \/ DropFilters(c) \/ RaiseFilter(c)
    BY <2>6 DEF KeepFilter, DropFilters, RaiseFilter, Flying
  <2>7. CASE EnableRit(c) \/ LeaveRitForRx(c)
    BY <2>7 DEF EnableRit, LeaveRitForRx, Flying
  <2>8. QED BY <1>3, <2>3, <2>4, <2>5, <2>6, <2>7 DEF TunerStep
<1>4. CASE CallTuner
  <2>1. PICK c \in Callers :
          /\ UNCHANGED <<vars, clock>> /\ tuner[c] = "idle"
          /\ \A d \in Callers \ {c} : tuner'[d] = tuner[d]
    BY <1>4, CallTunerStarts DEF CallTuner
  <2>2. QED BY <2>1 DEF Writing, vars, clock, Flying
<1>5. CASE CallTx
  BY <1>5, CallTxStarts DEF Writing, clock, Flying
<1>6. ASSUME NEW c \in Callers, PostTx(c) PROVE Writing'
  BY <1>6 DEF PostTx, Post, dialVars, Writing, clock, Flying
<1>7. CASE WorkerElsewhere
  BY <1>7 DEF WorkerElsewhere, dialVars, Writing, clock, Flying
<1>8. CASE WorkerStartsClk2
  <2>1. PICK v : StartClk2(Worker, v)
    BY <1>8 DEF WorkerStartsClk2
  <2>2. flight[Worker] = 0 /\ worker' \in {"clk2_tx", "clk2_rx"} /\ UNCHANGED tuner
    BY <1>8 DEF WorkerStartsClk2, vars
  <2>3. \A c \in Callers : flight'[c] = flight[c]
    BY <2>1, WorkerIsNoCaller DEF StartClk2, TuneTypeOK
  <2>4. QED BY <1>1, <2>1, <2>2, <2>3, WorkerIsNoCaller DEF Writing
<1>9. CASE WorkerEndsClk2
  <2>1. EndClk2(Worker) /\ UNCHANGED tuner
    BY <1>9 DEF WorkerEndsClk2
  <2>2. flight'[Worker] = 0 /\ \A c \in Callers : flight'[c] = flight[c]
    BY <2>1, WorkerIsNoCaller DEF EndClk2, TuneTypeOK
  <2>3. QED BY <1>2, <2>1, <2>2, WorkerIsNoCaller DEF Writing
<1>10. CASE UNCHANGED tuneVars
  BY <1>10 DEF tuneVars, vars, dialVars, Writing, clock, Flying
<1>11. QED
  BY <1>3, <1>4, <1>5, <1>6, <1>7, <1>8, <1>9, <1>10 DEF TuneNext, TuneWorkerStep

LEMMA TakingTurnsNext ==
  TuneTypeOK /\ Writing /\ TakingTurns /\ [TuneNext]_tuneVars => TakingTurns'
<1> SUFFICES ASSUME TuneTypeOK, Writing, TakingTurns, [TuneNext]_tuneVars, ~clkRaced'
             PROVE  /\ ~mixed'
                    /\ \A c \in Tuning' : ~Switching' /\ \A d \in Tuning' : c = d
  BY DEF TakingTurns
(* Where the history starts afresh nobody is writing.                      *)
<1>1. Tuning = {} /\ ~Switching => ~mixed
  BY NobodyWrites DEF Switching, AtRest, Waiting, Writing
<1>2. Switching /\ ~clkRaced => Tuning = {} /\ ~mixed
  BY DEF TakingTurns
<1>3. ASSUME NEW c \in Callers, TunerStep(c)
      PROVE  ~mixed' /\ \A x \in Tuning' : ~Switching' /\ \A d \in Tuning' : x = d
  <2>1. ~clkRaced /\ tuner[c] # "idle" /\ UNCHANGED <<caller, pending, worker>>
        /\ \A d \in Callers \ {c} : tuner'[d] = tuner[d]
    BY <1>3, TunerMoves DEF vars
  <2>2. /\ Tuning = {c} /\ ~Switching /\ ~mixed /\ flight[Worker] = 0
        /\ \A d \in Callers \ {c} : flight[d] = 0
    BY <2>1, Alone
  <2>3. ~Switching' /\ Tuning' \subseteq {c}
    BY <2>1, <2>2 DEF Switching, AtRest, Calling, Tuning
  <2>4. flight[c] = 0 => Flying = {}
    BY <2>2 DEF Flying, Writers
  <2>5. ~mixed'
    BY <1>3, <2>2, <2>4
       DEF TunerStep, ClearRit, EndTuneClk2, KeepFilter, DropFilters, RaiseFilter,
           EnableRit, LeaveRitForRx, StartRitClk2, EndRitClk2, Return, Step, StartClk2,
           EndClk2, clock, Writing
  <2>6. QED BY <2>3, <2>5
<1>4. CASE CallTuner
  <2>1. PICK c \in Callers :
          /\ UNCHANGED <<vars, clock>> /\ Tuning' = Tuning \union {c}
          /\ Tuning = {} /\ ~Switching
    BY <1>4, CallTunerStarts DEF CallTuner
  <2>2. QED BY <1>1, <2>1 DEF vars, clock, Switching, AtRest, Calling
<1>5. CASE CallTx
  <2>1. Tuning' = {} /\ mixed' = mixed
    BY <1>5, CallTxStarts DEF clock
  <2>2. Tuning = {} /\ (~Switching \/ ~clkRaced)
    BY <1>5, CallTxStarts
  <2>3. QED BY <1>1, <1>2, <2>1, <2>2
<1>6. ASSUME NEW c \in Callers, PostTx(c) PROVE Tuning' = {} /\ ~mixed'
  <2>1. Switching /\ UNCHANGED <<tuner, mixed, clkRaced>>
    BY <1>6 DEF PostTx, Post, Switching, Calling, dialVars, clkPast, clock
  <2>2. QED BY <1>2, <2>1 DEF Tuning
<1>7. CASE TuneWorkerStep
  <2>1. UNCHANGED <<tuner, clkRaced>>
    BY <1>7 DEF TuneWorkerStep, WorkerElsewhere, WorkerStartsClk2, WorkerEndsClk2,
                dialVars, clkPast
  <2>2. Tuning = {} /\ ~mixed
    BY <1>2, <1>7, <2>1, WorkingSwitches
  <2>3. flight[Worker] = 0 => Flying = {}
    BY <2>2, NobodyWrites
  <2>4. ~mixed'
    BY <1>7, <2>2, <2>3
       DEF TuneWorkerStep, WorkerElsewhere, WorkerStartsClk2, WorkerEndsClk2,
           StartClk2, EndClk2, dialVars, clkPast, clock
  <2>5. QED BY <2>1, <2>2, <2>4 DEF Tuning
<1>8. CASE UNCHANGED tuneVars
  BY <1>8 DEF tuneVars, vars, dialVars, clkPast, clock, TakingTurns, Tuning, Switching,
              AtRest, Calling
<1>9. QED BY <1>3, <1>4, <1>5, <1>6, <1>7, <1>8 DEF TuneNext

LEMMA WorkerWritesNext ==
  TuneTypeOK /\ Writing /\ TakingTurns /\ WorkerWrites /\ [TuneNext]_tuneVars
    => WorkerWrites'
<1> SUFFICES ASSUME TuneTypeOK, Writing, TakingTurns, WorkerWrites,
                    [TuneNext]_tuneVars, ~clkRaced'
             PROVE  WorkerWrites'
  BY DEF WorkerWrites
<1>1. ASSUME worker' \in Waiting, flight'[Worker] = 0, Switching' => ~retuned'
      PROVE  WorkerWrites'
  BY <1>1 DEF WorkerWrites, Waiting
<1>2. ~Switching => worker \in Waiting /\ flight[Worker] = 0
  BY DEF Switching, AtRest, Waiting, Writing
<1>3. ASSUME NEW c \in Callers, TunerStep(c) PROVE WorkerWrites'
  <2>1. ~clkRaced /\ tuner[c] # "idle" /\ flight'[Worker] = flight[Worker]
        /\ UNCHANGED vars
    BY <1>3, TunerMoves
  <2>2. ~Switching'
    BY <2>1, Alone DEF vars, Switching, AtRest, Calling
  <2>3. QED BY <1>1, <2>1, <2>2, Alone DEF vars
<1>4. CASE CallTuner
  <2>1. ~Switching /\ UNCHANGED <<vars, clock>>
    BY <1>4, CallTunerStarts DEF CallTuner
  <2>2. ~Switching'
    BY <2>1 DEF vars, Switching, AtRest, Calling
  <2>3. QED BY <1>1, <1>2, <2>1, <2>2 DEF vars, clock
<1>5. CASE CallTx
  <2>1. /\ worker' = (IF worker = "unborn" THEN "wait" ELSE worker)
        /\ UNCHANGED <<freq, rit, clock>> /\ ~retuned'
    BY <1>5, CallTxStarts
  <2>2. CASE ~Switching
    BY <1>1, <1>2, <2>1, <2>2 DEF clock, Waiting
  <2>3. CASE Switching
    <3>1. ~clkRaced
      BY <1>5, <2>3, CallTxStarts
    <3>2. QED BY <2>1, <3>1 DEF WorkerWrites, rit, clock, RxClk2, RitApplied, TxClk2
  <2>4. QED BY <2>2, <2>3
<1>6. ASSUME NEW c \in Callers, PostTx(c) PROVE WorkerWrites'
  <2>1. Switching /\ UNCHANGED <<worker, dialVars>>
    BY <1>6 DEF PostTx, Post, Switching, Calling
  <2>2. QED BY <2>1 DEF dialVars, clkPast, rit, clock, WorkerWrites, RxClk2, RitApplied,
                        TxClk2
<1>7. CASE WorkerElsewhere
  <2>1. ~clkRaced /\ flight[Worker] = 0 /\ UNCHANGED <<freq, rit, clock, retuned>>
    BY <1>7 DEF WorkerElsewhere, dialVars, clkPast, Writing
  <2>2. /\ worker' \in {"relay_on", "drive_on"} => worker \in {"ptt_on", "relay_on"}
        /\ worker' \notin {"ptt_on", "unmute"}
    BY <1>7 DEF WorkerElsewhere, WorkerStep, TakeRequest, GoTransmit, GoReceive,
       MuteCapture, SetClk1Tx, SetClk2Tx, AssertPtt, CloseRelay, RaiseDrive, DropDrive,
       DropPtt, OpenRelay, SetClk1Rx, SetClk2Rx, UnmuteCapture, Phase
  <2>3. Switching
    BY <1>7, WorkingSwitches DEF TuneWorkerStep
  <2>4. QED BY <2>1, <2>2, <2>3 DEF WorkerWrites, clock, TxClk2
<1>8. CASE WorkerStartsClk2
  <2>1. ~clkRaced /\ UNCHANGED <<freq, rit, worker, retuned>>
        /\ worker \in {"clk2_tx", "clk2_rx"} /\ Switching
    BY <1>8, WorkingSwitches DEF TuneWorkerStep, WorkerStartsClk2, vars, clkPast
  <2>2. flight'[Worker] = IF worker = "clk2_tx" THEN TxClk2(freq) ELSE RxClk2
    BY <1>8, WorkerIsNoCaller DEF WorkerStartsClk2, StartClk2, TuneTypeOK
  <2>3. QED BY <2>1, <2>2 DEF WorkerWrites, rit, RxClk2, RitApplied, TxClk2
<1>9. CASE WorkerEndsClk2
  <2>1. ~clkRaced /\ UNCHANGED <<freq, rit, retuned>> /\ flight[Worker] # 0
        /\ Switching
    BY <1>9, WorkingSwitches DEF TuneWorkerStep, WorkerEndsClk2, clkPast
  <2>2. clk2' = flight[Worker] /\ flight'[Worker] = 0
    BY <1>9, <2>1, WorkerIsNoCaller DEF WorkerEndsClk2, EndClk2, TakingTurns, TuneTypeOK
  <2>3. \/ worker = "clk2_tx" /\ worker' = "ptt_on"
        \/ worker = "clk2_rx" /\ worker' = "unmute"
    BY <1>9 DEF WorkerEndsClk2, SetClk2Tx, SetClk2Rx, Phase
  <2>4. QED BY <2>1, <2>2, <2>3 DEF WorkerWrites, rit, RxClk2, RitApplied, TxClk2
<1>10. CASE UNCHANGED tuneVars
  BY <1>10 DEF tuneVars, vars, dialVars, clkPast, rit, clock, WorkerWrites, RxClk2,
               RitApplied, TxClk2, Switching, AtRest, Calling
<1>11. QED
  BY <1>3, <1>4, <1>5, <1>6, <1>7, <1>8, <1>9, <1>10 DEF TuneNext, TuneWorkerStep

(* A caller goes through its call alone: from step to step, and out of it. *)
LEMMA TunerStepOnItsWay ==
  ASSUME IInv, TuneTypeOK, Writing, TakingTurns, CallersWrite, ~clkRaced, ~raced,
         NEW c \in Callers, TunerStep(c)
  PROVE  IF tuner'[c] = "idle" THEN Dialed' ELSE OnItsWay(c)'
<1>1. /\ UNCHANGED <<vars, freq, clkRaced, retuned>> /\ tuner[c] # "idle"
  BY TunerMoves
<1>2. ~Switching /\ ~mixed /\ OnItsWay(c) /\ c \in Tuning
  BY <1>1, Alone DEF CallersWrite, Tuning
<1>3. inTx = on
  BY <1>2, TruthAtRest
<1>4. on' = on /\ freq' = freq /\ retuned' = retuned /\ freq \in Int
  BY <1>1, DialAssumption DEF vars, TuneTypeOK
<1>5. ~ritEnabled => RxClk2 = TunedClk2(freq)
  BY <1>4 DEF RxClk2, TunedClk2, RitApplied, XtalFilterCenter
<1> USE <1>4 DEF OnItsWay, OnDial, Dialed, Step, Return, TuneTypeOK, TunedClk2, TxClk2
<1>6. CASE ClearRit(c)
  BY <1>2, <1>6, WorkerIsNoCaller DEF ClearRit, StartClk2
<1>7. CASE EndTuneClk2(c)
  BY <1>2, <1>7 DEF EndTuneClk2, EndClk2, rit
<1>8. CASE KeepFilter(c) \/ RaiseFilter(c)
  <2>1. ~ritEnabled /\ clk2 = TunedClk2(freq) /\ UNCHANGED <<rit, clock>>
        /\ tuner'[c] = "idle" /\ (on => retuned)
    BY <1>2, <1>8 DEF KeepFilter, RaiseFilter
  <2>2. clk2' = RxClk2' /\ clk2' = TunedClk2(freq')
    BY <1>5, <2>1 DEF RxClk2, RitApplied, rit, clock
  <2>3. QED BY <2>1, <2>2
<1>9. CASE DropFilters(c)
  BY <1>2, <1>9 DEF DropFilters, rit, clock
<1>10. CASE EnableRit(c)
  BY <1>2, <1>10 DEF EnableRit, clock
<1>11. CASE LeaveRitForRx(c)
  BY <1>2, <1>3, <1>11 DEF LeaveRitForRx, clock
<1>12. CASE StartRitClk2(c)
  BY <1>2, <1>3, <1>12, WorkerIsNoCaller
     DEF StartRitClk2, StartClk2, rit, RxClk2, RitApplied
<1>13. CASE EndRitClk2(c)
  BY <1>2, <1>13 DEF EndRitClk2, EndClk2, rit, RxClk2, RitApplied
<1>14. QED
  BY <1>6, <1>7, <1>8, <1>9, <1>10, <1>11, <1>12, <1>13 DEF TunerStep

LEMMA CallersWriteNext ==
  IInv /\ TuneTypeOK /\ ClockInv /\ [TuneNext]_tuneVars => CallersWrite'
<1> SUFFICES ASSUME IInv, TuneTypeOK, ClockInv, [TuneNext]_tuneVars,
                    ~clkRaced', ~raced'
             PROVE  (Settled => Dialed)' /\ \A c \in Tuning' : OnItsWay(c)'
  BY DEF CallersWrite
<1> USE DEF ClockInv
<1>1. ASSUME NEW c \in Callers, TunerStep(c)
      PROVE  (Settled => Dialed)' /\ \A d \in Tuning' : OnItsWay(d)'
  <2>1. /\ ~clkRaced /\ ~raced /\ tuner[c] # "idle"
        /\ \A d \in Callers \ {c} : tuner'[d] = tuner[d]
    BY <1>1, TunerMoves DEF vars
  <2>2. Tuning' \subseteq {c}
    BY <2>1, Alone DEF Tuning
  <2>3. IF tuner'[c] = "idle" THEN Dialed' ELSE OnItsWay(c)'
    BY <1>1, <2>1, TunerStepOnItsWay
  <2>4. QED BY <2>2, <2>3 DEF Tuning, Settled
<1>2. ASSUME NEW c \in Callers, NEW f \in Freqs, TuneTo(c, f)
      PROVE  (Settled => Dialed)' /\ \A d \in Tuning' : OnItsWay(d)'
  <2>1. Tuning' = {c}
    BY <1>2, CallTunerStarts
  <2>2. tuner'[c] = "clear" /\ arg'[c] = freq' /\ retuned' = inTx
        /\ UNCHANGED vars
    BY <1>2 DEF TuneTo, Step, TuneTypeOK
  <2>3. inTx = on
    BY <1>2, <2>2, CallTunerStarts, TruthAtRest DEF vars
  <2>4. QED BY <2>1, <2>2, <2>3 DEF OnItsWay, Settled, vars
<1>3. ASSUME NEW c \in Callers,
             \/ \E hz \in Offsets : SetRit(c, hz)
             \/ \E turn_on \in BOOLEAN : SetRitEnabled(c, turn_on)
      PROVE  (Settled => Dialed)' /\ \A d \in Tuning' : OnItsWay(d)'
  <2>1. Tuning' = {c} /\ Settled /\ UNCHANGED <<vars, clock>>
    BY <1>3, CallTunerStarts DEF Settled
  <2>2. tuner'[c] \in {"enable", "check"} /\ UNCHANGED <<freq, retuned>> /\ ~clkRaced
    BY <1>3 DEF SetRit, SetRitEnabled, Step, TuneTypeOK
  <2>3. ~raced /\ on' = on /\ clk2' = clk2
    BY <2>1 DEF vars, clock
  <2>4. on => OnDial
    BY <2>1, <2>2, <2>3 DEF CallersWrite, Dialed
  <2>5. on' => OnDial'
    BY <2>2, <2>3, <2>4 DEF OnDial, TxClk2, TunedClk2
  <2>6. QED BY <2>1, <2>2, <2>5 DEF OnItsWay, Settled
<1>4. CASE CallTx
  BY <1>4, CallTxStarts DEF Settled
<1>5. ASSUME NEW c \in Callers, PostTx(c) PROVE Tuning' = {} /\ Switching'
  <2>1. Switching /\ UNCHANGED <<tuner, clkRaced>> /\ pending'
    BY <1>5 DEF PostTx, Post, Switching, Calling, dialVars, clkPast
  <2>2. Tuning = {}
    BY <2>1 DEF TakingTurns
  <2>3. QED BY <2>1, <2>2 DEF Tuning, Switching, AtRest
<1>6. CASE TuneWorkerStep
  <2>1. UNCHANGED <<tuner, clkRaced, retuned, freq, rit>>
    BY <1>6 DEF TuneWorkerStep, WorkerElsewhere, WorkerStartsClk2, WorkerEndsClk2,
                dialVars, clkPast
  <2>2. Tuning' = {} /\ ~retuned
    BY <1>6, <2>1, WorkingSwitches DEF TakingTurns, WorkerWrites, Tuning
(* Only the last step of either sequence leaves the worker at rest.        *)
  <2>3. ASSUME worker' \in Waiting
        PROVE  /\ on' = on /\ clk2' = clk2
               /\ worker = "drive_on" \/ worker = "unmute"
    BY <1>6, <2>3 DEF TuneWorkerStep, WorkerElsewhere, WorkerStartsClk2,
       WorkerEndsClk2, WorkerStep, TakeRequest, GoTransmit, GoReceive, MuteCapture,
       SetClk1Tx, SetClk2Tx, AssertPtt, CloseRelay, RaiseDrive, DropDrive, DropPtt,
       OpenRelay, SetClk1Rx, SetClk2Rx, UnmuteCapture, Phase, dialVars, clock, vars,
       Waiting
  <2>4. ASSUME worker' \in Waiting PROVE Dialed'
    <3>1. Dialed
      BY <2>1, <2>2, <2>3, <2>4 DEF WorkerWrites, IInv, Request, Dialed, OnDial,
         OnPhases, OffPhases
    <3>2. QED BY <2>1, <2>3, <2>4, <3>1
             DEF Dialed, OnDial, TxClk2, TunedClk2, RxClk2, RitApplied, rit
  <2>5. QED BY <2>2, <2>4 DEF Settled, Switching, AtRest
<1>7. CASE UNCHANGED tuneVars
  BY <1>7 DEF tuneVars, vars, dialVars, clkPast, rit, clock, CallersWrite, Settled,
     Dialed, OnDial, OnItsWay, RxClk2, RitApplied, TxClk2, TunedClk2, Tuning, Switching,
     AtRest, Calling
<1>8. QED
  BY <1>1, <1>2, <1>3, <1>4, <1>5, <1>6, <1>7 DEF TuneNext, CallTuner, Settled

LEMMA ClockInvInit == TuneInit => ClockInv
<1> SUFFICES ASSUME TuneInit PROVE ClockInv
  OBVIOUS
<1>1. /\ Tuning = {} /\ Flying = {} /\ ~mixed /\ flight[Worker] = 0
      /\ worker = "unborn" /\ ~on /\ ~retuned /\ \A c \in Callers : flight[c] = 0
  BY WorkerIsNoCaller DEF TuneInit, Init, NobodyCalled, Tuning, Flying
<1>2. clk2 = RxClk2
  BY DialAssumption DEF TuneInit, RxClk2, RitApplied, TunedClk2, XtalFilterCenter
<1>3. QED
  BY <1>1, <1>2
     DEF ClockInv, Writing, TakingTurns, WorkerWrites, CallersWrite, Dialed

(* Whoever calls, from however many threads: calls that do not overlap     *)
(* leave the second clock where dial and RIT say, through every order of   *)
(* tuning, dialing RIT and keying.                                         *)
THEOREM Clk2Follows == TuneSpec => []Clk2FollowsDial
<1>1. IInv /\ TuneTypeOK /\ ClockInv => Clk2FollowsDial
  <2> SUFFICES ASSUME IInv, ClockInv, Settled, ~clkRaced, ~raced
               PROVE  IF hw.ptt = 1 THEN OnDial ELSE clk2 = RxClk2
    BY DEF Clk2FollowsDial, OnDial
  <2>1. hw = IF on THEN Transmit ELSE Receive
    BY DEF IInv, Sequence, Settled, Switching, AtRest
  <2>2. hw.ptt = 1 <=> on
    BY <2>1 DEF Transmit, Receive, Devices
  <2>3. QED BY <2>2 DEF ClockInv, CallersWrite, Dialed
<1>2. ClockInv /\ IInv /\ TuneTypeOK /\ [TuneNext]_tuneVars => ClockInv'
  BY WritingNext, TakingTurnsNext, WorkerWritesNext, CallersWriteNext DEF ClockInv
<1>3. TuneSpec => []IInv
  BY Inductive, TuningKeepsRadioTx, PTL
<1>4. QED
  BY <1>1, <1>2, <1>3, ClockInvInit, TunerTypes, PTL DEF TuneSpec, TuneSafe

=============================================================================
