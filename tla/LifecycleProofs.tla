-------------------------- MODULE LifecycleProofs --------------------------
(***************************************************************************)
(* Machine-checked proofs about Lifecycle, for any control surfaces and    *)
(* from any state that the last process may have left the devices in.      *)
(*                                                                         *)
(* Three arguments.  Until the codec is set up the worker, if anybody has  *)
(* called at all, only ever switches off (Quietly).  From then on the      *)
(* devices are where RadioTxProofs has them, phase by phase, and every     *)
(* step is a step of RadioTx.  And once main has asked to park, what the   *)
(* sleep still has to wait for is what the worker has still to do          *)
(* (Parking), which counts down to a radio that is off.                    *)
(***************************************************************************)

EXTENDS Lifecycle, RadioTxProofs

USE LifeAssumption

(* What a sequence to receive has switched off so far, whatever it found.  *)
OffSoFar ==
  /\ worker \in OffPhases \ {"drive_off"} => hw.drive = 0
  /\ worker \in OffPhases \ {"drive_off", "ptt_off"} => hw.ptt = 0
  /\ worker \in OffPhases \ {"drive_off", "ptt_off", "relay_off"} => hw.relay = 0

(* Before the codec is set up, and nobody has keyed the radio yet.         *)
Quietly ==
  main \in BeforeCodec /\ ~early =>
    /\ ~on /\ ~pendingOn
    /\ main # "pins" => hw.ptt = 0 /\ hw.relay = 0
    /\ main \notin {"pins", "clocks"} => hw.clk1 = "rx"
    /\ main = "drive" => hw.capture = 1

(* Afterwards the devices are those of the worker's phase.                 *)
Afterwards ==
  main \notin BeforeCodec \union {"failed", "no_pins"} /\ ~early => Sequence

(* What the worker has to do yet when main has asked to park: finish and   *)
(* take the request (2), take it or carry it out (1), or only what others  *)
(* have asked for since, which is to receive (0).                          *)
Parking ==
  /\ main = "post" => ~want["main"]
  /\ main \in AfterPark \ {"nap"} /\ ~late => owed = 0
  /\ main \in AfterPark /\ ~late =>
       /\ ~pendingOn
       /\ owed \in 0 .. 2
       /\ owed = 2 => worker \notin Waiting /\ pending
       /\ owed = 1 => worker \in OffPhases \/ (worker \in Waiting /\ pending)
       /\ owed = 0 => /\ worker \in Waiting \union OffPhases
                      /\ hw.drive = 0 /\ hw.ptt = 0 /\ hw.relay = 0

LifeIInv ==
  /\ TypeOK /\ Request
  /\ OffSoFar /\ Quietly /\ Afterwards /\ Parking

USE DEF AfterPark, BeforeCodec, Waiting, OnPhases, OffPhases, mailbox, calls

(* The steps of main that call nobody and touch no device, and those of    *)
(* the other threads.                                                      *)
Elsewhere ==
  \/ StartNext \/ MissNext \/ MissHpsdr \/ StartSound \/ MissSound \/ Signal
  \/ WakeUp \/ SignalAgain \/ StopSound \/ JoinSound \/ StopNext
  \/ NextPass \/ CaptureEnds \/ LeaveLoop

(* The steps of main that set a device up by itself.                       *)
SetsUp == ClaimPins \/ MissPins \/ StartClocks \/ UnmuteReceiver \/ MuteDrive

(* The calls of radio_set_tx(), from wherever.                             *)
Calls ==
  \/ \E c \in Surfaces : SurfaceCalls(c)
  \/ KeyCalls
  \/ Park

LEMMA LifeCases ==
  ASSUME [LifeNext]_lifeVars
  PROVE  \/ Elsewhere \/ SetsUp \/ Calls \/ PostPark
         \/ \E c \in Callers \ {"main"} : OtherPosts(c)
         \/ WorkerGoesOn
         \/ UNCHANGED lifeVars
BY Zenon DEF LifeNext, MainGoesOn, OtherStep, Elsewhere, SetsUp, Calls

LEMMA ElsewhereIdle ==
  ASSUME Elsewhere
  PROVE  UNCHANGED <<inTx, pending, pendingOn, caller, want, worker, on, hw, raced, early>>
<1> USE DEF vars, past
<1>1. CASE StartNext \/ MissNext \/ MissHpsdr
  BY <1>1 DEF StartNext, MissNext, MissHpsdr, Starting
<1>2. CASE StartSound \/ MissSound \/ Signal \/ WakeUp \/ SignalAgain
  BY <1>2 DEF StartSound, MissSound, Signal, WakeUp, SignalAgain
<1>3. CASE StopSound \/ JoinSound \/ StopNext
  BY <1>3 DEF StopSound, JoinSound, StopNext
<1>4. CASE NextPass \/ CaptureEnds \/ LeaveLoop
  BY <1>4 DEF NextPass, CaptureEnds, LeaveLoop
<1> QED
  BY <1>1, <1>2, <1>3, <1>4 DEF Elsewhere

LEMMA SetsUpAlone ==
  ASSUME SetsUp
  PROVE  /\ UNCHANGED <<inTx, pending, pendingOn, caller, want, worker, on, raced, early, late>>
         /\ main \in BeforeCodec
BY DEF SetsUp, ClaimPins, MissPins, StartClocks, UnmuteReceiver, MuteDrive, Proceed, past

(* Whoever calls, it is a call of RadioTx.                                 *)
LEMMA CallIsCall ==
  ASSUME Calls
  PROVE  /\ \E c \in Callers, tx_on \in BOOLEAN : SetTx(c, tx_on)
         /\ UNCHANGED <<owed, early, late>>
BY DEF Calls, SurfaceCalls, KeyCalls, Park, past

LEMMA PostIsPost ==
  ASSUME NEW c \in Callers \ {"main"}, OtherPosts(c)
  PROVE  /\ Post(c)
         /\ UNCHANGED <<main, owed>>
         /\ early' = (early \/ (want[c] /\ main \in BeforeCodec))
         /\ late' = (late \/ (want[c] /\ main \in AfterPark))
BY DEF OtherPosts, Remember, mainVars

(* Every step but those that set a device up is one of RadioTx or none.    *)
LEMMA RadioStep ==
  ASSUME [LifeNext]_lifeVars, ~SetsUp
  PROVE  [Next]_vars
<1>1. CASE Elsewhere
  BY <1>1, ElsewhereIdle DEF vars
<1>2. CASE Calls
  BY <1>2, CallIsCall DEF Next, CallerStep
<1>3. CASE PostPark
  BY <1>3 DEF PostPark, Next, CallerStep
<1>4. ASSUME NEW c \in Callers \ {"main"}, OtherPosts(c) PROVE [Next]_vars
  BY <1>4, PostIsPost DEF Next, CallerStep
<1>5. CASE WorkerGoesOn
  BY <1>5 DEF WorkerGoesOn, Next
<1>6. CASE UNCHANGED lifeVars
  BY <1>6 DEF lifeVars, vars
<1> QED
  BY <1>1, <1>2, <1>3, <1>4, <1>5, <1>6, LifeCases

-----------------------------------------------------------------------------
(* Types, and what the worker knows of the request it carries out.         *)
LEMMA LifeTypeNext ==
  ASSUME TypeOK, Request, [LifeNext]_lifeVars
  PROVE  TypeOK' /\ Request'
<1>1. CASE ~SetsUp
  BY <1>1, RadioStep, TypeNext, RequestNext
<1>2. CASE SetsUp
  <2>1. UNCHANGED <<inTx, pending, pendingOn, caller, want, worker, on, raced>>
    BY <1>2, SetsUpAlone
  <2>2. hw' \in Hardware
    <3> USE DEF Hardware, Level
    <3> SUFFICES ASSUME hw \in Hardware PROVE hw' \in Hardware
      BY DEF TypeOK
    <3>1. ASSUME NEW p \in Level, NEW r \in Level
          PROVE  [hw EXCEPT !.ptt = p, !.relay = r] \in Hardware
      <4> DEFINE h == [hw EXCEPT !.ptt = p]
      <4>1. h \in Hardware
        OBVIOUS
      <4>2. [h EXCEPT !.relay = r] \in Hardware
        BY <4>1
      <4>3. [hw EXCEPT !.ptt = p, !.relay = r] = [h EXCEPT !.relay = r]
        OBVIOUS
      <4> QED BY <4>2, <4>3
    <3>2. CASE ClaimPins
      <4>1. hw' = [hw EXCEPT !.ptt = 0, !.relay = 0] /\ 0 \in Level
        BY <3>2 DEF ClaimPins
      <4> QED BY <3>1, <4>1, Zenon
    <3>6. CASE MissPins
      <4>1. PICK p \in {0, hw.ptt}, r \in {0, hw.relay} :
              hw' = [hw EXCEPT !.ptt = p, !.relay = r]
        BY <3>6 DEF MissPins
      <4>2. p \in Level /\ r \in Level
        OBVIOUS
      <4> QED BY <3>1, <4>1, <4>2, Zenon
    <3>3. CASE StartClocks BY <3>3 DEF StartClocks
    <3>4. CASE UnmuteReceiver BY <3>4 DEF UnmuteReceiver
    <3>5. CASE MuteDrive BY <3>5 DEF MuteDrive
    <3> QED BY <1>2, <3>2, <3>6, <3>3, <3>4, <3>5 DEF SetsUp
  <2>3. Calling' = Calling
    BY <2>1 DEF Calling
  <2>4. TypeOK'
    BY <2>1, <2>2, <2>3 DEF TypeOK
  <2>5. Request'
    BY <2>1 DEF Request
  <2> QED
    BY <2>4, <2>5
<1> QED
  BY <1>1, <1>2

(* What a step of the worker does to the levels that parking is about.     *)
LEMMA OffNext ==
  ASSUME TypeOK, OffSoFar, [LifeNext]_lifeVars
  PROVE  OffSoFar'
<1> USE DEF OffSoFar
<1>1. hw \in Hardware /\ worker \in Waiting \union OnPhases \union OffPhases
  BY DEF TypeOK
<1>2. CASE SetsUp
  <2>1. worker' = worker
    BY <1>2, SetsUpAlone
  <2>2. hw'.drive \in {0, hw.drive} /\ hw'.ptt \in {0, hw.ptt} /\ hw'.relay \in {0, hw.relay}
    BY <1>1, <1>2 DEF SetsUp, ClaimPins, MissPins, StartClocks, UnmuteReceiver, MuteDrive,
                      Hardware
  <2> QED
    BY <2>1, <2>2
<1>3. CASE ~SetsUp
  <2> SUFFICES ASSUME [Next]_vars PROVE OffSoFar'
    BY <1>3, RadioStep
  <2>1. CASE CallerStep \/ TakeRequest \/ UNCHANGED vars
    BY <1>1, <2>1 DEF CallerStep, Post, SetTx, TakeRequest, vars
  <2>2. CASE GoTransmit
    BY <2>2 DEF GoTransmit, MuteCapture, SetClk1Tx, SetClk2Tx, AssertPtt, CloseRelay,
                RaiseDrive, Phase
  <2>3. CASE DropDrive \/ DropPtt \/ OpenRelay
    BY <1>1, <2>3 DEF DropDrive, DropPtt, OpenRelay, Phase, Hardware
  <2>4. CASE SetClk1Rx \/ SetClk2Rx \/ UnmuteCapture
    BY <1>1, <2>4 DEF SetClk1Rx, SetClk2Rx, UnmuteCapture, Phase, Hardware
  <2> QED
    BY <2>1, <2>2, <2>3, <2>4 DEF Next, WorkerStep, GoReceive
<1> QED
  BY <1>2, <1>3

-----------------------------------------------------------------------------
(* The set-up                                                              *)

(* Where main may go from the set-up, and when it comes out of it.         *)
LEMMA OutOfSetUp ==
  ASSUME [LifeNext]_lifeVars
  PROVE  /\ main' \in BeforeCodec => main \in BeforeCodec
         /\ main \in BeforeCodec /\ main' \notin BeforeCodec =>
              MuteDrive \/ main' \in {"failed", "no_pins"}
         /\ main \in {"failed", "no_pins"} => main' = main
         /\ main' # "pins" => main # "pins" \/ ClaimPins \/ main' = "no_pins"
         /\ main' \notin {"pins", "clocks"} =>
              main \notin {"pins", "clocks"} \/ StartClocks \/ main' = "no_pins"
         /\ main' = "drive" => main = "drive" \/ UnmuteReceiver
BY DEF LifeNext, lifeVars, mainVars, Ends, MainGoesOn, OtherStep,
       ClaimPins, MissPins, StartClocks, StartNext, MissNext, MissHpsdr, Starting, Started,
       UnmuteReceiver, MuteDrive, StartSound, MissSound, Park, PostPark, WakeUp, StopSound,
       JoinSound, StopNext, Signal, SignalAgain, SurfaceCalls, OtherPosts, KeyCalls, NextPass,
       CaptureEnds, LeaveLoop, WorkerGoesOn, Proceed

(* The worker, in a radio that nobody has keyed: what it cannot do.        *)
LEMMA QuietWorker ==
  ASSUME TypeOK, Request, ~on, ~pendingOn, [Next]_vars
  PROVE  /\ ~on'
         /\ hw.ptt = 0 => hw'.ptt = 0
         /\ hw.relay = 0 => hw'.relay = 0
         /\ hw.clk1 = "rx" => hw'.clk1 = "rx"
         /\ hw.capture = 1 => hw'.capture = 1
<1>1. hw \in Hardware /\ worker \in Waiting \union OffPhases
  BY DEF TypeOK, Request
<1>2. CASE CallerStep \/ TakeRequest \/ UNCHANGED vars
  BY <1>2 DEF CallerStep, Post, SetTx, TakeRequest, vars
<1>3. ~GoTransmit
  BY <1>1 DEF GoTransmit, MuteCapture, SetClk1Tx, SetClk2Tx, AssertPtt, CloseRelay,
              RaiseDrive, Phase
<1>4. CASE GoReceive
  <2>1. on' = on
    BY <1>4 DEF GoReceive, DropDrive, DropPtt, OpenRelay, SetClk1Rx, SetClk2Rx,
                UnmuteCapture, Phase
  <2>2. CASE DropDrive \/ DropPtt \/ OpenRelay
    BY <1>1, <2>1, <2>2 DEF DropDrive, DropPtt, OpenRelay, Hardware
  <2>3. CASE SetClk1Rx \/ SetClk2Rx \/ UnmuteCapture
    BY <1>1, <2>1, <2>3 DEF SetClk1Rx, SetClk2Rx, UnmuteCapture, Hardware
  <2> QED
    BY <1>4, <2>2, <2>3 DEF GoReceive
<1> QED
  BY <1>2, <1>3, <1>4 DEF Next, WorkerStep

(* Who posts before the codec is set up, and has not keyed the radio,      *)
(* asks to receive; and what is remembered stays so.                       *)
LEMMA NotKeyedNext ==
  ASSUME TypeOK, [LifeNext]_lifeVars
  PROVE  /\ early => early'
         /\ main \in BeforeCodec /\ ~early' /\ ~pendingOn => ~pendingOn'
<1>1. CASE Elsewhere
  BY <1>1, ElsewhereIdle
<1>2. CASE SetsUp
  BY <1>2, SetsUpAlone
<1>3. CASE Calls
  BY <1>3, CallIsCall DEF SetTx
<1>4. CASE PostPark
  BY <1>4 DEF PostPark, Proceed, past
<1>5. ASSUME NEW c \in Callers \ {"main"}, OtherPosts(c)
      PROVE  /\ early => early'
             /\ main \in BeforeCodec /\ ~early' /\ ~pendingOn => ~pendingOn'
  <2>1. pendingOn' = want[c]
    BY <1>5, PostIsPost DEF Post
  <2>2. want[c] /\ main \in BeforeCodec => early'
    BY <1>5, PostIsPost
  <2>3. early => early'
    BY <1>5, PostIsPost
  <2> QED
    BY <2>1, <2>2, <2>3, Zenon
<1>6. CASE WorkerGoesOn
  <2>1. pendingOn' = pendingOn
    BY <1>6 DEF WorkerGoesOn, WorkerStep, TakeRequest, GoTransmit, MuteCapture, SetClk1Tx,
                SetClk2Tx, AssertPtt, CloseRelay, RaiseDrive, GoReceive, DropDrive, DropPtt,
                OpenRelay, SetClk1Rx, SetClk2Rx, UnmuteCapture, Phase
  <2>2. early' = early
    BY <1>6 DEF WorkerGoesOn, past
  <2> QED BY <2>1, <2>2
<1>7. CASE UNCHANGED lifeVars
  BY <1>7 DEF lifeVars, vars, past
<1> QED
  BY <1>1, <1>2, <1>3, <1>4, <1>5, <1>6, <1>7, LifeCases

LEMMA QuietlyNext ==
  ASSUME TypeOK, Request, Quietly, [LifeNext]_lifeVars
  PROVE  Quietly'
<1> SUFFICES ASSUME main' \in BeforeCodec, ~early'
             PROVE  /\ ~on' /\ ~pendingOn'
                    /\ main' # "pins" => hw'.ptt = 0 /\ hw'.relay = 0
                    /\ main' \notin {"pins", "clocks"} => hw'.clk1 = "rx"
                    /\ main' = "drive" => hw'.capture = 1
  BY Zenon DEF Quietly
<1>1. main \in BeforeCodec /\ ~early /\ ~pendingOn /\ ~pendingOn' /\ ~on
  BY OutOfSetUp, NotKeyedNext DEF Quietly
<1>2. CASE ~SetsUp
  <2>1. [Next]_vars
    BY <1>2, RadioStep
  <2>2. /\ main' # "pins" => main # "pins"
        /\ main' \notin {"pins", "clocks"} => main \notin {"pins", "clocks"}
        /\ main' = "drive" => main = "drive"
    BY <1>2, OutOfSetUp DEF SetsUp
  <2> QED
    BY <1>1, <2>1, <2>2, QuietWorker DEF Quietly
<1>3. CASE SetsUp
  <2>1. on' = on
    BY <1>3, SetsUpAlone
  <2>2. hw \in Hardware
    BY DEF TypeOK
  <2>3. CASE ClaimPins
    BY <1>1, <2>1, <2>2, <2>3 DEF ClaimPins, Proceed, Hardware
  <2>4. CASE MissPins
    BY <2>4 DEF MissPins, Proceed
  <2>5. CASE StartClocks
    BY <1>1, <2>1, <2>2, <2>5 DEF StartClocks, Proceed, Hardware, Quietly
  <2>6. CASE UnmuteReceiver
    BY <1>1, <2>1, <2>2, <2>6 DEF UnmuteReceiver, Proceed, Hardware, Quietly
  <2>7. CASE MuteDrive
    BY <2>7 DEF MuteDrive, Proceed
  <2> QED
    BY <1>3, <2>3, <2>4, <2>5, <2>6, <2>7 DEF SetsUp
<1> QED
  BY <1>2, <1>3

(* The set-up ends with the devices at rest in receive, and with a worker  *)
(* that waits or is on its way there.                                      *)
LEMMA SetUpEnds ==
  ASSUME TypeOK, Request, Quietly, MuteDrive, ~early
  PROVE  Sequence'
<1>1. ~on /\ hw.ptt = 0 /\ hw.relay = 0 /\ hw.clk1 = "rx" /\ hw.capture = 1
  BY DEF Quietly, MuteDrive, Proceed
<1>2. hw' = [hw EXCEPT !.drive = 0] /\ worker' = worker /\ on' = on
  BY DEF MuteDrive
<1>3. worker \in Waiting \union OffPhases
  BY <1>1 DEF TypeOK, Request
<1>4. hw' = Receive
  BY <1>1, <1>2 DEF TypeOK, Hardware, Receive, Devices
<1> QED
  BY <1>1, <1>2, <1>3, <1>4 DEF Sequence

LEMMA AfterwardsNext ==
  ASSUME TypeOK, Request, Quietly, Afterwards, [LifeNext]_lifeVars
  PROVE  Afterwards'
<1> SUFFICES ASSUME main' \notin BeforeCodec \union {"failed", "no_pins"}, ~early'
             PROVE  Sequence'
  BY DEF Afterwards
<1>1. ~early
  BY NotKeyedNext
<1>2. CASE MuteDrive
  BY <1>1, <1>2, SetUpEnds
<1>3. CASE ~MuteDrive
  <2>1. main \notin BeforeCodec \union {"failed", "no_pins"}
    BY <1>3, OutOfSetUp
  <2>2. Sequence
    BY <1>1, <2>1 DEF Afterwards
  <2>3. ~SetsUp
    BY <2>1, SetsUpAlone
  <2> QED
    BY <2>2, <2>3, RadioStep, SequenceNext
<1> QED
  BY <1>2, <1>3

-----------------------------------------------------------------------------
(* Parking                                                                 *)

LEMMA ElsewhereParks ==
  ASSUME Elsewhere
  PROVE  /\ main' = "post" => main = "post"
         /\ main' \in AfterPark => main \in AfterPark
         /\ ~late' => owed' = owed /\ ~late
         /\ main' \in AfterPark \ {"nap"} /\ ~late' =>
              owed = 0 \/ main \in AfterPark \ {"nap"}
<1> USE DEF Proceed, past, mainVars, threads
<1>1. CASE StartNext \/ MissNext \/ MissHpsdr
  BY <1>1 DEF StartNext, MissNext, MissHpsdr, Starting, Started
<1>2. CASE StartSound \/ MissSound \/ Signal \/ WakeUp \/ SignalAgain
  BY <1>2 DEF StartSound, MissSound, Signal, WakeUp, SignalAgain
<1>3. CASE StopSound \/ JoinSound \/ StopNext
  BY <1>3 DEF StopSound, JoinSound, StopNext
<1>4. CASE NextPass \/ CaptureEnds \/ LeaveLoop
  BY <1>4 DEF NextPass, CaptureEnds, LeaveLoop
<1> QED
  BY <1>1, <1>2, <1>3, <1>4 DEF Elsewhere

(* The worker's steps, as far as parking is concerned.                     *)
LEMMA WorkerParks ==
  ASSUME TypeOK, Request, OffSoFar, WorkerGoesOn,
         ~pendingOn, owed \in 0 .. 2,
         owed = 2 => worker \notin Waiting /\ pending,
         owed = 1 => worker \in OffPhases \/ (worker \in Waiting /\ pending),
         owed = 0 => /\ worker \in Waiting \union OffPhases
                     /\ hw.drive = 0 /\ hw.ptt = 0 /\ hw.relay = 0
  PROVE  /\ ~pendingOn'
         /\ owed' \in 0 .. 2
         /\ owed' = 2 => worker' \notin Waiting /\ pending'
         /\ owed' = 1 => worker' \in OffPhases \/ (worker' \in Waiting /\ pending')
         /\ owed' = 0 => /\ worker' \in Waiting \union OffPhases
                         /\ hw'.drive = 0 /\ hw'.ptt = 0 /\ hw'.relay = 0
         /\ owed = 0 => owed' = 0
<1>1. hw \in Hardware
  BY DEF TypeOK
<1>2. owed' = IF worker' = "wait" THEN OneLess(owed) ELSE owed
  BY DEF WorkerGoesOn
<1>3. CASE TakeRequest
  BY <1>2, <1>3 DEF TakeRequest
<1>4. CASE GoTransmit
  <2>1. owed = 2 /\ pending
    BY <1>4 DEF GoTransmit, MuteCapture, SetClk1Tx, SetClk2Tx, AssertPtt, CloseRelay,
                RaiseDrive, Phase
  <2>2. CASE RaiseDrive
    BY <1>2, <2>1, <2>2 DEF RaiseDrive, Phase, OneLess
  <2>3. CASE MuteCapture \/ SetClk1Tx \/ SetClk2Tx \/ AssertPtt \/ CloseRelay
    <3>1. worker' \in OnPhases /\ pending' = pending /\ pendingOn' = pendingOn
      BY <2>3 DEF MuteCapture, SetClk1Tx, SetClk2Tx, AssertPtt, CloseRelay, Phase
    <3>2. owed' = 2
      BY <1>2, <2>1, <3>1
    <3> QED
      BY <2>1, <3>1, <3>2
  <2> QED
    BY <1>4, <2>2, <2>3 DEF GoTransmit
<1>5. CASE UnmuteCapture
  <2>1. /\ worker = "unmute" /\ worker' = "wait" /\ hw' = [hw EXCEPT !.capture = 1]
        /\ pending' = pending /\ pendingOn' = pendingOn
    BY <1>5 DEF UnmuteCapture, Phase
  <2>2. hw'.drive = 0 /\ hw'.ptt = 0 /\ hw'.relay = 0
    BY <1>1, <2>1 DEF OffSoFar, Hardware
  <2> QED
    BY <1>2, <2>1, <2>2 DEF OneLess
<1>6. CASE DropDrive \/ DropPtt \/ OpenRelay \/ SetClk1Rx \/ SetClk2Rx
  <2>1. /\ worker \in OffPhases /\ worker' \in OffPhases
        /\ pending' = pending /\ pendingOn' = pendingOn
    BY <1>6 DEF DropDrive, DropPtt, OpenRelay, SetClk1Rx, SetClk2Rx, Phase
  <2>2. hw.drive = 0 /\ hw.ptt = 0 /\ hw.relay = 0 =>
          hw'.drive = 0 /\ hw'.ptt = 0 /\ hw'.relay = 0
    BY <1>1, <1>6 DEF DropDrive, DropPtt, OpenRelay, SetClk1Rx, SetClk2Rx, Hardware
  <2>3. owed' = owed
    BY <1>2, <2>1
  <2> QED
    BY <2>1, <2>2, <2>3
<1> QED
  BY <1>3, <1>4, <1>5, <1>6 DEF WorkerGoesOn, WorkerStep, GoReceive

LEMMA ParkingNext ==
  ASSUME TypeOK, Request, OffSoFar, Parking, [LifeNext]_lifeVars
  PROVE  Parking'
<1>1. CASE Elsewhere
  BY <1>1, ElsewhereIdle, ElsewhereParks DEF Parking
<1>2. CASE SetsUp
  BY <1>2 DEF SetsUp, ClaimPins, MissPins, StartClocks, UnmuteReceiver, MuteDrive, Proceed,
              Parking
<1>3. CASE Park
  BY <1>3 DEF Park, Proceed, SetTx, TypeOK, Parking
<1>4. CASE Calls /\ ~Park
  <2>1. /\ main' = main
        /\ \E c \in Callers \ {"main"}, tx_on \in BOOLEAN : SetTx(c, tx_on)
        /\ UNCHANGED <<owed, early, late>>
    BY <1>4 DEF Calls, SurfaceCalls, KeyCalls, mainVars, past
  <2>2. /\ want'["main"] = want["main"]
        /\ UNCHANGED <<pending, pendingOn, hw>>
        /\ worker \notin Waiting => worker' = worker
        /\ worker \in Waiting => worker' \in Waiting
    BY <2>1 DEF SetTx, TypeOK
  <2> QED
    BY <2>1, <2>2 DEF Parking
<1>5. CASE PostPark
  <2>1. /\ main = "post" /\ main' = "nap" /\ pendingOn' = want["main"] /\ pending' = TRUE
        /\ worker' = worker
        /\ owed' = IF worker \in Waiting THEN 1 ELSE 2
    BY <1>5 DEF PostPark, Proceed, Post
  <2> QED
    BY <2>1 DEF Parking
<1>6. ASSUME NEW c \in Callers \ {"main"}, OtherPosts(c) PROVE Parking'
  <2>1. /\ UNCHANGED <<main, owed, worker, hw>>
        /\ pendingOn' = want[c] /\ pending' = TRUE
        /\ want'["main"] = want["main"]
    <3>1. Post(c) /\ UNCHANGED <<main, owed>>
      BY <1>6, PostIsPost
    <3>2. want' = [want EXCEPT ![c] = FALSE] /\ want \in [Callers -> BOOLEAN]
      BY <3>1 DEF Post, TypeOK
    <3>3. want'["main"] = want["main"]
      BY <3>2, Zenon
    <3> QED
      BY <3>1, <3>3 DEF Post
  <2>2. main \in AfterPark /\ ~late' => ~want[c] /\ ~late
    BY <1>6, PostIsPost
  <2> QED
    BY <2>1, <2>2 DEF Parking
<1>7. CASE WorkerGoesOn
  <2>1. UNCHANGED <<main, late>> /\ UNCHANGED want
    BY <1>7 DEF WorkerGoesOn, mainVars, past, WorkerStep, TakeRequest, GoTransmit, MuteCapture,
                SetClk1Tx, SetClk2Tx, AssertPtt, CloseRelay, RaiseDrive, GoReceive, DropDrive,
                DropPtt, OpenRelay, SetClk1Rx, SetClk2Rx, UnmuteCapture, Phase
  <2>2. CASE main \in AfterPark /\ ~late
    BY <1>7, <2>1, <2>2, WorkerParks DEF Parking
  <2>3. CASE ~(main \in AfterPark /\ ~late)
    BY <2>1, <2>3 DEF Parking
  <2> QED
    BY <2>2, <2>3
<1>8. CASE UNCHANGED lifeVars
  BY <1>8 DEF lifeVars, vars, mainVars, past, Parking
<1> QED
  BY <1>1, <1>2, <1>3, <1>4, <1>5, <1>6, <1>7, <1>8, LifeCases

-----------------------------------------------------------------------------
(* What follows                                                            *)

LEMMA LifeInductiveInit == LifeInit => LifeIInv
<1> SUFFICES ASSUME LifeInit PROVE LifeIInv
  OBVIOUS
<1> USE DEF LifeInit, NobodyCalled
<1>1. Calling = {}
  BY DEF Calling
<1>2. TypeOK
  BY <1>1 DEF TypeOK
<1>3. Request /\ OffSoFar
  BY DEF Request, OffSoFar
<1>4. Quietly /\ Afterwards /\ Parking
  BY DEF Quietly, Afterwards, Parking
<1> QED
  BY <1>2, <1>3, <1>4 DEF LifeIInv

LEMMA LifeInductiveNext == LifeIInv /\ [LifeNext]_lifeVars => LifeIInv'
BY LifeTypeNext, OffNext, QuietlyNext, AfterwardsNext, ParkingNext DEF LifeIInv

LEMMA LifeInductive == LifeSpec => []LifeIInv
BY LifeInductiveInit, LifeInductiveNext, PTL DEF LifeSpec

(* main() leaves the radio parked: PTT and relay open and the drive down,  *)
(* whatever was under way when the signal came, unless a request to        *)
(* transmit came after its own or its sleep was cut short.                 *)
THEOREM LeavesRadioParked == LifeSpec => []ParkedUnlessKeyedLate
<1>1. LifeIInv => ParkedUnlessKeyedLate
  BY DEF LifeIInv, Parking, ParkedUnlessKeyedLate
<1> QED
  BY <1>1, LifeInductive, PTL

(* main() brings the radio up cold whatever it found, and nothing is       *)
(* switched hot until the process ends, unless somebody keyed the radio    *)
(* before its codec was set up.                                            *)
THEOREM ComesUpCold == LifeSpec => []ColdUnlessKeyedEarly
<1>1. LifeIInv => ColdUnlessKeyedEarly
  <2> SUFFICES ASSUME LifeIInv, ~early PROVE ColdUnlessKeyedEarly
    BY Zenon DEF ColdUnlessKeyedEarly
  <2>1. main \notin {"pins", "no_pins"} /\ main \in BeforeCodec => hw.ptt = 0 /\ hw.relay = 0
    BY DEF LifeIInv, Quietly
  <2>2. main \notin BeforeCodec \union {"failed", "no_pins"} => NoHotSwitch
    BY NoHotSwitchFollows DEF LifeIInv, Afterwards
  <2> QED
    BY <2>1, <2>2, Zenon DEF ColdUnlessKeyedEarly
<1> QED
  BY <1>1, LifeInductive, PTL

(* The radio is set up and has not been keyed before.                      *)
Up == main \notin BeforeCodec \union {"failed", "no_pins"} /\ ~early

(* Until the process ends no request is lost either: the set-up of main(), *)
(* which writes to the codec beside the worker, leaves nothing for the     *)
(* worker to find that it did not expect.                                  *)
THEOREM UpRestFollowsRequest == LifeSpec => [](Up => RestFollowsRequest)
<1>1. LifeIInv => (Up => RestFollowsRequest)
  BY RestFollows DEF LifeIInv, Afterwards, Up
<1> QED
  BY <1>1, LifeInductive, PTL

(* And relay and clk1 are only ever switched cold.                         *)
THEOREM UpSwitchesCold == LifeSpec => [][Up => Cold]_lifeVars
<1>1. LifeIInv /\ [LifeNext]_lifeVars => (Up => Cold)
  <2> SUFFICES ASSUME LifeIInv, [LifeNext]_lifeVars, Up PROVE Cold
    OBVIOUS
  <2>1. TypeOK /\ Sequence
    BY DEF LifeIInv, Afterwards, Up
  <2>2. ~SetsUp
    BY SetsUpAlone DEF Up
  <2> QED
    BY <2>1, <2>2, RadioStep, ColdStep
<1> QED
  BY <1>1, LifeInductive, PTL DEF LifeSpec

-----------------------------------------------------------------------------
(* How far main() is with the surfaces.                                    *)
Steps ==
  /\ step \in 0 .. 3
  /\ main \in {"pins", "clocks"} => step = 0
  /\ main \in {"bring_up", "take_down"} => step < 3

LifeTyped == LifeTypeOK /\ Request /\ Steps

LEMMA LifeTypedInit == LifeInit => LifeTyped
<1> SUFFICES ASSUME LifeInit PROVE LifeTyped
  OBVIOUS
<1>1. TypeOK /\ Request
  BY LifeInductiveInit DEF LifeIInv
<1>2. step = 0 /\ main = "pins" /\ audio = "none" /\ owed = 0
      /\ stage \in [Surfaces -> {"off", "up", "last"}]
  BY DEF LifeInit
<1>3. running \in BOOLEAN /\ {early, late} \subseteq BOOLEAN
  BY Zenon DEF LifeInit
<1>4. main \in Mains /\ step \in 0 .. Len(BringUp)
  BY <1>2 DEF Mains, BringUp
<1>5. Steps
  BY <1>2 DEF Steps
<1> QED
  BY <1>1, <1>2, <1>3, <1>4, <1>5 DEF LifeTyped, LifeTypeOK

LEMMA LifeTypedNext == LifeTyped /\ [LifeNext]_lifeVars => LifeTyped'
<1> SUFFICES ASSUME LifeTyped, [LifeNext]_lifeVars PROVE LifeTyped'
  OBVIOUS
<1> USE DEF mainVars, threads, Proceed
<1>1. TypeOK' /\ Request'
  BY LifeTypeNext DEF LifeTyped, LifeTypeOK
<1>2. main' \in Mains /\ step' \in 0 .. Len(BringUp) /\ Steps'
  <2> USE DEF Mains, Ends, Steps, BringUp, TearDown
  <2>1. main \in Mains /\ Steps
    BY DEF LifeTyped, LifeTypeOK
  <2>2. CASE StartNext \/ MissNext \/ MissHpsdr
    BY <2>1, <2>2 DEF StartNext, MissNext, MissHpsdr, Starting, Started
  <2>3. CASE SetsUp
    BY <2>1, <2>3 DEF SetsUp, ClaimPins, MissPins, StartClocks, UnmuteReceiver, MuteDrive
  <2>6. CASE StartSound \/ MissSound \/ Signal \/ Park \/ PostPark
    BY <2>1, <2>6 DEF StartSound, MissSound, Signal, Park, PostPark
  <2>4. CASE WakeUp \/ SignalAgain \/ StopSound \/ JoinSound \/ StopNext
    BY <2>1, <2>4 DEF WakeUp, SignalAgain, StopSound, JoinSound, StopNext
  <2>5. CASE OtherStep \/ UNCHANGED lifeVars
    BY <2>1, <2>5 DEF OtherStep, SurfaceCalls, OtherPosts, KeyCalls, NextPass, CaptureEnds,
                      LeaveLoop, WorkerGoesOn, lifeVars
  <2> QED
    BY <2>2, <2>3, <2>4, <2>5, <2>6 DEF LifeNext, MainGoesOn, SetsUp
<1>3. /\ stage' \in [Surfaces -> {"off", "up", "last"}]
      /\ audio' \in {"none", "run", "polled", "ended"}
      /\ running' \in BOOLEAN
  <2>1. /\ stage \in [Surfaces -> {"off", "up", "last"}]
        /\ audio \in {"none", "run", "polled", "ended"}
        /\ running \in BOOLEAN
    BY DEF LifeTyped, LifeTypeOK
  <2>2. CASE StartNext \/ MissNext \/ MissHpsdr
    BY <2>1, <2>2 DEF StartNext, MissNext, MissHpsdr, Starting
  <2>3. CASE SetsUp \/ StartSound \/ MissSound \/ Signal \/ Park \/ PostPark
    BY <2>1, <2>3 DEF SetsUp, ClaimPins, MissPins, StartClocks, UnmuteReceiver, MuteDrive,
                      StartSound, MissSound, Signal, Park, PostPark
  <2>4. CASE WakeUp \/ SignalAgain \/ StopSound \/ JoinSound \/ StopNext
    BY <2>1, <2>4 DEF WakeUp, SignalAgain, StopSound, JoinSound, StopNext
  <2>5. CASE OtherStep \/ UNCHANGED lifeVars
    BY <2>1, <2>5 DEF OtherStep, SurfaceCalls, OtherPosts, KeyCalls, NextPass, CaptureEnds,
                      LeaveLoop, WorkerGoesOn, lifeVars
  <2> QED
    BY <2>2, <2>3, <2>4, <2>5 DEF LifeNext, MainGoesOn, SetsUp
<1>4. owed' \in 0 .. 2 /\ {early, late}' \subseteq BOOLEAN
  <2>1. owed \in 0 .. 2 /\ early \in BOOLEAN /\ late \in BOOLEAN
    BY DEF LifeTyped, LifeTypeOK
  <2> USE DEF past
  <2>2. CASE SignalAgain
    BY <2>1, <2>2 DEF SignalAgain
  <2>4. CASE PostPark
    BY <2>1, <2>4 DEF PostPark
  <2>5. CASE WorkerGoesOn
    <3>1. owed' \in 0 .. 2
      BY <2>1, <2>5 DEF WorkerGoesOn, OneLess
    <3>2. early' = early /\ late' = late
      BY <2>5 DEF WorkerGoesOn
    <3> QED
      BY <2>1, <3>1, <3>2
  <2>6. CASE \/ SetsUp \/ Calls \/ UNCHANGED lifeVars
            \/ (Elsewhere /\ ~SignalAgain)
    <3>1. UNCHANGED <<owed, early, late>>
      BY <2>6, CallIsCall
      DEF Elsewhere, StartNext, MissNext, MissHpsdr, Starting, StartSound, MissSound, Signal,
          WakeUp, StopSound, JoinSound, StopNext, NextPass, CaptureEnds, LeaveLoop,
          SetsUp, ClaimPins, MissPins, StartClocks, UnmuteReceiver, MuteDrive, lifeVars
    <3> QED
      BY <2>1, <3>1
  <2>3. ASSUME NEW c \in Callers \ {"main"}, OtherPosts(c)
        PROVE  owed' \in 0 .. 2 /\ early' \in BOOLEAN /\ late' \in BOOLEAN
    BY <2>1, <2>3, PostIsPost, Zenon
  <2> QED
    BY <2>2, <2>3, <2>4, <2>5, <2>6, LifeCases
<1> QED
  BY <1>1, <1>2, <1>3, <1>4 DEF LifeTyped, LifeTypeOK

(* main(), its surfaces and the audio thread keep to their states, and no  *)
(* surface is started or stopped past the last.                            *)
THEOREM LifeTypes == LifeSpec => []LifeTypeOK
BY LifeTypedInit, LifeTypedNext, PTL DEF LifeSpec, LifeTyped

=============================================================================
