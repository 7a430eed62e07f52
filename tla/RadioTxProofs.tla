--------------------------- MODULE RadioTxProofs ---------------------------
(***************************************************************************)
(* Machine-checked proofs about RadioTx, for any set of callers.           *)
(*                                                                         *)
(* NoHotSwitch and RestFollowsRequest are not inductive: they say nothing  *)
(* of the states inside a hardware sequence.  Sequence gives, for every    *)
(* phase of the worker, the only two settings the devices can have there:  *)
(* the one a real change of state has reached, or the rest state when the  *)
(* request asked for the state the radio was already in.  No theorem needs *)
(* the fairness of Spec, so each is one of every composition that keeps    *)
(* Safe.                                                                   *)
(***************************************************************************)
EXTENDS RadioTx, TLAPS

(* A setting of the devices, in the order capture, clk1, ptt, relay, drive. *)
Devices(capture, clk1, ptt, relay, drive) ==
  [capture |-> capture, clk1 |-> clk1, ptt |-> ptt, relay |-> relay,
   drive |-> drive]

Receive  == Devices(1, "rx", 0, 0, 0)
Deaf     == Devices(0, "rx", 0, 0, 0)
Retuned  == Devices(0, "bfo", 0, 0, 0)
Keyed    == Devices(0, "bfo", 1, 0, 0)
Switched == Devices(0, "bfo", 1, 1, 0)
Unkeyed  == Devices(0, "bfo", 0, 1, 0)
Transmit == Devices(0, "bfo", 1, 1, 1)

Sequence ==
  /\ worker \in Waiting     => hw = IF on THEN Transmit ELSE Receive
  /\ worker = "mute"        => hw \in {Receive, Transmit}
  /\ worker = "clk1_tx"     => hw \in {Deaf, Transmit}
  /\ worker = "clk2_tx"     => hw \in {Retuned, Transmit}
  /\ worker = "ptt_on"      => hw \in {Retuned, Transmit}
  /\ worker = "relay_on"    => hw \in {Keyed, Transmit}
  /\ worker = "drive_on"    => hw \in {Switched, Transmit}
  /\ worker = "drive_off"   => hw \in {Transmit, Receive}
  /\ worker = "ptt_off"     => hw \in {Switched, Receive}
  /\ worker = "relay_off"   => hw \in {Unkeyed, Receive}
  /\ worker = "clk1_rx"     => hw \in {Retuned, Receive}
  /\ worker = "clk2_rx"     => hw \in {Deaf, Receive}
  /\ worker = "unmute"      => hw \in {Deaf, Receive}

(* The worker's copy of the request, against its phase and the mailbox.    *)
Request ==
  /\ worker \in OnPhases => on
  /\ worker \in OffPhases => ~on
  /\ ~pending => on = pendingOn

(* While calls do not overlap, in_tx is the request of the one under way,  *)
(* or of the last one posted.                                              *)
Honest ==
  ~raced => /\ \A c \in Callers : caller[c] = "post" => inTx = want[c]
            /\ \A c, d \in Callers :
                 caller[c] = "post" /\ caller[d] = "post" => c = d
            /\ (\A c \in Callers : caller[c] = "idle") => inTx = pendingOn

IInv == TypeOK /\ Sequence /\ Request /\ Honest

USE DEF Waiting, OnPhases, OffPhases, mailbox, calls

-----------------------------------------------------------------------------
(* Every variable keeps its type.                                          *)
LEMMA TypeInit == Init => TypeOK
<1> SUFFICES ASSUME Init PROVE TypeOK
  OBVIOUS
<1>1. hw \in Hardware
  BY DEF Init, NobodyCalled, Hardware, Level, Rest
<1>2. Calling = {}
  BY DEF Init, NobodyCalled, Calling
<1>3. QED BY <1>1, <1>2 DEF Init, NobodyCalled, TypeOK

LEMMA TypeNext == TypeOK /\ [Next]_vars => TypeOK'
<1> SUFFICES ASSUME TypeOK, [Next]_vars PROVE TypeOK'
  OBVIOUS
<1> USE DEF TypeOK, Hardware, Level, Calling
<1>1. ASSUME NEW c \in Callers, Post(c) PROVE TypeOK'
  BY <1>1 DEF Post
<1>2. ASSUME NEW c \in Callers, NEW tx_on \in BOOLEAN, SetTx(c, tx_on)
      PROVE TypeOK'
  BY <1>2 DEF SetTx
<1>3. CASE TakeRequest
  BY <1>3 DEF TakeRequest
<1>4. CASE GoTransmit
  BY <1>4 DEF GoTransmit, MuteCapture, SetClk1Tx, SetClk2Tx, AssertPtt,
              CloseRelay, RaiseDrive, Phase
<1>5. CASE GoReceive
  BY <1>5 DEF GoReceive, DropDrive, DropPtt, OpenRelay, SetClk1Rx, SetClk2Rx,
              UnmuteCapture, Phase
<1>6. CASE UNCHANGED vars
  BY <1>6 DEF vars
<1>7. QED
  BY <1>1, <1>2, <1>3, <1>4, <1>5, <1>6 DEF Next, CallerStep, WorkerStep

(* The state of radio.c's transmit path is well typed, and the worker      *)
(* thread exists before anything is posted to it.                          *)
THEOREM TypeCorrect == Safe => []TypeOK
<1>1. QED BY TypeInit, TypeNext, PTL DEF Safe
-----------------------------------------------------------------------------
(* The inductive invariant.                                                *)
LEMMA RestIs ==
  /\ Rest(FALSE) = Receive
  /\ Rest(TRUE) = Transmit
BY DEF Rest, Receive, Transmit, Devices

LEMMA InductiveInit == Init => IInv
<1> SUFFICES ASSUME Init PROVE IInv
  OBVIOUS
<1>1. TypeOK
  BY TypeInit
<1>2. Sequence
  BY RestIs DEF Init, NobodyCalled, Sequence
<1>3. Request
  BY DEF Init, NobodyCalled, Request
<1>4. Honest
  BY DEF Init, NobodyCalled, Honest
<1>5. QED BY <1>1, <1>2, <1>3, <1>4 DEF IInv

LEMMA SequenceNext == Sequence /\ Request /\ [Next]_vars => Sequence'
<1> SUFFICES ASSUME Sequence, Request, [Next]_vars PROVE Sequence'
  OBVIOUS
<1> USE DEF Sequence
<1>1. ASSUME NEW c \in Callers, Post(c) PROVE Sequence'
  BY <1>1 DEF Post
<1>2. ASSUME NEW c \in Callers, NEW tx_on \in BOOLEAN, SetTx(c, tx_on)
      PROVE Sequence'
  BY <1>2 DEF SetTx
<1>3. CASE TakeRequest
  BY <1>3 DEF TakeRequest
<1>4. CASE GoTransmit
  <2> USE DEF Phase, Devices, Receive, Deaf, Retuned, Keyed, Switched, Transmit
  <2>1. CASE MuteCapture BY <2>1 DEF MuteCapture
  <2>2. CASE SetClk1Tx BY <2>2 DEF SetClk1Tx
  <2>3. CASE SetClk2Tx BY <2>3 DEF SetClk2Tx
  <2>4. CASE AssertPtt BY <2>4 DEF AssertPtt
  <2>5. CASE CloseRelay BY <2>5 DEF CloseRelay
  <2>6. CASE RaiseDrive BY <2>6 DEF RaiseDrive, Request
  <2>7. QED BY <1>4, <2>1, <2>2, <2>3, <2>4, <2>5, <2>6 DEF GoTransmit
<1>5. CASE GoReceive
  <2> USE DEF Phase, Devices, Receive, Deaf, Retuned, Unkeyed, Switched, Transmit
  <2>1. CASE DropDrive BY <2>1 DEF DropDrive
  <2>2. CASE DropPtt BY <2>2 DEF DropPtt
  <2>3. CASE OpenRelay BY <2>3 DEF OpenRelay
  <2>4. CASE SetClk1Rx BY <2>4 DEF SetClk1Rx
  <2>5. CASE SetClk2Rx BY <2>5 DEF SetClk2Rx
  <2>6. CASE UnmuteCapture BY <2>6 DEF UnmuteCapture, Request
  <2>7. QED BY <1>5, <2>1, <2>2, <2>3, <2>4, <2>5, <2>6 DEF GoReceive
<1>6. CASE UNCHANGED vars
  BY <1>6 DEF vars
<1>7. QED
  BY <1>1, <1>2, <1>3, <1>4, <1>5, <1>6 DEF Next, CallerStep, WorkerStep

LEMMA RequestNext == TypeOK /\ Request /\ [Next]_vars => Request'
<1> SUFFICES ASSUME TypeOK, Request, [Next]_vars PROVE Request'
  OBVIOUS
<1> USE DEF TypeOK, Request
<1>1. ASSUME NEW c \in Callers, Post(c) PROVE Request'
  BY <1>1 DEF Post
<1>2. ASSUME NEW c \in Callers, NEW tx_on \in BOOLEAN, SetTx(c, tx_on)
      PROVE Request'
  BY <1>2 DEF SetTx
<1>3. CASE TakeRequest
  BY <1>3 DEF TakeRequest
<1>4. CASE GoTransmit
  BY <1>4 DEF GoTransmit, MuteCapture, SetClk1Tx, SetClk2Tx, AssertPtt,
              CloseRelay, RaiseDrive, Phase
<1>5. CASE GoReceive
  BY <1>5 DEF GoReceive, DropDrive, DropPtt, OpenRelay, SetClk1Rx, SetClk2Rx,
              UnmuteCapture, Phase
<1>6. CASE UNCHANGED vars
  BY <1>6 DEF vars
<1>7. QED
  BY <1>1, <1>2, <1>3, <1>4, <1>5, <1>6 DEF Next, CallerStep, WorkerStep

LEMMA HonestNext == IInv /\ [Next]_vars => Honest'
<1> SUFFICES ASSUME TypeOK, Honest, [Next]_vars PROVE Honest'
  BY DEF IInv
<1> USE DEF TypeOK, Honest
<1>1. ASSUME NEW c \in Callers, Post(c) PROVE Honest'
  BY <1>1 DEF Post
<1>2. ASSUME NEW c \in Callers, NEW tx_on \in BOOLEAN, SetTx(c, tx_on)
      PROVE Honest'
  BY <1>2 DEF SetTx, Calling
<1>3. CASE WorkerStep \/ UNCHANGED vars
  <2>1. UNCHANGED <<pendingOn, calls>>
    BY <1>3 DEF WorkerStep, TakeRequest, GoTransmit, MuteCapture, SetClk1Tx,
                SetClk2Tx, AssertPtt, CloseRelay, RaiseDrive, GoReceive,
                DropDrive, DropPtt, OpenRelay, SetClk1Rx, SetClk2Rx,
                UnmuteCapture, Phase, vars
  <2>2. QED BY <2>1
<1>4. QED
  BY <1>1, <1>2, <1>3 DEF Next, CallerStep

LEMMA InductiveNext == IInv /\ [Next]_vars => IInv'
<1> SUFFICES ASSUME IInv, [Next]_vars PROVE IInv'
  OBVIOUS
<1>1. TypeOK' BY TypeNext DEF IInv
<1>2. Sequence' BY SequenceNext DEF IInv
<1>3. Request' BY RequestNext DEF IInv
<1>4. Honest' BY HonestNext
<1>5. QED BY <1>1, <1>2, <1>3, <1>4 DEF IInv

LEMMA Inductive == Safe => []IInv
<1>1. QED BY InductiveInit, InductiveNext, PTL DEF Safe

-----------------------------------------------------------------------------
LEMMA NoHotSwitchFollows == TypeOK /\ Sequence => NoHotSwitch
BY DEF TypeOK, Sequence, NoHotSwitch, Devices, Receive, Deaf, Retuned,
       Keyed, Switched, Unkeyed, Transmit

(* radio_tx_apply never drives the exciter into an open relay, never has   *)
(* the relay closed with the receiver live or clk1 off the BFO, and never  *)
(* listens under PTT.                                                      *)
THEOREM NeverHot == Safe => []NoHotSwitch
<1>1. QED BY Inductive, NoHotSwitchFollows, PTL DEF IInv

LEMMA RestFollows == TypeOK /\ Request /\ Sequence => RestFollowsRequest
<1> SUFFICES ASSUME TypeOK, Request, Sequence, AtRest PROVE hw = Rest(pendingOn)
  BY DEF RestFollowsRequest
<1>1. on = pendingOn /\ pendingOn \in BOOLEAN
  BY DEF TypeOK, Request, AtRest
<1>2. hw = IF pendingOn THEN Transmit ELSE Receive
  BY <1>1 DEF Sequence, AtRest
<1>3. QED BY <1>1, <1>2, RestIs

(* The mailbox loses nothing: a sleeping worker with an empty mailbox has  *)
(* left the devices in the state last asked for.                           *)
THEOREM LastRequestRules == Safe => []RestFollowsRequest
<1>1. QED BY Inductive, RestFollows, PTL DEF IInv

(* in_tx agrees with the radio, and in_tx with the last request, as long   *)
(* as calls of radio_set_tx() do not overlap.                              *)
LEMMA HonestIfNotRaced == IInv => InTxHonestUnlessRaced
<1> SUFFICES ASSUME IInv, Quiet, ~raced PROVE inTx <=> hw.ptt = 1
  BY DEF InTxHonestUnlessRaced
<1>1. \A c \in Callers : caller[c] = "idle"
  BY DEF Quiet, Calling, IInv, TypeOK
<1>2. inTx = pendingOn
  BY <1>1 DEF IInv, Honest
<1>3. on = pendingOn /\ pendingOn \in BOOLEAN
  BY DEF IInv, TypeOK, Request, Quiet, AtRest
<1>4. hw = IF pendingOn THEN Transmit ELSE Receive
  BY <1>3 DEF IInv, Sequence, Quiet, AtRest
<1>5. QED BY <1>2, <1>3, <1>4 DEF Transmit, Receive, Devices

THEOREM InTxTrueUnlessRaced == Safe => []InTxHonestUnlessRaced
<1>1. QED BY Inductive, HonestIfNotRaced, PTL

(* With one thread that keys the transmitter radio.h's promise holds as it *)
(* stands: in_tx of a quiet radio is the state of the radio.               *)
THEOREM InTxTrueForOneCaller ==
  ASSUME \A c, d \in Callers : c = d
  PROVE  Safe => []InTxHonest
<1>1. Init => ~raced
  BY DEF Init, NobodyCalled
<1>2. ~raced /\ [Next]_vars => ~raced'
  <2> SUFFICES ASSUME ~raced, [Next]_vars PROVE ~raced'
    OBVIOUS
  <2>1. ASSUME NEW c \in Callers, NEW tx_on \in BOOLEAN, SetTx(c, tx_on)
        PROVE ~raced'
    BY <2>1 DEF SetTx, Calling
  <2>2. ASSUME NEW c \in Callers, Post(c) PROVE ~raced'
    BY <2>2 DEF Post
  <2>3. CASE WorkerStep \/ UNCHANGED vars
    BY <2>3 DEF WorkerStep, TakeRequest, GoTransmit, MuteCapture, SetClk1Tx,
                SetClk2Tx, AssertPtt, CloseRelay, RaiseDrive, GoReceive,
                DropDrive, DropPtt, OpenRelay, SetClk1Rx, SetClk2Rx,
                UnmuteCapture, Phase, vars
  <2>4. QED BY <2>1, <2>2, <2>3 DEF Next, CallerStep
<1>3. Safe => []~raced
  BY <1>1, <1>2, PTL DEF Safe
<1>4. InTxHonestUnlessRaced /\ ~raced => InTxHonest
  BY DEF InTxHonestUnlessRaced, InTxHonest
<1>5. QED BY <1>3, <1>4, InTxTrueUnlessRaced, PTL

(* The relay and clk1 are only ever switched cold.                         *)
LEMMA ColdStep == TypeOK /\ Sequence /\ [Next]_vars => Cold
<1> SUFFICES ASSUME TypeOK, Sequence, [Next]_vars PROVE Cold
  OBVIOUS
<1> USE DEF TypeOK, Sequence, Cold
<1>1. CASE CallerStep \/ TakeRequest \/ UNCHANGED vars
  BY <1>1 DEF CallerStep, Post, SetTx, TakeRequest, vars
<1>2. CASE GoTransmit
  <2> USE DEF Phase, Devices, Receive, Deaf, Retuned, Keyed, Switched, Transmit
  <2>1. CASE MuteCapture \/ AssertPtt \/ RaiseDrive \/ SetClk2Tx
    BY <2>1 DEF MuteCapture, AssertPtt, RaiseDrive, SetClk2Tx, Hardware
  <2>2. CASE SetClk1Tx BY <2>2 DEF SetClk1Tx
  <2>3. CASE CloseRelay BY <2>3 DEF CloseRelay
  <2>4. QED BY <1>2, <2>1, <2>2, <2>3 DEF GoTransmit
<1>3. CASE GoReceive
  <2> USE DEF Phase, Devices, Receive, Deaf, Retuned, Unkeyed, Switched, Transmit
  <2>1. CASE DropDrive \/ DropPtt \/ UnmuteCapture \/ SetClk2Rx
    BY <2>1 DEF DropDrive, DropPtt, UnmuteCapture, SetClk2Rx, Hardware
  <2>2. CASE OpenRelay BY <2>2 DEF OpenRelay
  <2>3. CASE SetClk1Rx BY <2>3 DEF SetClk1Rx
  <2>4. QED BY <1>3, <2>1, <2>2, <2>3 DEF GoReceive
<1>4. QED BY <1>1, <1>2, <1>3 DEF Next, WorkerStep

THEOREM AlwaysCold == Safe => SwitchesCold
<1>1. QED BY Inductive, ColdStep, PTL DEF IInv, Safe, SwitchesCold

-----------------------------------------------------------------------------
(* Every step of radio.c is a step of the abstract switch, or none.        *)
LEMMA SwitchStep == IInv /\ [Next]_vars => [Switch!Next]_(Switch!switchVars)
<1> SUFFICES ASSUME IInv, [Next]_vars PROVE [Switch!Next]_(Switch!switchVars)
  OBVIOUS
<1> USE DEF IInv, TypeOK, Sequence, Switch!Next, Switch!switchVars, Mode,
            Switch!Steady
<1>1. ASSUME NEW c \in Callers, Post(c) PROVE Switch!Request(want[c])
  BY <1>1 DEF Post, Switch!Request
<1>2. ASSUME NEW c \in Callers, NEW tx_on \in BOOLEAN, SetTx(c, tx_on)
      PROVE UNCHANGED Switch!switchVars
  BY <1>2 DEF SetTx
<1>3. CASE TakeRequest
  <2>1. Mode = Switch!Steady(on)
    BY <1>3 DEF TakeRequest, Devices, Receive, Transmit
  <2>2. Switch!Take
    BY <1>3, <2>1 DEF TakeRequest, Switch!Take
  <2>3. QED BY <2>2
<1>4. CASE GoTransmit
  <2> USE DEF Phase, Devices, Receive, Deaf, Retuned, Keyed, Switched, Transmit
  <2>1. CASE MuteCapture
    <3>1. on
      BY <2>1 DEF MuteCapture, Request
    <3>2. Switch!Leave \/ UNCHANGED Switch!switchVars
      BY <2>1, <3>1 DEF MuteCapture, Switch!Leave
    <3>3. QED BY <3>2
  <2>2. CASE SetClk1Tx \/ SetClk2Tx \/ AssertPtt \/ CloseRelay
    BY <2>2 DEF SetClk1Tx, SetClk2Tx, AssertPtt, CloseRelay
  <2>3. CASE RaiseDrive
    <3>1. on
      BY <2>3 DEF RaiseDrive, Request
    <3>2. Switch!Enter \/ UNCHANGED Switch!switchVars
      BY <2>3, <3>1 DEF RaiseDrive, Switch!Enter
    <3>3. QED BY <3>2
  <2>4. QED BY <1>4, <2>1, <2>2, <2>3 DEF GoTransmit
<1>5. CASE GoReceive
  <2> USE DEF Phase, Devices, Receive, Deaf, Retuned, Unkeyed, Switched, Transmit
  <2>1. CASE DropDrive
    <3>1. ~on
      BY <2>1 DEF DropDrive, Request
    <3>2. Switch!Leave \/ UNCHANGED Switch!switchVars
      BY <2>1, <3>1 DEF DropDrive, Switch!Leave
    <3>3. QED BY <3>2
  <2>2. CASE DropPtt \/ OpenRelay \/ SetClk1Rx \/ SetClk2Rx
    BY <2>2 DEF DropPtt, OpenRelay, SetClk1Rx, SetClk2Rx
  <2>3. CASE UnmuteCapture
    <3>1. ~on
      BY <2>3 DEF UnmuteCapture, Request
    <3>2. Switch!Enter \/ UNCHANGED Switch!switchVars
      BY <2>3, <3>1 DEF UnmuteCapture, Switch!Enter
    <3>3. QED BY <3>2
  <2>4. QED BY <1>5, <2>1, <2>2, <2>3 DEF GoReceive
<1>6. CASE UNCHANGED vars
  BY <1>6 DEF vars
<1>7. QED
  BY <1>1, <1>2, <1>3, <1>4, <1>5, <1>6 DEF Next, CallerStep, WorkerStep

(* radio.c implements the safety part of the abstract switch: requests are *)
(* taken newest first, and the radio passes between receive and transmit   *)
(* only deaf and silent.                                                   *)
THEOREM ImplementsSafeSwitch == Safe => Switch!Safe
<1>1. Init => Switch!Init
  BY DEF Init, NobodyCalled, Switch!Init, Mode, Rest
<1>2. QED BY <1>1, Inductive, SwitchStep, PTL DEF Safe, Switch!Safe
=============================================================================
