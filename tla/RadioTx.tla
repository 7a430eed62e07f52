------------------------------ MODULE RadioTx -------------------------------
(***************************************************************************)
(* The transmit path of src/src/radio.c: radio_set_tx(), called from any   *)
(* thread, the one-slot mailbox it fills, and the worker thread that       *)
(* empties the mailbox and runs the hardware sequence of radio_tx_apply(). *)
(*                                                                         *)
(* Steps are as fine as the shared accesses of the C code.  The store to   *)
(* in_tx and the update of the mailbox are two steps of the caller: the    *)
(* store is outside tx_mutex.  Everything done under tx_mutex is one step. *)
(* Each call of radio_tx_apply() that reaches a device is one step of the  *)
(* worker.  The sleeps between them (20 ms, 5 ms) only say that the steps  *)
(* are far apart, which interleaving already allows.                       *)
(*                                                                         *)
(* What clk2 is set to depends on the dial and on RIT: module RadioTune    *)
(* refines the two clk2 steps, which here only pass.  The model starts     *)
(* where the codec has been configured (setup_audio_codec()), and takes    *)
(* every device write to succeed, as the code does.                        *)
(***************************************************************************)

EXTENDS Naturals

CONSTANT Callers          \* the threads that may call radio_set_tx()

ASSUME CallersNonEmpty == Callers # {}

VARIABLES
  inTx,       \* in_tx, what the rest of the program believes
  pending,    \* tx_pending
  pendingOn,  \* tx_pending_on; keeps the last request after it is taken
  caller,     \* per caller: "idle", or "post" between the two steps of a call
  want,       \* per caller: the argument tx_on of its call, FALSE without one
  worker,     \* where the worker is; "unborn" before the first call
  on,         \* the worker's local copy of tx_pending_on
  hw,         \* the devices the worker drives
  raced       \* history: two calls of radio_set_tx() have overlapped since
              \* the last call that began with no other one under way

mailbox == <<pending, pendingOn>>
calls   == <<inTx, caller, want, raced>>
vars    == <<inTx, pending, pendingOn, caller, want, worker, on, hw, raced>>

(* The steps of radio_tx_apply(1) and radio_tx_apply(0), in order.         *)
OnPhases  == {"mute", "clk1_tx", "clk2_tx", "ptt_on", "relay_on", "drive_on"}
OffPhases == {"drive_off", "ptt_off", "relay_off", "clk1_rx", "clk2_rx",
              "unmute"}
Waiting   == {"unborn", "wait"}

(* What the worker drives, as levels: the Capture gain (0 is deaf), the    *)
(* clk1 value, the EXT_PTT and TX_LINE pins, the exciter drive.            *)
Level == 0 .. 1
Hardware == [capture : Level, clk1 : {"rx", "bfo"}, ptt : Level,
             relay : Level, drive : Level]

(* The devices at rest, in receive and in transmit.                        *)
Rest(tx) ==
  IF tx
  THEN [capture |-> 0, clk1 |-> "bfo", ptt |-> 1, relay |-> 1, drive |-> 1]
  ELSE [capture |-> 1, clk1 |-> "rx", ptt |-> 0, relay |-> 0, drive |-> 0]

NobodyCalled ==
  /\ inTx = FALSE
  /\ pending = FALSE
  /\ pendingOn = FALSE
  /\ caller = [c \in Callers |-> "idle"]
  /\ want = [c \in Callers |-> FALSE]
  /\ worker = "unborn"
  /\ on = FALSE
  /\ raced = FALSE

Init == NobodyCalled /\ hw = Rest(FALSE)

-----------------------------------------------------------------------------
(* radio_set_tx(tx_on)                                                     *)

Calling == {c \in Callers : caller[c] = "post"}

SetTxLatched(c, tx_on) ==       \* mutant: in_tx is set and never cleared
  /\ caller[c] = "idle"
  /\ worker' = IF worker = "unborn" THEN "wait" ELSE worker
  /\ inTx' = (inTx \/ tx_on)
  /\ caller' = [caller EXCEPT ![c] = "post"]
  /\ want' = [want EXCEPT ![c] = tx_on]
  /\ raced' = (Calling # {})
  /\ UNCHANGED <<mailbox, on, hw>>

(* The worker exists from the first call on (pthread_once), and in_tx      *)
(* changes at once, whatever the hardware still has to do.                 *)
SetTx(c, tx_on) ==
  /\ caller[c] = "idle"
  /\ worker' = IF worker = "unborn" THEN "wait" ELSE worker
  /\ inTx' = tx_on
  /\ caller' = [caller EXCEPT ![c] = "post"]
  /\ want' = [want EXCEPT ![c] = tx_on]
  /\ raced' = (Calling # {})
  /\ UNCHANGED <<mailbox, on, hw>>

PostIfIdle(c) ==                \* mutant: a busy worker is left alone
  /\ caller[c] = "post"
  /\ pendingOn' = want[c]
  /\ pending' = (pending \/ worker = "wait")
  /\ caller' = [caller EXCEPT ![c] = "idle"]
  /\ want' = [want EXCEPT ![c] = FALSE]
  /\ UNCHANGED <<inTx, worker, on, hw, raced>>

(* Under tx_mutex: overwrite the mailbox and wake the worker.              *)
Post(c) ==
  /\ caller[c] = "post"
  /\ pendingOn' = want[c]
  /\ pending' = TRUE
  /\ caller' = [caller EXCEPT ![c] = "idle"]
  /\ want' = [want EXCEPT ![c] = FALSE]
  /\ UNCHANGED <<inTx, worker, on, hw, raced>>

-----------------------------------------------------------------------------
(* radio_tx_worker() and radio_tx_apply()                                  *)

(* Under tx_mutex: sleep while the mailbox is empty, then empty it.        *)
TakeRequest ==
  /\ worker = "wait"
  /\ pending
  /\ on' = pendingOn
  /\ pending' = FALSE
  /\ worker' = IF pendingOn THEN "mute" ELSE "drive_off"
  /\ UNCHANGED <<pendingOn, hw, calls>>

Phase(from, to) ==
  /\ worker = from
  /\ worker' = to
  /\ UNCHANGED <<mailbox, on, calls>>

(* Mutants: the relay closed before PTT is up, the drive left up, the      *)
(* receiver live too early, the relay never opened.                        *)
CloseRelayFirst == Phase("ptt_on", "relay_on") /\ hw' = [hw EXCEPT !.relay = 1]
DropNothing    == Phase("drive_off", "ptt_off") /\ UNCHANGED hw
DropDriveHear  ==
  Phase("drive_off", "ptt_off") /\ hw' = [hw EXCEPT !.drive = 0, !.capture = 1]
OpenNothing    == Phase("relay_off", "clk1_rx") /\ UNCHANGED hw

(* Going to transmit: deaf first, both clocks, PTT, relay, and only then   *)
(* the exciter drive.                                                      *)
MuteCapture  == Phase("mute", "clk1_tx")      /\ hw' = [hw EXCEPT !.capture = 0]
SetClk1Tx    == Phase("clk1_tx", "clk2_tx")   /\ hw' = [hw EXCEPT !.clk1 = "bfo"]
SetClk2Tx    == Phase("clk2_tx", "ptt_on")    /\ UNCHANGED hw
AssertPtt    == Phase("ptt_on", "relay_on")   /\ hw' = [hw EXCEPT !.ptt = 1]
CloseRelay   == Phase("relay_on", "drive_on") /\ hw' = [hw EXCEPT !.relay = 1]
RaiseDrive   == Phase("drive_on", "wait")     /\ hw' = [hw EXCEPT !.drive = 1]

(* Going to receive: drive, PTT, relay, both clocks, and only then the     *)
(* receiver.                                                               *)
DropDrive    == Phase("drive_off", "ptt_off") /\ hw' = [hw EXCEPT !.drive = 0]
DropPtt      == Phase("ptt_off", "relay_off") /\ hw' = [hw EXCEPT !.ptt = 0]
OpenRelay    == Phase("relay_off", "clk1_rx") /\ hw' = [hw EXCEPT !.relay = 0]
SetClk1Rx    == Phase("clk1_rx", "clk2_rx")   /\ hw' = [hw EXCEPT !.clk1 = "rx"]
SetClk2Rx    == Phase("clk2_rx", "unmute")    /\ UNCHANGED hw
UnmuteCapture == Phase("unmute", "wait")      /\ hw' = [hw EXCEPT !.capture = 1]

GoTransmit == MuteCapture \/ SetClk1Tx \/ SetClk2Tx \/ AssertPtt \/ CloseRelay
              \/ RaiseDrive
GoReceive  == DropDrive \/ DropPtt \/ OpenRelay \/ SetClk1Rx \/ SetClk2Rx
              \/ UnmuteCapture

WorkerStep == TakeRequest \/ GoTransmit \/ GoReceive

CallerStep == \E c \in Callers : Post(c) \/ \E tx_on \in BOOLEAN : SetTx(c, tx_on)

Next == CallerStep \/ WorkerStep

Safe == Init /\ [][Next]_vars

(* A thread inside radio_set_tx() leaves it (tx_mutex is held only for a   *)
(* few stores), and the worker keeps running.  Nothing makes a client call *)
(* again.                                                                  *)
Fairness == WF_vars(WorkerStep) /\ \A c \in Callers : WF_vars(Post(c))

Spec == Safe /\ Fairness

-----------------------------------------------------------------------------
TypeOK ==
  /\ inTx \in BOOLEAN
  /\ pending \in BOOLEAN
  /\ pendingOn \in BOOLEAN
  /\ caller \in [Callers -> {"idle", "post"}]
  /\ want \in [Callers -> BOOLEAN]
  /\ worker \in Waiting \union OnPhases \union OffPhases
  /\ on \in BOOLEAN
  /\ hw \in Hardware
  /\ raced \in BOOLEAN
  /\ worker = "unborn" => ~pending /\ Calling = {}

(* The exciter is driven only into a closed relay, with PTT up, clk1 at    *)
(* the transmit BFO and the receiver deaf; and the receiver hears only     *)
(* while nothing of the transmitter is on (radio_tx_apply's ordering).     *)
NoHotSwitch ==
  /\ hw.drive = 1 => hw.relay = 1 /\ hw.ptt = 1
  /\ hw.relay = 1 => hw.clk1 = "bfo" /\ hw.capture = 0
  /\ hw.capture = 1 => hw.ptt = 0

(* Nothing is done by the worker and nothing is left for it to do.         *)
AtRest == worker \in Waiting /\ ~pending

(* No request is lost: whenever the worker sleeps on an empty mailbox the  *)
(* devices are those of the last request posted, however many requests     *)
(* overwrote each other and whatever phase the worker was in when they     *)
(* came.                                                                   *)
RestFollowsRequest == AtRest => hw = Rest(pendingOn)

Quiet == AtRest /\ Calling = {}

(* in_tx tells the truth about a quiet radio unless two calls overlapped:  *)
(* the store to in_tx is outside the mutex, so two calls may leave in_tx   *)
(* from one of them and the request of the other in the mailbox.           *)
InTxHonestUnlessRaced == Quiet /\ ~raced => (inTx <=> hw.ptt = 1)

(* What radio.h promises of in_tx and radio_set_tx() with no such proviso. *)
InTxHonest == Quiet => (inTx <=> hw.ptt = 1)

(* The T/R relay moves only with the drive off and the receiver deaf; it   *)
(* closes once PTT is up ("let PTT assert before keying the relay") and    *)
(* opens once PTT has been dropped, as the calls stand (a comment between  *)
(* them has it the other way round).  clk1 moves only with the transmitter *)
(* and the receiver both off.                                              *)
Cold ==
  /\ hw'.relay # hw.relay =>
       hw.drive = 0 /\ hw.capture = 0 /\ hw.ptt = hw'.relay
  /\ hw'.clk1 # hw.clk1 =>
       hw.drive = 0 /\ hw.capture = 0 /\ hw.ptt = 0 /\ hw.relay = 0

SwitchesCold == [][Cold]_vars

(* A request is applied, or a newer one takes its place: once posted       *)
(* requests stop, the radio settles in the state asked for last.           *)
SettlesOnLastRequest ==
  \A tx \in BOOLEAN :
    <>[](pendingOn = tx /\ Calling = {}) => <>[](hw = Rest(tx))

-----------------------------------------------------------------------------
(* The devices seen as the three states of the abstract switch.            *)
Mode ==
  IF hw.drive = 1 THEN "transmit" ELSE IF hw.capture = 1 THEN "receive" ELSE "dead"

Switch == INSTANCE TxSwitch
            WITH goal <- pendingOn, fresh <- pending, taken <- on, mode <- Mode

(* radio.c implements the promised switch, fairness included.              *)
ImplementsSwitch == Switch!Spec

=============================================================================
