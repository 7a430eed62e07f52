------------------------------ MODULE RemoteTune -----------------------------
(***************************************************************************)
(* Who moves the dial: the EP2 packets of an SDR application               *)
(* (src/src/interfaces/hpsdr_p1.c), and the CAT and rigctl commands of     *)
(* usb_gadget.c and hamlib.c, each in a thread of its own and without a    *)
(* lock.  A packet holds two frames, each with one register: a transmit    *)
(* frequency, a receive frequency, the MOX bit, or another.  After both,   *)
(* the radio follows the application's receive frequency.                  *)
(*                                                                         *)
(* in_tx and freq_hdr are read in separate steps where other code runs in  *)
(* between.  radio_set_tx() is its store to in_tx, radio_tune_to() its     *)
(* store of the frequency and its clearing of RIT; the hardware behind     *)
(* them is in RadioTx and RadioTune, the rule that the key comes first in  *)
(* TxArbiter: here cw_tx_active() may say anything.                        *)
(***************************************************************************)

EXTENDS Integers

CONSTANTS
  Surfaces,     \* the CAT reader and the rigctl connections
  Freqs,        \* frequencies asked for, Hz
  StartFreq,    \* freq_hdr as main() tunes to it
  RitStep,      \* CAT_RIT_STEP_HZ
  RitMax,       \* RIT_MAX_HZ
  Offsets       \* the offsets rigctl's J asks for, Hz

ASSUME RemoteAssumption ==
  /\ Freqs \subseteq Nat \ {0}
  /\ StartFreq \in Freqs
  /\ RitMax \in Nat /\ RitStep \in Nat
  /\ Offsets \subseteq Int

VARIABLES
  dial,         \* freq_hdr
  rit,          \* rit_offset
  inTx,         \* in_tx
  lastTx,       \* last_tx_freq, 0 before the first
  lastRx,       \* last_rx_freq, 0 before the first
  netMox,       \* net_mox
  ep2,          \* where the EP2 thread is with a packet
  frame,        \* the frame of the packet it is at
  wantTx,       \* want_tx of a frame that is acted on, else FALSE
  at,           \* per surface: where it is in its command
  arg,          \* per surface: the offset it is about to store
  \* Histories.
  asked,        \* the frequency the network has keyed the radio for; 0 when
                \* it has not, or another surface has tuned or keyed since
  alone,        \* no other surface has tuned or keyed since the EP2 thread
                \* last began to compare
  stale,        \* surfaces stepping from an offset that has been stored anew
  ritDial,      \* the dial frequency at which the offset was dialed in
  from,         \* per surface: the same of the offset it steps from
  straddled     \* the offset comes from a stale step

packet     == <<lastTx, lastRx, netMox, ep2, frame, wantTx>>
commands   == <<at, arg, from>>
ritVars    == <<rit, stale, ritDial, straddled>>
steps      == <<arg, from>>
remoteVars == <<dial, inTx, packet, commands, asked, alone, ritVars>>

RemoteInit ==
  /\ dial = StartFreq
  /\ rit = 0
  /\ inTx = FALSE
  /\ lastTx = 0 /\ lastRx = 0 /\ netMox = FALSE
  /\ ep2 = "idle" /\ frame = 1 /\ wantTx = FALSE
  /\ at = [s \in Surfaces |-> "idle"]
  /\ arg = [s \in Surfaces |-> 0]
  /\ asked = 0 /\ alone = TRUE
  /\ stale = {} /\ ritDial = 0 /\ straddled = FALSE
  /\ from = [s \in Surfaces |-> 0]

-----------------------------------------------------------------------------
(* radio_tune_to(), radio_set_tx() and radio_set_rit() as called here      *)

Stepping == {s \in Surfaces : at[s] = "step"}

KeepRit ==                      \* mutant: a tune leaves RIT as it was
  UNCHANGED ritVars

ClearRit ==
  /\ rit' = 0
  /\ stale' = Stepping
  /\ ritDial' = 0
  /\ straddled' = FALSE

-----------------------------------------------------------------------------
(* One EP2 packet: handle_command() case 0x01                              *)

AtFrame == ep2 = "frame"

PastFrame ==
  IF frame = 1 THEN ep2' = "frame" /\ frame' = 2 ELSE ep2' = "look" /\ frame' = 1

TakePacket ==
  /\ ep2 = "idle"
  /\ ep2' = "frame"
  /\ UNCHANGED <<dial, inTx, lastTx, lastRx, netMox, frame, wantTx, commands,
                 asked, alone, ritVars>>

(* Registers 1 and 2.  A zero is an empty slot, not a frequency.           *)
FrameFreq ==
  /\ AtFrame
  /\ \/ lastTx' \in Freqs /\ UNCHANGED lastRx
     \/ lastRx' \in Freqs /\ UNCHANGED lastTx
  /\ PastFrame
  /\ UNCHANGED <<dial, inTx, netMox, wantTx, commands, asked, alone, ritVars>>

(* Any other register, an empty slot, a frame without its sync bytes.      *)
FrameOther ==
  /\ AtFrame
  /\ PastFrame
  /\ UNCHANGED <<dial, inTx, lastTx, lastRx, netMox, wantTx, commands, asked,
                 alone, ritVars>>

(* Register 0: the bit is remembered in any case, and acted on if it is a  *)
(* change, differs from in_tx and the key does not hold the transmitter.   *)
FrameMoxKept(want) ==
  /\ AtFrame
  /\ netMox' = want
  /\ PastFrame
  /\ UNCHANGED <<dial, inTx, lastTx, lastRx, wantTx, commands, asked, alone, ritVars>>

FrameMox(want) ==
  /\ AtFrame
  /\ want # netMox /\ want # inTx
  /\ netMox' = want
  /\ wantTx' = want
  /\ ep2' = IF want THEN "compare" ELSE "call"
  /\ UNCHANGED <<dial, inTx, lastTx, lastRx, frame, commands, asked, alone, ritVars>>

TxFreq == IF lastTx # 0 THEN lastTx ELSE lastRx

(* The frequency first, and only then the transmitter.                     *)
TuneForTx ==
  /\ ep2 = "compare"
  /\ IF TxFreq \notin {0, dial}
     THEN dial' = TxFreq /\ ep2' = "tx_clear"
     ELSE UNCHANGED dial /\ ep2' = "call"
  /\ alone' = TRUE
  /\ UNCHANGED <<inTx, lastTx, lastRx, netMox, frame, wantTx, commands, asked, ritVars>>

EndTuneForTx ==
  /\ ep2 = "tx_clear"
  /\ ep2' = "call"
  /\ ClearRit
  /\ UNCHANGED <<dial, inTx, lastTx, lastRx, netMox, frame, wantTx, commands,
                 asked, alone>>

(* What the comments promise to transmit on.                               *)
Promised == IF lastTx # 0 THEN lastTx ELSE lastRx

NetworkKeys ==
  /\ ep2 = "call"
  /\ inTx' = wantTx
  /\ wantTx' = FALSE
  /\ asked' = IF wantTx /\ alone THEN Promised ELSE 0
  /\ PastFrame
  /\ UNCHANGED <<dial, lastTx, lastRx, netMox, commands, alone, ritVars>>

(* The radio follows in receive only: in_tx, then the frequencies.         *)
LookAway ==                     \* mutant: in_tx is not looked at
  /\ ep2 = "look"
  /\ ep2' = IF lastRx # 0 THEN "follow" ELSE "idle"
  /\ alone' = TRUE
  /\ UNCHANGED <<dial, inTx, lastTx, lastRx, netMox, frame, wantTx, commands,
                 asked, ritVars>>

Look ==
  /\ ep2 = "look"
  /\ ep2' = IF ~inTx /\ lastRx # 0 THEN "follow" ELSE "idle"
  /\ alone' = TRUE
  /\ UNCHANGED <<dial, inTx, lastTx, lastRx, netMox, frame, wantTx, commands,
                 asked, ritVars>>

FollowChanges ==                \* mutant: only a dial left by a transmission
  /\ ep2 = "follow"             \* is moved
  /\ IF lastRx # dial /\ dial = lastTx
     THEN dial' = lastRx /\ ep2' = "rx_clear"
     ELSE UNCHANGED dial /\ ep2' = "idle"
  /\ UNCHANGED <<inTx, lastTx, lastRx, netMox, frame, wantTx, commands, asked,
                 alone, ritVars>>

Follow ==
  /\ ep2 = "follow"
  /\ IF lastRx # dial
     THEN dial' = lastRx /\ ep2' = "rx_clear"
     ELSE UNCHANGED dial /\ ep2' = "idle"
  /\ UNCHANGED <<inTx, lastTx, lastRx, netMox, frame, wantTx, commands, asked,
                 alone, ritVars>>

EndFollow ==
  /\ ep2 = "rx_clear"
  /\ ep2' = "idle"
  /\ ClearRit
  /\ UNCHANGED <<dial, inTx, lastTx, lastRx, netMox, frame, wantTx, commands,
                 asked, alone>>

-----------------------------------------------------------------------------
(* The commands of the other surfaces                                      *)

(* F and FA.                                                               *)
TuneTo(s, f) ==
  /\ at[s] = "idle"
  /\ at' = [at EXCEPT ![s] = "clear"]
  /\ dial' = f
  /\ asked' = 0 /\ alone' = FALSE
  /\ UNCHANGED <<inTx, packet, steps, ritVars>>

EndTune(s) ==
  /\ at[s] = "clear"
  /\ at' = [at EXCEPT ![s] = "idle"]
  /\ ClearRit
  /\ UNCHANGED <<dial, inTx, packet, steps, asked, alone>>

(* J, refused beyond RIT_MAX_HZ, and RC with an offset of zero.            *)
SetRit(s, hz) ==
  /\ at[s] = "idle"
  /\ hz \in -RitMax .. RitMax
  /\ rit' = hz
  /\ ritDial' = dial
  /\ stale' = Stepping
  /\ straddled' = FALSE
  /\ UNCHANGED <<dial, inTx, packet, commands, asked, alone>>

Clamp(hz) ==
  IF hz > RitMax THEN RitMax ELSE IF hz < -RitMax THEN -RitMax ELSE hz

(* RU and RD: the offset is read, stepped and clamped, and then stored.    *)
ReadRit(s, delta) ==
  /\ at[s] = "idle"
  /\ at' = [at EXCEPT ![s] = "step"]
  /\ arg' = [arg EXCEPT ![s] = Clamp(rit + delta)]
  /\ from' = [from EXCEPT ![s] = IF rit # 0 THEN ritDial ELSE dial]
  /\ UNCHANGED <<dial, inTx, packet, asked, alone, ritVars>>

StepRit(s) ==
  /\ at[s] = "step"
  /\ at' = [at EXCEPT ![s] = "idle"]
  /\ arg' = [arg EXCEPT ![s] = 0]
  /\ from' = [from EXCEPT ![s] = 0]
  /\ rit' = arg[s]
  /\ ritDial' = from[s]
  /\ straddled' = (straddled \/ s \in stale)
  /\ stale' = Stepping \ {s}
  /\ UNCHANGED <<dial, inTx, packet, asked, alone>>

(* T, TX, RX and TQ, and the key itself.                                   *)
SurfaceKeys(tx_on) ==
  /\ inTx' = tx_on
  /\ asked' = 0 /\ alone' = FALSE
  /\ UNCHANGED <<dial, packet, commands, ritVars>>

-----------------------------------------------------------------------------
Packet ==
  \/ TakePacket \/ FrameFreq \/ FrameOther
  \/ \E want \in BOOLEAN : FrameMoxKept(want) \/ FrameMox(want)
  \/ TuneForTx \/ EndTuneForTx \/ NetworkKeys \/ Look \/ Follow \/ EndFollow

Command(s) ==
  \/ \E f \in Freqs : TuneTo(s, f)
  \/ \E hz \in Offsets \union {0} : SetRit(s, hz)
  \/ \E delta \in {RitStep, -RitStep} : ReadRit(s, delta)
  \/ EndTune(s) \/ StepRit(s)

RemoteNext ==
  \/ Packet
  \/ \E s \in Surfaces : Command(s)
  \/ \E tx_on \in BOOLEAN : SurfaceKeys(tx_on)

RemoteSpec == RemoteInit /\ [][RemoteNext]_remoteVars

-----------------------------------------------------------------------------
RemoteTypeOK ==
  /\ dial \in Freqs
  /\ rit \in -RitMax .. RitMax
  /\ inTx \in BOOLEAN /\ netMox \in BOOLEAN /\ wantTx \in BOOLEAN
  /\ lastTx \in Freqs \union {0} /\ lastRx \in Freqs \union {0}
  /\ ep2 \in {"idle", "frame", "compare", "tx_clear", "call", "look", "follow",
              "rx_clear"}
  /\ frame \in {1, 2}
  /\ at \in [Surfaces -> {"idle", "clear", "step"}]
  /\ arg \in [Surfaces -> -RitMax .. RitMax]
  /\ asked \in Freqs \union {0} /\ ritDial \in Freqs \union {0}
  /\ from \in [Surfaces -> Freqs \union {0}]
  /\ alone \in BOOLEAN /\ straddled \in BOOLEAN
  /\ stale \subseteq Stepping

(* The network transmits where it asked to: from the moment it keys the    *)
(* radio the dial is on the transmit frequency it last gave, or on its     *)
(* receive frequency if it never gave one, and neither the second frame of *)
(* the packet nor the rule that follows the receive frequency moves it     *)
(* away, until some other surface tunes or keys.                           *)
TransmitsWhereAsked == asked # 0 => inTx /\ dial = asked

(* A packet leaves a receiving radio on the application's receive          *)
(* frequency, after a transmission on another one and whatever the other   *)
(* surfaces did before, unless one tuned or keyed while it was handled.    *)
FollowsInReceive ==
  ep2 = "idle" /\ alone /\ ~inTx /\ lastRx # 0 => dial = lastRx

NobodyTunes ==
  ep2 \notin {"tx_clear", "rx_clear"} /\ \A s \in Surfaces : at[s] # "clear"

(* An offset is within its limits and was dialed in on the frequency the   *)
(* radio is tuned to, even when a tune came between the two halves of a    *)
(* step of another surface; only a step from an offset that somebody has   *)
(* stored anew in between may bring an old one back.                       *)
RitStartsAfresh ==
  /\ rit \in -RitMax .. RitMax
  /\ NobodyTunes /\ rit # 0 /\ ~straddled => ritDial = dial

=============================================================================
