----------------------------- MODULE TxArbiter ------------------------------
(***************************************************************************)
(* Who keys the transmitter: the straight key, polled once per audio block *)
(* by cw_poll_key() (src/src/cw.c) from audio_loop() (sound.c); the PTT    *)
(* commands of hamlib.c and of the CAT port (usb_gadget.c); and the MOX    *)
(* bit of the HPSDR stream (hpsdr_p1.c).  All of them end in               *)
(* radio_set_tx(), so this module drives RadioTx.                          *)
(*                                                                         *)
(* The local key wins: every remote surface first asks cw_tx_active().     *)
(* The question and the call to radio_set_tx() are two steps, and the key  *)
(* may go down between them.  The network thread compares the MOX bit with *)
(* in_tx in a third step between the two.                                  *)
(*                                                                         *)
(* Time is counted in polls.  The retuning an EP2 packet may also cause is *)
(* module RemoteTune's, and left out here.                                 *)
(***************************************************************************)

EXTENDS RadioTx

CONSTANTS
  Audio,        \* the audio thread
  Hpsdr,        \* the thread that reads EP2 packets
  HangPolls,    \* CW_HANG_POLLS
  RampBlocks    \* audio blocks from silence to full envelope, rounded up

(* The other callers are the rigctl and CAT threads.                       *)
Clients == Callers \ {Audio, Hpsdr}

ASSUME ArbiterAssumption ==
  /\ {Audio, Hpsdr} \subseteq Callers
  /\ Audio # Hpsdr
  /\ HangPolls \in Nat \ {0}
  /\ RampBlocks \in 1 .. HangPolls

VARIABLES
  contact,      \* the key contact is closed (the CW_KEY pin reads low)
  loop,         \* where the audio thread is in its loop
  keyDown,      \* key_down, the contact as last polled
  txActive,     \* tx_active
  hang,         \* hang_counter
  ramp,         \* envelope_pos, in blocks
  netMox,       \* net_mox
  granted,      \* per remote caller that has found the key up: what it will
                \* ask for ("tx", "rx"), or has yet to compare with in_tx
                \* ("mox_on", "mox_off"); "no" of the others
  \* Histories.
  upPolls,      \* polls in a row that found the key up during this burst,
                \* counted up to HangPolls + 2
  early         \* the remote callers that had found the key up when it went
                \* down, and have called radio_set_tx() since or still may

key     == <<loop, keyDown, txActive, hang, ramp, upPolls>>
remote  == <<netMox, granted>>
arbVars == <<vars, contact, key, remote, early>>

OneMoreUp == IF upPolls < HangPolls + 2 THEN upPolls + 1 ELSE upPolls

Wish(on_tx) == IF on_tx THEN "tx" ELSE "rx"
Comparing   == {"mox_on", "mox_off"}

ArbInit ==
  /\ Init
  /\ contact \in BOOLEAN
  /\ loop = "poll"
  /\ keyDown = FALSE
  /\ txActive = FALSE
  /\ hang = 0
  /\ ramp = 0
  /\ netMox = FALSE
  /\ granted = [c \in Callers |-> "no"]
  /\ upPolls = 0
  /\ early = {}

-----------------------------------------------------------------------------
(* The operator's hand.                                                    *)
MoveKey ==
  /\ contact' = ~contact
  /\ UNCHANGED <<vars, key, remote, early>>

-----------------------------------------------------------------------------
(* cw_poll_key(), in audio_loop() after each captured block                *)

Poll(next) ==
  /\ loop = "poll"
  /\ loop' = next
  /\ keyDown' = contact
  /\ UNCHANGED <<vars, contact, ramp, remote>>

Press ==
  /\ Poll("press")
  /\ contact /\ ~txActive
  /\ txActive' = TRUE
  /\ hang' = HangPolls
  /\ upPolls' = 0
  /\ early' = {c \in Callers : granted[c] # "no" \/ caller[c] = "post"}

HoldOnce ==                     \* mutant: a new dit does not restart the hang
  /\ Poll("play")
  /\ contact /\ txActive
  /\ upPolls' = 0
  /\ UNCHANGED <<txActive, hang, early>>

Hold ==
  /\ Poll("play")
  /\ contact /\ txActive
  /\ hang' = HangPolls
  /\ upPolls' = 0
  /\ UNCHANGED <<txActive, early>>

HangForever ==                  \* mutant: the hang is not counted down
  /\ Poll("play")
  /\ ~contact /\ txActive /\ hang > 0
  /\ upPolls' = OneMoreUp
  /\ UNCHANGED <<txActive, hang, early>>

HangOn ==
  /\ Poll("play")
  /\ ~contact /\ txActive /\ hang > 0
  /\ hang' = hang - 1
  /\ upPolls' = OneMoreUp
  /\ UNCHANGED <<txActive, early>>

HangUp ==
  /\ Poll("release")
  /\ ~contact /\ txActive /\ hang = 0
  /\ upPolls' = OneMoreUp
  /\ UNCHANGED <<txActive, hang, early>>

StayUp ==
  /\ Poll("play")
  /\ ~contact /\ ~txActive
  /\ UNCHANGED <<txActive, hang, upPolls, early>>

(* The two steps of radio_set_tx(), and tx_active = 0 after the second one.*)
KeyCalls ==
  /\ \/ loop = "press" /\ SetTx(Audio, TRUE) /\ loop' = "pressed"
     \/ loop = "release" /\ SetTx(Audio, FALSE) /\ loop' = "released"
  /\ UNCHANGED <<contact, keyDown, txActive, hang, ramp, upPolls, remote, early>>

KeyPosts ==
  /\ loop \in {"pressed", "released"}
  /\ Post(Audio)
  /\ loop' = IF loop = "pressed" THEN "play" ELSE "clear"
  /\ UNCHANGED <<contact, keyDown, txActive, hang, ramp, upPolls, remote, early>>

Release ==
  /\ loop = "clear"
  /\ loop' = "play"
  /\ txActive' = FALSE
  /\ UNCHANGED <<vars, contact, keyDown, hang, ramp, upPolls, remote, early>>

PlayWhileDown ==                \* mutant: the envelope stops with the key
  /\ loop = "play"
  /\ loop' = "poll"
  /\ ramp' = IF txActive /\ keyDown /\ ramp < RampBlocks THEN ramp + 1 ELSE ramp
  /\ UNCHANGED <<vars, contact, keyDown, txActive, hang, upPolls, remote, early>>

(* The block's tone is shaped by the envelope, which moves with the key as *)
(* polled, and only during a burst (cw_get_sample()).                      *)
PlayBlock ==
  /\ loop = "play"
  /\ loop' = "poll"
  /\ ramp' = CASE ~txActive                          -> ramp
               [] txActive /\ keyDown /\ ramp < RampBlocks -> ramp + 1
               [] txActive /\ ~keyDown /\ ramp > 0   -> ramp - 1
               [] OTHER                              -> ramp
  /\ UNCHANGED <<vars, contact, keyDown, txActive, hang, upPolls, remote, early>>

(* audio_loop() gives up when capture cannot be recovered: the key is not  *)
(* polled any more, and a burst it has begun is not ended.                 *)
CaptureFails ==
  /\ loop = "poll"
  /\ loop' = "dead"
  /\ UNCHANGED <<vars, contact, keyDown, txActive, hang, ramp, upPolls, remote, early>>

AudioStep ==
  \/ Press \/ Hold \/ HangOn \/ HangUp \/ StayUp
  \/ KeyCalls \/ KeyPosts \/ Release \/ PlayBlock

-----------------------------------------------------------------------------
(* The remote surfaces                                                     *)

Idle(c) == granted[c] = "no" /\ caller[c] = "idle"

AskPttAnyway(c, tx_on) ==       \* mutant: the key is not asked
  /\ c \in Clients
  /\ Idle(c)
  /\ granted' = [granted EXCEPT ![c] = Wish(tx_on)]
  /\ UNCHANGED <<vars, contact, key, netMox, early>>

(* hamlib's T, CAT's TX, RX and TQ: ignored while the key holds the        *)
(* transmitter (which needs no step), else passed on.                      *)
AskPtt(c, tx_on) ==
  /\ c \in Clients
  /\ Idle(c)
  /\ ~txActive
  /\ granted' = [granted EXCEPT ![c] = Wish(tx_on)]
  /\ UNCHANGED <<vars, contact, key, netMox, early>>

(* process_ep2_frame(): the bit is remembered whatever happens next; a     *)
(* change of it goes on if the key is not holding the transmitter,         *)
Ep2Frame(want_tx) ==
  /\ Idle(Hpsdr)
  /\ netMox' = want_tx
  /\ granted' = IF ~txActive /\ want_tx # netMox
                THEN [granted EXCEPT ![Hpsdr] = IF want_tx THEN "mox_on" ELSE "mox_off"]
                ELSE granted
  /\ UNCHANGED <<vars, contact, key, early>>

(* and is then acted on if it differs from in_tx as it is by now.          *)
Ep2Compare ==
  /\ granted[Hpsdr] \in Comparing
  /\ LET want_tx == granted[Hpsdr] = "mox_on"
     IN  IF want_tx # inTx
         THEN /\ granted' = [granted EXCEPT ![Hpsdr] = Wish(want_tx)]
              /\ UNCHANGED early
         ELSE /\ granted' = [granted EXCEPT ![Hpsdr] = "no"]
              /\ early' = early \ {Hpsdr}
  /\ UNCHANGED <<vars, contact, key, netMox>>

RemoteCalls(c) ==
  /\ granted[c] \in {"tx", "rx"}
  /\ SetTx(c, granted[c] = "tx")
  /\ granted' = [granted EXCEPT ![c] = "no"]
  /\ UNCHANGED <<contact, key, netMox, early>>

RemotePosts(c) ==
  /\ c # Audio
  /\ Post(c)
  /\ UNCHANGED <<contact, key, remote, early>>

RemoteStep(c) ==
  \/ RemoteCalls(c) \/ RemotePosts(c)
  \/ c = Hpsdr /\ Ep2Compare

ArbWorkerStep == WorkerStep /\ UNCHANGED <<contact, key, remote, early>>

ArbNext ==
  \/ MoveKey
  \/ AudioStep
  \/ CaptureFails
  \/ \E c \in Callers :
       RemoteStep(c) \/ \E tx_on \in BOOLEAN : AskPtt(c, tx_on)
  \/ \E want_tx \in BOOLEAN : Ep2Frame(want_tx)
  \/ ArbWorkerStep

ArbSafe == ArbInit /\ [][ArbNext]_arbVars

(* Audio blocks keep coming (one each 10.7 ms), a thread that has found    *)
(* the key up goes on to radio_set_tx() and leaves it, and the worker runs.*)
ArbFairness ==
  /\ WF_arbVars(AudioStep)
  /\ WF_arbVars(ArbWorkerStep)
  /\ \A c \in Callers : WF_arbVars(RemoteStep(c))

ArbSpec == ArbSafe /\ ArbFairness

-----------------------------------------------------------------------------
ArbTypeOK ==
  /\ TypeOK
  /\ contact \in BOOLEAN
  /\ loop \in {"poll", "press", "pressed", "release", "released", "clear", "play",
              "dead"}
  /\ keyDown \in BOOLEAN
  /\ txActive \in BOOLEAN
  /\ hang \in 0 .. HangPolls
  /\ ramp \in 0 .. RampBlocks
  /\ netMox \in BOOLEAN
  /\ granted \in [Callers -> {"no", "tx", "rx"} \union Comparing]
  /\ upPolls \in 0 .. HangPolls + 2
  /\ early \subseteq Callers

(* The key has the transmitter and no call of radio_set_tx() is under way. *)
KeyHolds == txActive /\ loop \in {"poll", "play"} /\ Calling = {}

(* The local key wins: during a burst the radio is told to transmit and    *)
(* nothing tells it otherwise, unless a remote call that had found the key *)
(* up was still on its way when the key went down.                         *)
KeyWinsUnlessLate == KeyHolds /\ early = {} => inTx /\ pendingOn

(* What the comments promise, with no such proviso.                        *)
KeyWins == KeyHolds => inTx /\ pendingOn

(* The key lets go of the transmitter only after HangPolls polls and one   *)
(* more have found it up, with no closure between them: the relay does not *)
(* chatter between dits.                                                   *)
HangsThroughGaps ==
  [][ loop = "release" /\ loop' = "released" => upPolls = HangPolls + 1 ]_arbVars

(* The transmitter is let go of in silence: the envelope has come down by  *)
(* itself before the hang runs out, so unkeying never cuts a tone off.     *)
ReleasesInSilence ==
  [][ loop = "release" /\ loop' = "released" => ramp = 0 ]_arbVars

(* A key that stays up lets go of the transmitter, which is also what      *)
(* makes the radio heed its remote surfaces again, as long as the audio    *)
(* thread lives.                                                           *)
KeyLetsGo == <>[]~contact => <>[]~txActive \/ <>(loop = "dead")

(* A key that stays down transmits: the radio settles with the exciter     *)
(* driven through the closed relay, however busy the worker was when the   *)
(* key went down and whatever the remote surfaces ask meanwhile.           *)
KeyIsHeard ==
  <>[]contact /\ <>[](early = {}) =>
    <>[](hw = Rest(TRUE)) \/ <>(loop = "dead")

=============================================================================
