-------------------------- MODULE TxArbiterProofs ---------------------------
(***************************************************************************)
(* Machine-checked proofs about TxArbiter, for any callers, any hang and   *)
(* any envelope no longer than the hang.  Three inductive invariants, one  *)
(* per question: Arithmetic counts the hang against the polls, Silence     *)
(* counts the envelope against them, and KeyRules follows the calls of     *)
(* radio_set_tx() that a burst can meet.  The types of the state follow.   *)
(***************************************************************************)
EXTENDS TxArbiter, RadioTxProofs

-----------------------------------------------------------------------------
(* Every step of the arbiter is a step of RadioTx or leaves it alone.      *)
LEMMA ArbStepIsRadioTx == [ArbNext]_arbVars => [Next]_vars
<1> SUFFICES ASSUME [ArbNext]_arbVars PROVE [Next]_vars
  OBVIOUS
<1>1. CASE MoveKey \/ CaptureFails
  BY <1>1 DEF MoveKey, CaptureFails
<1>2. CASE AudioStep
  <2>1. CASE KeyCalls
    BY <2>1, ArbiterAssumption DEF KeyCalls, Next, CallerStep
  <2>2. CASE KeyPosts
    BY <2>2, ArbiterAssumption DEF KeyPosts, Next, CallerStep
  <2>3. CASE Press \/ Hold \/ HangOn \/ HangUp \/ StayUp \/ Release \/ PlayBlock
    BY <2>3 DEF Press, Hold, HangOn, HangUp, StayUp, Poll, Release, PlayBlock
  <2>4. QED BY <1>2, <2>1, <2>2, <2>3 DEF AudioStep
<1>3. ASSUME NEW c \in Callers, RemoteStep(c) PROVE [Next]_vars
  <2>1. CASE RemoteCalls(c) \/ RemotePosts(c)
    BY <2>1 DEF RemoteCalls, RemotePosts, Next, CallerStep
  <2>2. CASE Ep2Compare
    BY <2>2 DEF Ep2Compare
  <2>3. QED BY <1>3, <2>1, <2>2 DEF RemoteStep
<1>4. ASSUME NEW c \in Callers, NEW tx_on \in BOOLEAN, AskPtt(c, tx_on)
      PROVE [Next]_vars
  BY <1>4 DEF AskPtt
<1>5. ASSUME NEW want_tx \in BOOLEAN, Ep2Frame(want_tx) PROVE [Next]_vars
  BY <1>5 DEF Ep2Frame
<1>6. CASE ArbWorkerStep
  BY <1>6 DEF ArbWorkerStep, Next
<1>7. CASE UNCHANGED arbVars
  BY <1>7 DEF arbVars
<1>8. QED BY <1>1, <1>2, <1>3, <1>4, <1>5, <1>6, <1>7 DEF ArbNext

(* Key, CAT, rigctl and network together are a behaviour of the transmit   *)
(* path of radio.c, so all that RadioTxProofs shows of it holds of them.   *)
THEOREM ArbiterKeepsRadioTx == ArbSpec => Safe
<1>1. ArbInit => Init
  BY DEF ArbInit
<1>2. QED BY <1>1, ArbStepIsRadioTx, PTL DEF ArbSpec, ArbSafe, Safe

(* With four sources of PTT that fight over the transmitter, nothing is    *)
(* switched hot, the relay and clk1 move cold, a sleeping worker has done  *)
(* what was asked for last, in_tx is true of a quiet radio unless two of   *)
(* the calls overlapped, and the radio is the promised switch.             *)
THEOREM ArbiterKeepsPromises ==
  ArbSpec => /\ []NoHotSwitch /\ SwitchesCold
             /\ []RestFollowsRequest /\ []InTxHonestUnlessRaced
             /\ Switch!Safe
<1>1. QED
  BY ArbiterKeepsRadioTx, NeverHot, AlwaysCold, LastRequestRules, InTxTrueUnlessRaced,
     ImplementsSafeSwitch, PTL

-----------------------------------------------------------------------------
(* The hang: during a burst the polls that have found the key up and the   *)
(* ones still to come add up to HangPolls.                                 *)

Loops == {"poll", "press", "pressed", "release", "released", "clear", "play", "dead"}

Arithmetic ==
  /\ loop \in Loops
  /\ txActive \in BOOLEAN
  /\ hang \in 0 .. HangPolls
  /\ upPolls \in 0 .. HangPolls + 2
  /\ loop \in {"press", "pressed", "release", "released", "clear"} => txActive
  /\ txActive /\ loop \notin {"release", "released", "clear"} =>
       upPolls + hang = HangPolls
  /\ loop = "release" => upPolls = HangPolls + 1

keying == <<loop, keyDown, txActive, hang, ramp, upPolls>>

(* The steps that leave the audio thread where it is.                      *)
LEMMA OthersKeepKey ==
  ASSUME [ArbNext]_arbVars, ~AudioStep, ~CaptureFails
  PROVE  UNCHANGED keying
BY DEF ArbNext, MoveKey, RemoteStep, RemoteCalls, RemotePosts, Ep2Compare, AskPtt,
       Ep2Frame, ArbWorkerStep, arbVars, key, keying

LEMMA ArithmeticInit == ArbInit => Arithmetic
<1> SUFFICES ASSUME ArbInit PROVE Arithmetic
  OBVIOUS
<1>1. loop = "poll" /\ txActive \in BOOLEAN /\ ~txActive /\ hang = 0 /\ upPolls = 0
  BY DEF ArbInit
<1>2. HangPolls \in Nat
  BY ArbiterAssumption
<1>3. QED BY <1>1, <1>2 DEF Arithmetic, Loops

LEMMA ArithmeticNext == Arithmetic /\ [ArbNext]_arbVars => Arithmetic'
<1> SUFFICES ASSUME Arithmetic, [ArbNext]_arbVars PROVE Arithmetic'
  OBVIOUS
<1> USE ArbiterAssumption DEF Arithmetic, Loops
<1>1. CASE Press BY <1>1 DEF Press, Poll
<1>2. CASE Hold BY <1>2 DEF Hold, Poll
<1>3. CASE HangOn BY <1>3 DEF HangOn, Poll, OneMoreUp
<1>4. CASE HangUp BY <1>4 DEF HangUp, Poll, OneMoreUp
<1>5. CASE StayUp BY <1>5 DEF StayUp, Poll
<1>6. CASE KeyCalls BY <1>6 DEF KeyCalls
<1>7. CASE KeyPosts
  BY <1>7 DEF KeyPosts
<1>8. CASE Release BY <1>8 DEF Release
<1>9. CASE PlayBlock BY <1>9 DEF PlayBlock
<1>10. CASE CaptureFails BY <1>10 DEF CaptureFails
<1>11. CASE UNCHANGED keying BY <1>11 DEF keying
<1>12. QED
  BY <1>1, <1>2, <1>3, <1>4, <1>5, <1>6, <1>7, <1>8, <1>9, <1>10, <1>11,
     OthersKeepKey DEF AudioStep

(* The transmitter is let go of on the poll after the last of HangPolls    *)
(* that found the key up, counting from its last closure.                  *)
THEOREM HangIsFull == ArbSpec => HangsThroughGaps
<1>1. Arithmetic /\ [ArbNext]_arbVars =>
        [loop = "release" /\ loop' = "released" => upPolls = HangPolls + 1]_arbVars
  BY DEF Arithmetic
<1>2. QED BY <1>1, ArithmeticInit, ArithmeticNext, PTL
             DEF ArbSpec, ArbSafe, HangsThroughGaps

-----------------------------------------------------------------------------
(* The envelope: once the key is up it comes down one block per poll, and  *)
(* is down when the hang ends because the hang is the longer of the two.   *)

Silence ==
  /\ ramp \in 0 .. RampBlocks
  /\ keyDown \in BOOLEAN
  /\ loop = "play" /\ txActive /\ upPolls > 0 =>
       ~keyDown /\ (ramp = 0 \/ ramp + upPolls <= RampBlocks + 1)
  /\ loop = "poll" /\ txActive /\ upPolls > 0 =>
       ramp = 0 \/ ramp + upPolls <= RampBlocks
  /\ loop \in {"press", "pressed"} => upPolls = 0
  /\ loop \in {"release", "released"} => ramp = 0

ContactOK == contact \in BOOLEAN

LEMMA SilenceInit == ArbInit => Silence
<1> SUFFICES ASSUME ArbInit PROVE Silence
  OBVIOUS
<1>1. loop = "poll" /\ keyDown \in BOOLEAN /\ ramp = 0 /\ upPolls = 0
  BY DEF ArbInit
<1>2. RampBlocks \in Nat
  BY ArbiterAssumption
<1>3. QED BY <1>1, <1>2 DEF Silence

LEMMA SilenceNext ==
  Arithmetic /\ Silence /\ ContactOK /\ [ArbNext]_arbVars => Silence'
<1> SUFFICES ASSUME Arithmetic, Silence, ContactOK, [ArbNext]_arbVars
             PROVE  Silence'
  OBVIOUS
<1>0. RampBlocks \in Nat /\ HangPolls \in Nat /\ RampBlocks <= HangPolls
  BY ArbiterAssumption
<1> USE <1>0 DEF Silence, Arithmetic, Loops, ContactOK
<1>1. CASE Press BY <1>1 DEF Press, Poll
<1>2. CASE Hold BY <1>2 DEF Hold, Poll
<1>3. CASE HangOn BY <1>3 DEF HangOn, Poll, OneMoreUp
<1>4. CASE HangUp BY <1>4 DEF HangUp, Poll, OneMoreUp
<1>5. CASE StayUp BY <1>5 DEF StayUp, Poll
<1>6. CASE KeyCalls BY <1>6 DEF KeyCalls
<1>7. CASE KeyPosts BY <1>7 DEF KeyPosts
<1>8. CASE Release BY <1>8 DEF Release
<1>9. CASE PlayBlock BY <1>9 DEF PlayBlock
<1>10. CASE CaptureFails BY <1>10 DEF CaptureFails
<1>11. CASE UNCHANGED keying BY <1>11 DEF keying
<1>12. QED
  BY <1>1, <1>2, <1>3, <1>4, <1>5, <1>6, <1>7, <1>8, <1>9, <1>10, <1>11,
     OthersKeepKey DEF AudioStep

LEMMA ContactNext == ContactOK /\ [ArbNext]_arbVars => ContactOK'
<1> SUFFICES ASSUME ContactOK, [ArbNext]_arbVars
             PROVE  contact' = ~contact \/ contact' = contact
  BY DEF ContactOK
<1>1. AudioStep \/ CaptureFails => contact' = contact
  BY DEF AudioStep, CaptureFails, Press, Hold, HangOn, HangUp, StayUp, Poll,
         KeyCalls, KeyPosts, Release, PlayBlock
<1>2. QED
  BY <1>1 DEF ArbNext, MoveKey, RemoteStep, RemoteCalls, RemotePosts,
              Ep2Compare, AskPtt, Ep2Frame, ArbWorkerStep, arbVars

(* The relay never opens on a tone: whatever the lengths of the hang and   *)
(* of the envelope, as long as the hang is not the shorter one.            *)
THEOREM ReleaseIsSilent == ArbSpec => ReleasesInSilence
<1>1. ArbInit => ContactOK
  BY DEF ArbInit, ContactOK
<1>2. Silence /\ [ArbNext]_arbVars =>
        [loop = "release" /\ loop' = "released" => ramp = 0]_arbVars
  BY DEF Silence
<1>3. QED
  BY <1>1, <1>2, ArithmeticInit, ArithmeticNext, SilenceInit, SilenceNext,
     ContactNext, PTL DEF ArbSpec, ArbSafe, ReleasesInSilence

-----------------------------------------------------------------------------
(* The local key wins.                                                     *)

(* What the audio thread has told radio.c, by its place in a burst.        *)
Told ==
  /\ loop = "pressed" => inTx /\ want[Audio]
  /\ loop \in {"poll", "play", "release"} => inTx /\ pendingOn

(* Remote callers that may still reach radio_set_tx(), or are inside it.   *)
Underway == {c \in Callers : granted[c] # "no" \/ caller[c] = "post"}

(* The network thread before it has compared: it may yet turn back, so     *)
(* until then the audio thread's word must stand.                          *)
Undecided == {c \in Callers : granted[c] \in Comparing}

KeyRules ==
  /\ loop \in Loops
  /\ granted \in [Callers -> {"no", "tx", "rx"} \union Comparing]
  /\ caller \in [Callers -> {"idle", "post"}]
  /\ want \in [Callers -> BOOLEAN]
  /\ granted[Audio] = "no"
  /\ \A c \in Callers : granted[c] # "no" => caller[c] = "idle"
  /\ caller[Audio] = "post" <=> loop \in {"pressed", "released"}
  /\ loop \in {"press", "pressed", "release", "released", "clear"} => txActive
  /\ txActive => Underway \ {Audio} \subseteq early
  /\ txActive /\ early \subseteq Undecided => Told

LEMMA KeyRulesInit == ArbInit => KeyRules
<1> SUFFICES ASSUME ArbInit PROVE KeyRules
  OBVIOUS
<1>1. /\ loop = "poll" /\ ~txActive
      /\ granted = [c \in Callers |-> "no"]
      /\ caller = [c \in Callers |-> "idle"]
      /\ want = [c \in Callers |-> FALSE]
  BY DEF ArbInit, Init, NobodyCalled
<1>2. QED BY <1>1, ArbiterAssumption DEF KeyRules, Loops

LEMMA KeyRulesNext == KeyRules /\ [ArbNext]_arbVars => KeyRules'
<1> SUFFICES ASSUME KeyRules, [ArbNext]_arbVars PROVE KeyRules'
  OBVIOUS
<1> USE ArbiterAssumption DEF KeyRules, Loops, Underway, Undecided, Comparing, Told
<1>1. CASE MoveKey
  BY <1>1 DEF MoveKey, vars, key, remote
<1>2. CASE Press
  BY <1>2 DEF Press, Poll, vars, remote
<1>3. CASE Hold \/ HangOn \/ HangUp \/ StayUp
  BY <1>3 DEF Hold, HangOn, HangUp, StayUp, Poll, vars, remote
<1>4. CASE KeyCalls
  BY <1>4 DEF KeyCalls, SetTx, mailbox, remote
<1>5. CASE KeyPosts
  BY <1>5 DEF KeyPosts, Post, remote
<1>6. CASE Release \/ PlayBlock \/ CaptureFails
  BY <1>6 DEF Release, PlayBlock, CaptureFails, vars, remote
<1>7. ASSUME NEW c \in Callers, RemoteCalls(c) PROVE KeyRules'
  BY <1>7 DEF RemoteCalls, SetTx, mailbox, key
<1>8. ASSUME NEW c \in Callers, RemotePosts(c) PROVE KeyRules'
  BY <1>8 DEF RemotePosts, Post, key, remote
<1>9. ASSUME NEW c \in Callers, NEW tx_on \in BOOLEAN, AskPtt(c, tx_on)
      PROVE KeyRules'
  BY <1>9 DEF AskPtt, Clients, Idle, Wish, vars, key
<1>10. ASSUME NEW want_tx \in BOOLEAN, Ep2Frame(want_tx) PROVE KeyRules'
  BY <1>10 DEF Ep2Frame, Idle, Wish, vars, key
<1>11. CASE Ep2Compare
  <2>1. /\ Hpsdr \in Underway \ {Audio}
        /\ \A c \in Callers \ {Hpsdr} : granted'[c] = granted[c]
        /\ UNCHANGED <<inTx, caller, want, pendingOn, loop, txActive>>
    BY <1>11 DEF Ep2Compare, vars, key
  <2>2. CASE granted'[Hpsdr] = "no"
    BY <1>11, <2>1, <2>2 DEF Ep2Compare, Wish
  <2>3. CASE granted'[Hpsdr] # "no"
    BY <1>11, <2>1, <2>3 DEF Ep2Compare, Wish
  <2>4. QED BY <2>2, <2>3
<1>12. CASE ArbWorkerStep
  <2>1. UNCHANGED <<inTx, caller, want, pendingOn>>
    BY <1>12 DEF ArbWorkerStep, WorkerStep, TakeRequest, GoTransmit, GoReceive,
                 MuteCapture, SetClk1Tx, SetClk2Tx, AssertPtt, CloseRelay,
                 RaiseDrive, DropDrive, DropPtt, OpenRelay, SetClk1Rx, SetClk2Rx,
                 UnmuteCapture, Phase, mailbox, calls
  <2>2. QED BY <1>12, <2>1 DEF ArbWorkerStep, key, remote
<1>13. CASE UNCHANGED arbVars
  BY <1>13 DEF arbVars, vars, key, remote
<1>14. QED
  BY <1>1, <1>2, <1>3, <1>4, <1>5, <1>6, <1>7, <1>8, <1>9, <1>10, <1>11, <1>12,
     <1>13 DEF ArbNext, AudioStep, RemoteStep

(* The local key keeps the transmitter through a burst, against any number *)
(* of remote surfaces that try to take it, unless one was already past its *)
(* check of cw_tx_active() when the key went down.                         *)
THEOREM LocalKeyWins == ArbSpec => []KeyWinsUnlessLate
<1>1. KeyRules => KeyWinsUnlessLate
  BY DEF KeyRules, Told, KeyWinsUnlessLate, KeyHolds
<1>2. QED BY <1>1, KeyRulesInit, KeyRulesNext, PTL DEF ArbSpec, ArbSafe

-----------------------------------------------------------------------------
(* What is left of the types: what the network last asked for, and who was *)
(* underway when the key went down.                                        *)
EarlyTyped == netMox \in BOOLEAN /\ early \subseteq Callers

LEMMA EarlyNext == EarlyTyped /\ [ArbNext]_arbVars => EarlyTyped'
<1> SUFFICES ASSUME EarlyTyped, [ArbNext]_arbVars PROVE EarlyTyped'
  OBVIOUS
<1> USE DEF EarlyTyped
<1>1. ASSUME NEW want_tx \in BOOLEAN, Ep2Frame(want_tx) PROVE EarlyTyped'
  BY <1>1, Zenon DEF Ep2Frame
<1>2. CASE Press
  BY <1>2 DEF Press, Poll, remote
<1>3. CASE Ep2Compare
  BY <1>3 DEF Ep2Compare
<1>4. ASSUME ~Press, ~Ep2Compare, \A want_tx \in BOOLEAN : ~Ep2Frame(want_tx)
      PROVE  UNCHANGED <<netMox, early>>
  BY <1>4 DEF ArbNext, MoveKey, AudioStep, Hold, HangOn, HangUp, StayUp, Poll,
              KeyCalls, KeyPosts, Release, PlayBlock, CaptureFails, RemoteStep,
              RemoteCalls, RemotePosts, AskPtt, ArbWorkerStep, arbVars, remote
<1>5. QED BY <1>1, <1>2, <1>3, <1>4

(* The types of the transmit path carry over, and those of the arbiter are *)
(* the bounds that the arguments above count on.                           *)
THEOREM ArbiterTypes == ArbSpec => []ArbTypeOK
<1>1. ArbInit => Init /\ ContactOK /\ EarlyTyped
  <2>1. ArbInit => contact \in BOOLEAN /\ netMox \in BOOLEAN
    BY Zenon DEF ArbInit
  <2>2. QED BY <2>1 DEF ArbInit, ContactOK, EarlyTyped
<1>2. TypeOK /\ Arithmetic /\ Silence /\ ContactOK /\ KeyRules /\ EarlyTyped =>
        ArbTypeOK
  BY Zenon DEF Arithmetic, Loops, Silence, ContactOK, KeyRules, EarlyTyped, ArbTypeOK
<1>3. QED
  BY <1>1, <1>2, ArbStepIsRadioTx, TypeInit, TypeNext, ArithmeticInit,
     ArithmeticNext, SilenceInit, SilenceNext, ContactNext, KeyRulesInit,
     KeyRulesNext, EarlyNext, PTL DEF ArbSpec, ArbSafe
=============================================================================
