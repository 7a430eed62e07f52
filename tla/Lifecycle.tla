------------------------------ MODULE Lifecycle -----------------------------
(***************************************************************************)
(* The life of the process: main() of src/src/minibitx.c brings the radio  *)
(* up step by step, idles until a signal, parks the transmitter, and takes *)
(* everything down, while threads that are already or still running call   *)
(* radio_set_tx().  The transmit path is that of RadioTx.                  *)
(*                                                                         *)
(* The process starts with the devices as the last one left them, which    *)
(* may have been killed in mid-transmission: the mixer keeps its levels,   *)
(* the clocks run on, the pins hold or float.  When main() returns, every  *)
(* thread ends where it is.  A sleep may take longer than asked, and less  *)
(* only if a signal cuts it short.  Up to two sequences of the worker, the *)
(* one it is in and the next, may be left when main() goes to sleep for 50 *)
(* ms.  The comment there reckons one of some 25 ms; that both fit is this *)
(* model's assumption.                                                     *)
(***************************************************************************)

EXTENDS RadioTx, Sequences

CONSTANT Surfaces         \* the control surfaces that call radio_set_tx()

ASSUME LifeAssumption ==
  /\ Surfaces \subseteq {"hamlib", "hpsdr", "cat"}
  /\ Callers = Surfaces \union {"main", "key"}

VARIABLES
  main,       \* where main() is
  step,       \* how many surfaces it has brought up, or taken down
  stage,      \* per surface: "off", "up", or "last" when it was stopped but
              \* its thread, not joined, may still serve one command
  audio,      \* the audio thread: "none", "run", "polled" once it has polled
              \* the key in this pass of its loop, "ended"
  running,    \* g_running of sound.c
  owed,       \* the sequences of the worker that main's sleep has to cover
  \* Histories.
  early,      \* a request to transmit came before the codec was set up
  late        \* one came after main had asked to park, or a second signal
              \* cut its sleep short

mainVars == <<main, step>>
threads  == <<stage, audio, running>>
past     == <<early, late>>
lifeVars == <<vars, mainVars, threads, owed, past>>

(* The order in which main() starts them and in which it stops them.  The  *)
(* telemetry stream and the USB audio gadget, which come in between, call  *)
(* nobody, and no failure of theirs stops main().  A surface that is not   *)
(* in Surfaces is one that never comes up.                                 *)
BringUp  == <<"hamlib", "hpsdr", "cat">>
TearDown == <<"cat", "hpsdr", "hamlib">>

BeforeCodec == {"pins", "clocks", "bring_up", "codec", "drive"}
AfterPark   == {"nap", "halt", "join", "take_down", "exited"}
Ends        == {"no_pins", "failed", "exited"}
Mains       == BeforeCodec \union AfterPark \union Ends
                 \union {"sound", "idle", "park", "post"}

LifeInit ==
  /\ NobodyCalled
  /\ hw \in Hardware
  /\ main = "pins"
  /\ step = 0
  /\ stage = [c \in Surfaces |-> "off"]
  /\ audio = "none"
  /\ running = FALSE
  /\ owed = 0
  /\ early = FALSE
  /\ late = FALSE

-----------------------------------------------------------------------------
(* Bring-up                                                                *)

Proceed(from, to) == main = from /\ main' = to

(* Without its pins the process gives up; some of them may be driven low   *)
(* by then.                                                                *)
ClaimPins ==
  /\ Proceed("pins", "clocks")
  /\ hw' = [hw EXCEPT !.ptt = 0, !.relay = 0]
  /\ UNCHANGED <<mailbox, calls, worker, on, step, threads, owed, past>>

MissPins ==
  /\ Proceed("pins", "no_pins")
  /\ \E p \in {0, hw.ptt}, r \in {0, hw.relay} :
       hw' = [hw EXCEPT !.ptt = p, !.relay = r]
  /\ UNCHANGED <<mailbox, calls, worker, on, step, threads, owed, past>>

StartClocks ==
  /\ Proceed("clocks", "bring_up")
  /\ hw' = [hw EXCEPT !.clk1 = "rx"]
  /\ UNCHANGED <<mailbox, calls, worker, on, step, threads, owed, past>>

Starting(c) ==
  /\ main = "bring_up"
  /\ c = BringUp[step + 1]
  /\ step' = step + 1
  /\ UNCHANGED <<vars, audio, running, owed, past>>

Started == main' = IF step + 1 = Len(BringUp) THEN "codec" ELSE main

StartNext ==
  \E c \in Surfaces :
    Starting(c) /\ Started /\ stage' = [stage EXCEPT ![c] = "up"]

(* All but HPSDR may be unavailable.                                       *)
MissNext  == \E c \in {"hamlib", "cat"} : Starting(c) /\ Started /\ UNCHANGED stage
MissHpsdr == Starting("hpsdr") /\ main' = "failed" /\ UNCHANGED stage

(* setup_audio_codec(): the receiver is made to hear, whatever the worker  *)
(* has made of the codec by now, and the exciter feed is muted.            *)
UnmuteReceiver ==
  /\ Proceed("codec", "drive")
  /\ hw' = [hw EXCEPT !.capture = 1]
  /\ UNCHANGED <<mailbox, calls, worker, on, step, threads, owed, past>>

LeaveDrive ==                   \* mutant: the exciter feed is left as found
  /\ Proceed("drive", "sound")
  /\ UNCHANGED <<vars, step, threads, owed, past>>

MuteDrive ==
  /\ Proceed("drive", "sound")
  /\ hw' = [hw EXCEPT !.drive = 0]
  /\ UNCHANGED <<mailbox, calls, worker, on, step, threads, owed, past>>

(* sound_thread_start()                                                    *)
StartSound ==
  /\ Proceed("sound", "idle")
  /\ audio' = "run"
  /\ running' = TRUE
  /\ UNCHANGED <<vars, step, stage, owed, past>>

MissSound ==
  /\ Proceed("sound", "failed")
  /\ UNCHANGED <<vars, step, threads, owed, past>>

-----------------------------------------------------------------------------
(* Shutdown                                                                *)

(* The idle loop sees shutdown_requested.                                  *)
Signal ==
  /\ Proceed("idle", "park")
  /\ UNCHANGED <<vars, step, threads, owed, past>>

Park ==
  /\ Proceed("park", "post")
  /\ SetTx("main", FALSE)
  /\ UNCHANGED <<step, threads, owed, past>>

(* The worker has to finish what it is doing and then what it is asked now.*)
PostPark ==
  /\ Proceed("post", "nap")
  /\ Post("main")
  /\ owed' = IF worker \in Waiting THEN 1 ELSE 2
  /\ UNCHANGED <<step, threads, past>>

WakeAtOnce ==                   \* mutant: no sleep
  /\ Proceed("nap", "halt")
  /\ owed' = 0
  /\ UNCHANGED <<vars, step, threads, past>>

WakeUp ==
  /\ Proceed("nap", "halt")
  /\ owed = 0
  /\ UNCHANGED <<vars, step, threads, owed, past>>

(* usleep() returns early when the signal arrives once more.               *)
SignalAgain ==
  /\ Proceed("nap", "halt")
  /\ owed > 0
  /\ owed' = 0
  /\ late' = TRUE
  /\ UNCHANGED <<vars, step, threads, early>>

(* sound_thread_stop()                                                     *)
StopSound ==
  /\ Proceed("halt", "join")
  /\ running' = FALSE
  /\ UNCHANGED <<vars, step, stage, audio, owed, past>>

JoinSound ==
  /\ Proceed("join", "take_down")
  /\ audio = "ended"
  /\ step' = 0
  /\ UNCHANGED <<vars, threads, owed, past>>

(* Stopping what never came up does nothing.  The threads of the others    *)
(* look at their flag when they come back from reading, and so may serve   *)
(* one more command.                                                       *)
StopNext ==
  /\ main = "take_down"
  /\ step' = step + 1
  /\ stage' = [c \in Surfaces |-> IF c = TearDown[step'] /\ stage[c] = "up"
                                   THEN "last" ELSE stage[c]]
  /\ main' = IF step' = Len(TearDown) THEN "exited" ELSE main
  /\ UNCHANGED <<vars, audio, running, owed, past>>

-----------------------------------------------------------------------------
(* The other threads                                                       *)

(* What the histories make of the request that c posts.                    *)
Remember(c) ==
  /\ early' = (early \/ (want[c] /\ main \in BeforeCodec))
  /\ late' = (late \/ (want[c] /\ main \in AfterPark))

SurfaceCalls(c) ==
  /\ stage[c] # "off"
  /\ \E tx_on \in BOOLEAN : SetTx(c, tx_on)
  /\ stage' = [stage EXCEPT ![c] = IF @ = "last" THEN "off" ELSE @]
  /\ UNCHANGED <<mainVars, audio, running, owed, past>>

(* cw_poll_key(), once in every pass of audio_loop().                      *)
KeyCalls ==
  /\ audio = "run"
  /\ audio' = "polled"
  /\ \E tx_on \in BOOLEAN : SetTx("key", tx_on)
  /\ UNCHANGED <<mainVars, stage, running, owed, past>>

NextPass ==
  /\ audio = "polled"
  /\ caller["key"] = "idle"
  /\ running
  /\ audio' = "run"
  /\ UNCHANGED <<vars, mainVars, stage, running, owed, past>>

OtherPosts(c) ==
  /\ Post(c)
  /\ Remember(c)
  /\ UNCHANGED <<mainVars, threads, owed>>

CaptureEnds ==                  \* recovery from an overrun failed
  /\ audio = "run"
  /\ caller["key"] = "idle"
  /\ audio' = "ended"
  /\ UNCHANGED <<vars, mainVars, stage, running, owed, past>>

LeaveLoopUnasked ==             \* mutant: the loop ends on failure only
  FALSE /\ UNCHANGED lifeVars

LeaveLoop ==
  /\ audio \in {"run", "polled"}
  /\ caller["key"] = "idle"
  /\ ~running
  /\ audio' = "ended"
  /\ UNCHANGED <<vars, mainVars, stage, running, owed, past>>

OneLess(n) == IF n > 0 THEN n - 1 ELSE 0

WorkerGoesOn ==
  /\ WorkerStep
  /\ owed' = IF worker' = "wait" THEN OneLess(owed) ELSE owed
  /\ UNCHANGED <<mainVars, threads, past>>

-----------------------------------------------------------------------------
MainGoesOn ==
  \/ ClaimPins \/ MissPins \/ StartClocks \/ StartNext \/ MissNext \/ MissHpsdr
  \/ UnmuteReceiver \/ MuteDrive \/ StartSound \/ MissSound
  \/ Park \/ PostPark \/ WakeUp \/ StopSound \/ JoinSound \/ StopNext

OtherStep ==
  \/ \E c \in Surfaces : SurfaceCalls(c)
  \/ \E c \in Callers \ {"main"} : OtherPosts(c)
  \/ KeyCalls
  \/ NextPass
  \/ CaptureEnds
  \/ LeaveLoop
  \/ WorkerGoesOn

(* main() returns, and every thread ends with it.                          *)
LifeNext ==
  /\ main \notin Ends
  /\ MainGoesOn \/ Signal \/ SignalAgain \/ OtherStep

(* main, the worker and the audio thread run; nobody has to send a signal, *)
(* press the key or give a command.                                        *)
LifeFairness ==
  /\ WF_lifeVars(main \notin Ends /\ MainGoesOn)
  /\ WF_lifeVars(main \notin Ends /\ WorkerGoesOn)
  /\ WF_lifeVars(main \notin Ends /\ (LeaveLoop \/ OtherPosts("key")))

LifeSpec == LifeInit /\ [][LifeNext]_lifeVars /\ LifeFairness

-----------------------------------------------------------------------------
LifeTypeOK ==
  /\ TypeOK
  /\ main \in Mains
  /\ step \in 0 .. Len(BringUp)
  /\ stage \in [Surfaces -> {"off", "up", "last"}]
  /\ audio \in {"none", "run", "polled", "ended"}
  /\ running \in BOOLEAN
  /\ owed \in 0 .. 2
  /\ {early, late} \subseteq BOOLEAN

(* The radio is parked when main() returns after a signal, whatever it was *)
(* doing when the signal came and whoever called meanwhile, unless a       *)
(* request to transmit came after main's own or a second signal cut its    *)
(* sleep short (minibitx.c:199-206).                                       *)
ParkedUnlessKeyedLate ==
  main = "exited" /\ ~late =>
    hw.ptt = 0 /\ hw.relay = 0 /\ hw.drive = 0

(* However the last process ended, nothing is switched hot from the end of *)
(* the codec's set-up to the end of the process, and nothing is on the air *)
(* before, unless somebody keyed the radio before it was set up.           *)
ColdUnlessKeyedEarly ==
  /\ main \notin {"pins", "no_pins"} /\ main \in BeforeCodec /\ ~early =>
       hw.ptt = 0 /\ hw.relay = 0
  /\ main \notin BeforeCodec \union {"failed", "no_pins"} /\ ~early => NoHotSwitch

(* A signal ends the process, though surfaces may call as they please.     *)
ShutsDown == main = "park" ~> main = "exited"

=============================================================================
