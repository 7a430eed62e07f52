------------------------------ MODULE UsbGadget -----------------------------
(***************************************************************************)
(* The USB audio gadget of src/src/interfaces/usb_gadget.c: uac_init()     *)
(* builds a tree of nodes in configfs, binds it to the USB controller,     *)
(* opens the sound card that appears and starts the writer thread;         *)
(* uac_stop() takes all of it down.  Every step can fail, and the process  *)
(* can be killed between any two: the tree then stays, bound or not, for   *)
(* the next process to find.  Only a reboot clears it.                     *)
(*                                                                         *)
(* The ring between the audio thread and the writer has the design of      *)
(* IqRing; here the writer finds a period of samples whenever it does.     *)
(* Attribute files, strings and log lines are left out: a failure to write *)
(* one is ignored.  How the writer's pauses grow is, too.                  *)
(***************************************************************************)

EXTENDS Naturals, Sequences

CONSTANT Periods          \* UAC_PERIODS, what the PCM buffer holds

ASSUME GadgetAssumption == Periods \in Nat \ {0}

VARIABLES
  nodes,      \* what there is in configfs; "udc" stands for being bound
  proc,       \* where uac_init() or uac_stop() is, and "down", "up", "failed",
              \* "stopped" in between
  step,       \* how far create or destroy is
  undoTo,     \* where the process is after the destroy under way
  gadgetUp,   \* uac_gadget_up
  pcm,        \* uac_pcm_handle # NULL
  active,     \* uac_active
  writer,     \* the writer thread: "none", "loop", or "write" in writei()
  running,    \* uac_writer_running
  streak,     \* success_streak, up to Periods + 1
  draining,   \* host_was_draining
  buffered,   \* periods in the PCM buffer
  \* Histories.
  unlucky,    \* a step of this process's uac_init() has failed
  undoFailed, \* a step of its destroy has failed
  drained     \* the host has taken a period since the last failed write

flags      == <<gadgetUp, active, running>>
writing    == <<writer, streak, draining, buffered, drained>>
luck       == <<unlucky, undoFailed>>
going      == <<proc, step, undoTo>>
gadgetVars == <<nodes, going, flags, pcm, writing, luck>>

Nodes == {"root", "uac2.0", "acm.usb0", "c.1", "uac_link", "acm_link", "udc"}

(* The steps of uac_gadget_create() and of uac_gadget_destroy(), in order. *)
(* Neither the function acm.usb0 nor the root is ever removed.             *)
CreatePlan  == <<"root", "heal", "uac2.0", "acm.usb0", "c.1", "uac_link",
                 "acm_link", "udc">>
DestroyPlan == <<"udc", "uac_link", "acm_link", "c.1", "uac2.0">>

(* What makes uac_gadget_create() give up; other failures it ignores.      *)
Checked == {"root", "uac2.0", "acm.usb0", "udc"}

(* What must be there for x, and what keeps x from being removed.          *)
Needs(x) ==
  CASE x = "root"     -> {}
    [] x = "uac_link" -> {"c.1", "uac2.0"}
    [] x = "acm_link" -> {"c.1", "acm.usb0"}
    [] OTHER          -> {"root"}

Users(x) ==
  CASE x = "c.1"    -> {"uac_link", "acm_link"}
    [] x = "uac2.0" -> {"uac_link"}
    [] OTHER        -> {}

(* A gadget is bound once, and with a function.                            *)
Bindable == "udc" \notin nodes /\ nodes \intersect {"uac_link", "acm_link"} # {}

Possible(x) == Needs(x) \subseteq nodes /\ (x = "udc" => Bindable)

GadgetInit ==
  /\ nodes = {}
  /\ proc = "down" /\ step = 0 /\ undoTo = "down"
  /\ gadgetUp = FALSE /\ active = FALSE /\ running = FALSE
  /\ pcm = FALSE
  /\ writer = "none" /\ streak = 0 /\ draining = FALSE /\ buffered = 0
  /\ drained = FALSE
  /\ unlucky = FALSE /\ undoFailed = FALSE

-----------------------------------------------------------------------------
(* uac_gadget_create()                                                     *)

StartProcess ==
  /\ proc = "down"
  /\ proc' = "create"
  /\ step' = 1
  /\ unlucky' = FALSE
  /\ undoFailed' = FALSE
  /\ UNCHANGED <<nodes, undoTo, flags, pcm, writing>>

Creating(x) == proc = "create" /\ CreatePlan[step] = x

(* On to the next step; after the last one the sound card is opened.       *)
Created ==
  /\ step' = IF step < Len(CreatePlan) THEN step + 1 ELSE 0
  /\ proc' = IF step < Len(CreatePlan) THEN proc ELSE "open"

(* uac_init() returns -1.                                                  *)
GiveUp == proc' = "failed" /\ step' = 0

(* uac_gadget_up is set as soon as there is anything to clean up.          *)
UpOnceBound(x) == gadgetUp' = (gadgetUp \/ x = "udc")     \* mutant: too late
UpOnceRooted(x) == gadgetUp' = (gadgetUp \/ x = "root")

MakeNode ==
  \E x \in Nodes :
    /\ Creating(x)
    /\ x \in nodes \ {"udc"} \/ Possible(x)
    /\ nodes' = nodes \union {x}
    /\ UpOnceRooted(x)
    /\ Created
    /\ UNCHANGED <<undoTo, active, running, pcm, writing, luck>>

(* What exists does not fail to be made.                                   *)
MissNode ==
  \E x \in Nodes :
    /\ Creating(x)
    /\ x \notin nodes \ {"udc"}
    /\ unlucky' = (unlucky \/ Possible(x))
    /\ IF x \in Checked THEN GiveUp ELSE Created
    /\ UNCHANGED <<nodes, undoTo, flags, pcm, writing, undoFailed>>

HealNothing ==                  \* mutant: what a killed process bound stays
  /\ Creating("heal")
  /\ Created
  /\ UNCHANGED <<nodes, undoTo, flags, pcm, writing, luck>>

(* Unbind what a killed process left bound.                                *)
Heal ==
  /\ Creating("heal")
  /\ \/ nodes' = nodes \ {"udc"} /\ unlucky' = unlucky
     \/ "udc" \in nodes /\ nodes' = nodes /\ unlucky' = TRUE
  /\ Created
  /\ UNCHANGED <<undoTo, flags, pcm, writing, undoFailed>>

-----------------------------------------------------------------------------
(* uac_init() after that                                                   *)

DestroyThen(to) ==
  /\ proc' = "destroy"
  /\ step' = 1
  /\ undoTo' = to

(* The card is there while the gadget is bound with its audio function.    *)
Card == {"uac_link", "udc"} \subseteq nodes

OpenPcm ==
  /\ proc = "open"
  /\ Card
  /\ proc' = "start"
  /\ pcm' = TRUE
  /\ buffered' = 0
  /\ UNCHANGED <<nodes, step, undoTo, flags, writer, streak, draining, drained, luck>>

MissPcm ==
  /\ proc = "open"
  /\ DestroyThen("failed")
  /\ unlucky' = (unlucky \/ Card)
  /\ UNCHANGED <<nodes, flags, pcm, writing, undoFailed>>

StartWriter ==
  /\ proc = "start"
  /\ proc' = "up"
  /\ running' = TRUE
  /\ writer' = "loop"
  /\ streak' = 0 /\ draining' = FALSE /\ drained' = FALSE
  /\ active' = TRUE
  /\ UNCHANGED <<nodes, step, undoTo, gadgetUp, pcm, buffered, luck>>

MissWriter ==
  /\ proc = "start"
  /\ pcm' = FALSE
  /\ DestroyThen("failed")
  /\ unlucky' = TRUE
  /\ UNCHANGED <<nodes, flags, writing, undoFailed>>

-----------------------------------------------------------------------------
(* uac_gadget_destroy()                                                    *)

(* Onwards, whether the step succeeded or not.                             *)
Undone ==
  IF step < Len(DestroyPlan)
  THEN step' = step + 1 /\ UNCHANGED <<proc, undoTo, gadgetUp>>
  ELSE step' = 0 /\ proc' = undoTo /\ undoTo' = "down" /\ gadgetUp' = FALSE

(* The kernel unbinds a gadget whose function is unlinked.                 *)
RemoveNode ==
  /\ proc = "destroy"
  /\ LET x == DestroyPlan[step]
     IN  /\ Users(x) \intersect nodes = {}
         /\ nodes' = nodes \ (IF x \in {"uac_link", "acm_link"} THEN {x, "udc"} ELSE {x})
  /\ Undone
  /\ UNCHANGED <<active, running, pcm, writing, luck>>

KeepNode ==
  /\ proc = "destroy"
  /\ LET x == DestroyPlan[step]
     IN  /\ x \in nodes
         /\ undoFailed' = (undoFailed \/ Users(x) \intersect nodes = {})
  /\ Undone
  /\ UNCHANGED <<nodes, active, running, pcm, writing, unlucky>>

-----------------------------------------------------------------------------
(* uac_stop(), called whether uac_init() succeeded or not                  *)

Stop ==
  /\ proc \in {"up", "failed"}
  /\ proc' = "join"
  /\ active' = FALSE
  /\ running' = FALSE
  /\ UNCHANGED <<nodes, step, undoTo, gadgetUp, pcm, writing, luck>>

JoinNobody ==                   \* mutant: the writer is not waited for
  /\ proc = "join"
  /\ pcm' = FALSE
  /\ IF gadgetUp THEN DestroyThen("stopped")
                 ELSE proc' = "stopped" /\ UNCHANGED <<step, undoTo>>
  /\ UNCHANGED <<nodes, flags, writing, luck>>

JoinAndClose ==
  /\ proc = "join"
  /\ writer = "none"
  /\ pcm' = FALSE
  /\ IF gadgetUp THEN DestroyThen("stopped")
                 ELSE proc' = "stopped" /\ UNCHANGED <<step, undoTo>>
  /\ UNCHANGED <<nodes, flags, writing, luck>>

-----------------------------------------------------------------------------
(* uac_writer_thread()                                                     *)

TakePeriod ==
  /\ writer = "loop"
  /\ running
  /\ writer' = "write"
  /\ UNCHANGED <<nodes, going, flags, pcm, streak, draining, buffered, drained, luck>>

LeaveLoop ==                    \* also from the pauses after a failure
  /\ writer = "loop"
  /\ ~running
  /\ writer' = "none"
  /\ UNCHANGED <<nodes, going, flags, pcm, streak, draining, buffered, drained, luck>>

(* Mutant: as many successes as the buffer has periods are enough.         *)
ProvenFull(n) == n >= Periods
Proven(n) == n > Periods

(* There was room.  An underrun, which snd_pcm_prepare() mends before the  *)
(* second try, found the buffer empty.                                     *)
WriteSucceeds ==
  /\ writer = "write"
  /\ buffered < Periods
  /\ buffered' = buffered + 1
  /\ streak' = IF streak > Periods THEN streak ELSE streak + 1
  /\ draining' = (draining \/ Proven(streak'))
  /\ writer' = "loop"
  /\ UNCHANGED <<nodes, going, flags, pcm, drained, luck>>

(* Nobody made room in time, or any other error; recovering may empty the  *)
(* buffer.                                                                 *)
WriteFails ==
  /\ writer = "write"
  /\ \/ buffered' = buffered
     \/ buffered' = 0
  /\ streak' = 0
  /\ draining' = FALSE
  /\ drained' = FALSE
  /\ writer' = "loop"
  /\ UNCHANGED <<nodes, going, flags, pcm, luck>>

-----------------------------------------------------------------------------
(* The world outside                                                       *)

HostTakes ==
  /\ pcm
  /\ buffered > 0
  /\ buffered' = buffered - 1
  /\ drained' = TRUE
  /\ UNCHANGED <<nodes, going, flags, pcm, writer, streak, draining, luck>>

(* SIGKILL or a crash at any time, or the end of the process after         *)
(* uac_stop(): what is in memory is lost, the kernel closes the PCM.       *)
EndProcess ==
  /\ proc # "down"
  /\ proc' = "down" /\ step' = 0 /\ undoTo' = "down"
  /\ gadgetUp' = FALSE /\ active' = FALSE /\ running' = FALSE
  /\ pcm' = FALSE
  /\ writer' = "none" /\ streak' = 0 /\ draining' = FALSE /\ buffered' = 0
  /\ drained' = FALSE
  /\ UNCHANGED <<nodes, luck>>

Reboot ==
  /\ proc = "down"
  /\ nodes' = {}
  /\ UNCHANGED <<going, flags, pcm, writing, luck>>

-----------------------------------------------------------------------------
InitStep == MakeNode \/ MissNode \/ Heal \/ OpenPcm \/ MissPcm
               \/ StartWriter \/ MissWriter
StopStep == JoinAndClose \/ RemoveNode \/ KeepNode
WriterStep == TakePeriod \/ LeaveLoop \/ WriteSucceeds \/ WriteFails
OutsideStep == StartProcess \/ Stop \/ HostTakes \/ EndProcess \/ Reboot

GadgetNext == InitStep \/ StopStep \/ WriterStep \/ OutsideStep

GadgetSpec == GadgetInit /\ [][GadgetNext]_gadgetVars

-----------------------------------------------------------------------------
GadgetTypeOK ==
  /\ nodes \subseteq Nodes
  /\ proc \in {"down", "create", "open", "start", "up", "failed", "join",
               "destroy", "stopped"}
  /\ step \in 0 .. Len(CreatePlan)
  /\ undoTo \in {"down", "failed", "stopped"}
  /\ gadgetUp \in BOOLEAN /\ active \in BOOLEAN /\ running \in BOOLEAN
  /\ pcm \in BOOLEAN /\ draining \in BOOLEAN
  /\ writer \in {"none", "loop", "write"}
  /\ streak \in 0 .. Periods + 1
  /\ buffered \in 0 .. Periods
  /\ unlucky \in BOOLEAN /\ undoFailed \in BOOLEAN /\ drained \in BOOLEAN

(* Wherever the processes before were killed, and whatever failed in them, *)
(* uac_init() fails only by a failure of its own: never because of what    *)
(* they left (the self-heal of usb_gadget.c:176-198).                      *)
HealsItself == proc = "failed" => unlucky

(* After uac_stop() nothing is bound and nothing is left but the root and  *)
(* the ACM function, also when uac_init() had failed half-way, unless a    *)
(* step of the destroy itself failed.                                      *)
LeavesNothingBound ==
  proc = "stopped" /\ ~undoFailed => nodes \subseteq {"root", "acm.usb0"}

(* The PCM is open only while the card behind it exists, the writer runs   *)
(* only while the PCM is open, and samples are queued only while it runs:  *)
(* nothing is pulled from under a write that is blocked on the host.       *)
WritesToLiveGadget ==
  /\ pcm => Card
  /\ writer # "none" => pcm
  /\ active => writer # "none"

(* "Require more consecutive successes than UAC_PERIODS before trusting it *)
(* as proof of a draining host": the host really has taken something.      *)
BelievesOnlyAHost == draining => drained

=============================================================================
