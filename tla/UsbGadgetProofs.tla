--------------------------- MODULE UsbGadgetProofs --------------------------
(***************************************************************************)
(* The USB gadget of UsbGadget, for a PCM buffer of any size.              *)
(*                                                                         *)
(* Two arguments run side by side.  What create and destroy have done so   *)
(* far is known from their step, unless one of them was out of luck; so    *)
(* nothing that a dead process left can be in the way.  And the writer     *)
(* lives between the opening of the PCM and its closing, so that its run   *)
(* of successes fits into the buffer while no host takes anything.         *)
(*                                                                         *)
(* CatPort is a behaviour of UsbGadget, so all of this holds of both       *)
(* together; what is proved of the port itself comes at the end.           *)
(***************************************************************************)

EXTENDS CatPort, TLAPS

(* How far uac_gadget_create() has come, if it was lucky.                  *)
Building ==
  proc = "create" =>
    /\ step \in 1 .. 8
    /\ step > 1 => "root" \in nodes /\ gadgetUp
    /\ ~unlucky =>
         /\ step > 2 => "udc" \notin nodes
         /\ step > 3 => "uac2.0" \in nodes
         /\ step > 5 => "c.1" \in nodes
         /\ step > 6 => "uac_link" \in nodes

Opening == proc = "open" /\ ~unlucky => Card

Failing == proc = "failed" \/ (proc = "destroy" /\ undoTo = "failed") => unlucky

HealInv == Building /\ Opening /\ Failing

(* Everything is below the root.                                           *)
Rooted == nodes # {} => "root" \in nodes

Remains == {"root", "acm.usb0"}

(* How far uac_gadget_destroy() has come, if no step of it failed.         *)
Undoing ==
  proc = "destroy" =>
    /\ step \in 1 .. 5
    /\ ~undoFailed =>
         /\ step > 1 => "udc" \notin nodes
         /\ step > 2 => "uac_link" \notin nodes
         /\ step > 3 => "acm_link" \notin nodes
         /\ step > 4 => "c.1" \notin nodes

(* uac_gadget_up is set whenever there is something to take down.          *)
Owning ==
  /\ proc \in {"open", "start", "up"} => gadgetUp
  /\ proc = "stopped" => ~gadgetUp
  /\ proc \in {"failed", "join", "stopped"} /\ ~gadgetUp /\ ~undoFailed =>
       nodes \subseteq Remains

CleanInv == Rooted /\ Undoing /\ Owning

(* Who lives when.                                                         *)
Living ==
  /\ pcm => proc \in {"start", "up", "join"}
  /\ proc = "start" => pcm /\ writer = "none"
  /\ writer # "none" => proc \in {"up", "join"}
  /\ active => proc = "up" /\ running
  /\ running => active

LiveInv == Living /\ WritesToLiveGadget

(* Without a host, what was written since the last failure is still there. *)
Counting ==
  /\ writer # "none" /\ ~drained => streak <= buffered
  /\ BelievesOnlyAHost

IInv == GadgetTypeOK /\ HealInv /\ CleanInv /\ LiveInv /\ Counting

-----------------------------------------------------------------------------
(* What the plans say, step by step.                                       *)
LEMMA Plans ==
  /\ Len(CreatePlan) = 8
  /\ Len(DestroyPlan) = 5
  /\ \A k \in 1 .. 8 :
       \/ k = 1 /\ CreatePlan[k] = "root"
       \/ k = 2 /\ CreatePlan[k] = "heal"
       \/ k = 3 /\ CreatePlan[k] = "uac2.0"
       \/ k = 4 /\ CreatePlan[k] = "acm.usb0"
       \/ k = 5 /\ CreatePlan[k] = "c.1"
       \/ k = 6 /\ CreatePlan[k] = "uac_link"
       \/ k = 7 /\ CreatePlan[k] = "acm_link"
       \/ k = 8 /\ CreatePlan[k] = "udc"
  /\ \A k \in 1 .. 5 :
       \/ k = 1 /\ DestroyPlan[k] = "udc"
       \/ k = 2 /\ DestroyPlan[k] = "uac_link"
       \/ k = 3 /\ DestroyPlan[k] = "acm_link"
       \/ k = 4 /\ DestroyPlan[k] = "c.1"
       \/ k = 5 /\ DestroyPlan[k] = "uac2.0"
  BY DEF CreatePlan, DestroyPlan

LEMMA Dependences ==
  /\ Needs("root") = {}
  /\ Needs("uac_link") = {"c.1", "uac2.0"}
  /\ Needs("acm_link") = {"c.1", "acm.usb0"}
  /\ \A x \in {"uac2.0", "acm.usb0", "c.1", "udc"} : Needs(x) = {"root"}
  /\ Users("c.1") = {"uac_link", "acm_link"}
  /\ Users("uac2.0") = {"uac_link"}
  /\ \A x \in {"udc", "uac_link", "acm_link"} : Users(x) = {}
  BY DEF Needs, Users

(* The gadget starts with nothing.                                         *)
LEMMA StartsClean == GadgetInit => IInv
<1> SUFFICES ASSUME GadgetInit PROVE IInv
  OBVIOUS
<1>1. /\ gadgetUp \in BOOLEAN /\ ~gadgetUp /\ active \in BOOLEAN /\ ~active
      /\ running \in BOOLEAN /\ ~running /\ pcm \in BOOLEAN /\ ~pcm
      /\ draining \in BOOLEAN /\ ~draining /\ drained \in BOOLEAN
      /\ unlucky \in BOOLEAN /\ undoFailed \in BOOLEAN
  BY Zenon DEF GadgetInit
<1> QED
  BY <1>1, GadgetAssumption, Plans DEF GadgetInit, IInv, GadgetTypeOK, HealInv, Building, Opening,
       Failing, CleanInv, Rooted, Undoing, Owning, LiveInv, Living,
       WritesToLiveGadget, Counting, BelievesOnlyAHost

(* Types.                                                                  *)
LEMMA KeepsTypes == GadgetTypeOK /\ [GadgetNext]_gadgetVars => GadgetTypeOK'
<1> SUFFICES ASSUME GadgetTypeOK, [GadgetNext]_gadgetVars
             PROVE  GadgetTypeOK'
  OBVIOUS
<1> USE GadgetAssumption, Plans DEF GadgetTypeOK, Nodes, flags, writing, luck, going,
      Created, GiveUp, DestroyThen
<1>1. CASE MakeNode
  BY <1>1 DEF MakeNode, Creating, UpOnceRooted
<1>2. CASE MissNode
  BY <1>2 DEF MissNode, Creating
<1>3. CASE Heal
  <2>1. unlucky' \in BOOLEAN
    BY <1>3, Zenon DEF Heal
  <2>2. nodes' \subseteq nodes
    BY <1>3, Zenon DEF Heal
  <2>3. Created /\ UNCHANGED <<undoTo, flags, pcm, writing, undoFailed>>
    BY <1>3 DEF Heal
  <2> QED
    BY <2>1, <2>2, <2>3
<1>4. CASE OpenPcm
  <2>1. pcm' \in BOOLEAN
    BY <1>4, Zenon DEF OpenPcm
  <2> QED
    BY <1>4, <2>1 DEF OpenPcm
<1>5. CASE MissPcm
  BY <1>5 DEF MissPcm
<1>6. CASE StartWriter
  <2>1. /\ running' \in BOOLEAN /\ draining' \in BOOLEAN /\ drained' \in BOOLEAN
        /\ active' \in BOOLEAN
    BY <1>6, Zenon DEF StartWriter
  <2> QED
    BY <1>6, <2>1 DEF StartWriter
<1>7. CASE MissWriter
  <2>1. pcm' \in BOOLEAN /\ unlucky' \in BOOLEAN
    BY <1>7, Zenon DEF MissWriter
  <2> QED
    BY <1>7, <2>1 DEF MissWriter
<1>8. CASE JoinAndClose
  <2>1. pcm' \in BOOLEAN
    BY <1>8, Zenon DEF JoinAndClose
  <2> QED
    BY <1>8, <2>1 DEF JoinAndClose
<1>9. ASSUME Undone, proc = "destroy"
      PROVE  /\ gadgetUp' \in BOOLEAN
             /\ step' \in 0 .. Len(CreatePlan)
             /\ proc' \in {"destroy", "down", "failed", "stopped"}
             /\ undoTo' \in {"down", "failed", "stopped"}
  <2>1. gadgetUp' \in BOOLEAN
    BY <1>9, Zenon DEF Undone
  <2> QED
    BY <1>9, <2>1 DEF Undone
<1>10. CASE RemoveNode
  BY <1>9, <1>10 DEF RemoveNode
<1>11. CASE KeepNode
  BY <1>9, <1>11 DEF KeepNode
<1>12. CASE TakePeriod
  BY <1>12 DEF TakePeriod
<1>13. CASE LeaveLoop
  BY <1>13 DEF LeaveLoop
<1>14. CASE WriteSucceeds
  BY <1>14 DEF WriteSucceeds, Proven
<1>15. CASE WriteFails
  <2>1. draining' \in BOOLEAN /\ drained' \in BOOLEAN
    BY <1>15, Zenon DEF WriteFails
  <2> QED
    BY <1>15, <2>1 DEF WriteFails
<1>16. CASE StartProcess
  <2>1. unlucky' \in BOOLEAN /\ undoFailed' \in BOOLEAN
    BY <1>16, Zenon DEF StartProcess
  <2> QED
    BY <1>16, <2>1 DEF StartProcess
<1>17. CASE Stop
  <2>1. active' \in BOOLEAN /\ running' \in BOOLEAN
    BY <1>17, Zenon DEF Stop
  <2> QED
    BY <1>17, <2>1 DEF Stop
<1>18. CASE HostTakes
  <2>1. drained' \in BOOLEAN
    BY <1>18, Zenon DEF HostTakes
  <2> QED
    BY <1>18, <2>1 DEF HostTakes
<1>19. CASE EndProcess
  <2>1. /\ gadgetUp' \in BOOLEAN /\ active' \in BOOLEAN /\ running' \in BOOLEAN
        /\ pcm' \in BOOLEAN /\ draining' \in BOOLEAN /\ drained' \in BOOLEAN
    BY <1>19, Zenon DEF EndProcess
  <2> QED
    BY <1>19, <2>1 DEF EndProcess
<1>20. CASE Reboot
  BY <1>20 DEF Reboot
<1>21. CASE UNCHANGED gadgetVars
  BY <1>21 DEF gadgetVars
<1> QED
  BY <1>1, <1>2, <1>3, <1>4, <1>5, <1>6, <1>7, <1>8, <1>10, <1>11, <1>12, <1>13, <1>14,
     <1>15, <1>16, <1>17, <1>18, <1>19, <1>20, <1>21
     DEF GadgetNext, InitStep, StopStep, WriterStep, OutsideStep

(* create is where its step says, and it fails by bad luck only.           *)
LEMMA KeepsHealing == GadgetTypeOK /\ HealInv /\ [GadgetNext]_gadgetVars => HealInv'
<1> SUFFICES ASSUME GadgetTypeOK, HealInv, [GadgetNext]_gadgetVars
             PROVE  HealInv'
  OBVIOUS
<1> USE Plans, Dependences DEF HealInv, Building, Opening, Failing, Card, GadgetTypeOK,
      flags, writing, luck, going
<1>1. CASE MakeNode
  <2> PICK x \in Nodes :
        /\ Creating(x)
        /\ nodes' = nodes \union {x}
        /\ gadgetUp \/ x = "root" => gadgetUp'
        /\ Created
        /\ unlucky' = unlucky /\ undoTo' = undoTo
    BY <1>1, Zenon DEF MakeNode, UpOnceRooted
  <2>1. step \in 1 .. 8 /\ x = CreatePlan[step] /\ proc = "create"
    BY DEF Creating
  <2>2. Failing'
    BY <2>1 DEF Created
  <2>3. CASE step = 8
    BY <2>1, <2>2, <2>3 DEF Created
  <2>4. CASE step < 8
    <3>1. proc' = "create" /\ step' = step + 1
      BY <2>1, <2>4 DEF Created
    <3>2. "root" \in nodes' /\ gadgetUp'
      BY <2>1, <2>4
    <3>3. ~unlucky' => /\ step' > 2 => "udc" \notin nodes'
                       /\ step' > 3 => "uac2.0" \in nodes'
                       /\ step' > 5 => "c.1" \in nodes'
                       /\ step' > 6 => "uac_link" \in nodes'
      BY <2>1, <2>4, <3>1 DEF Nodes
    <3>4. Building'
      BY <2>1, <2>4, <3>1, <3>2, <3>3
    <3>5. Opening'
      BY <3>1
    <3> QED
      BY <2>2, <3>4, <3>5 DEF HealInv
  <2> QED
    BY <2>1, <2>3, <2>4
<1>2. CASE MissNode
  <2> PICK x \in Nodes :
        /\ Creating(x)
        /\ x \notin nodes \ {"udc"}
        /\ unlucky \/ Possible(x) => unlucky'
        /\ IF x \in Checked THEN GiveUp ELSE Created
        /\ nodes' = nodes /\ gadgetUp' = gadgetUp /\ undoTo' = undoTo
    BY <1>2, Zenon DEF MissNode
  <2>1. step \in 1 .. 8 /\ x = CreatePlan[step] /\ proc = "create"
    BY DEF Creating
  <2>2. x \in Checked => unlucky'
    BY <2>1 DEF Checked, Possible, Bindable
  <2>3. CASE x \in Checked
    BY <2>1, <2>2, <2>3 DEF GiveUp
  <2>4. CASE x \notin Checked
    <3>1. proc' = "create" /\ step' = step + 1 /\ step \in {5, 6, 7}
      BY <2>1, <2>4 DEF Created, Checked, Nodes
    <3>2. "root" \in nodes' /\ gadgetUp'
      BY <2>1, <3>1
    <3>3. ~unlucky' => step = 7
      BY <2>1, <3>1 DEF Possible
    <3>4. Building'
      BY <2>1, <3>1, <3>2, <3>3
    <3>5. Opening' /\ Failing'
      BY <3>1
    <3> QED
      BY <3>4, <3>5 DEF HealInv
  <2> QED
    BY <2>3, <2>4
<1>3. CASE Heal
  <2>1. \/ nodes' = nodes \ {"udc"} /\ unlucky' = unlucky
        \/ unlucky' \in BOOLEAN /\ unlucky' /\ nodes' = nodes
    BY <1>3, Zenon DEF Heal
  <2>2. /\ Creating("heal") /\ Created
        /\ gadgetUp' = gadgetUp /\ undoTo' = undoTo
    BY <1>3 DEF Heal
  <2> QED
    BY <2>1, <2>2 DEF Creating, Created
<1>4. CASE OpenPcm
  BY <1>4 DEF OpenPcm
<1>5. CASE MissPcm
  BY <1>5 DEF MissPcm, DestroyThen
<1>6. CASE StartWriter
  BY <1>6 DEF StartWriter
<1>7. CASE MissWriter
  <2>1. unlucky' \in BOOLEAN /\ unlucky'
    BY <1>7, Zenon DEF MissWriter
  <2> QED
    BY <1>7, <2>1 DEF MissWriter, DestroyThen
<1>8. CASE JoinAndClose
  BY <1>8 DEF JoinAndClose, DestroyThen
<1>9. CASE RemoveNode
  BY <1>9 DEF RemoveNode, Undone
<1>10. CASE KeepNode
  BY <1>10 DEF KeepNode, Undone
<1>11. CASE WriterStep
  BY <1>11 DEF WriterStep, TakePeriod, LeaveLoop, WriteSucceeds, WriteFails
<1>12. CASE StartProcess
  BY <1>12 DEF StartProcess
<1>13. CASE Stop
  BY <1>13 DEF Stop
<1>14. CASE HostTakes
  BY <1>14 DEF HostTakes
<1>15. CASE EndProcess \/ Reboot
  BY <1>15 DEF EndProcess, Reboot
<1>16. CASE UNCHANGED gadgetVars
  BY <1>16 DEF gadgetVars
<1> QED
  BY <1>1, <1>2, <1>3, <1>4, <1>5, <1>6, <1>7, <1>8, <1>9, <1>10, <1>11, <1>12, <1>13,
     <1>14, <1>15, <1>16
     DEF GadgetNext, InitStep, StopStep, OutsideStep

(* destroy is where its step says, and nothing escapes it.                 *)
LEMMA KeepsClean ==
  GadgetTypeOK /\ Building /\ CleanInv /\ [GadgetNext]_gadgetVars => CleanInv'
<1> SUFFICES ASSUME GadgetTypeOK, Building, CleanInv, [GadgetNext]_gadgetVars
             PROVE  CleanInv'
  OBVIOUS
<1> USE Plans, Dependences DEF Building, CleanInv, Rooted, Undoing, Owning, Remains,
      GadgetTypeOK, flags, writing, luck, going
<1>1. CASE MakeNode
  <2> PICK x \in Nodes :
        /\ Creating(x)
        /\ x \in nodes \ {"udc"} \/ Possible(x)
        /\ nodes' = nodes \union {x}
        /\ gadgetUp \/ x = "root" => gadgetUp'
        /\ Created
        /\ undoFailed' = undoFailed
    BY <1>1, Zenon DEF MakeNode, UpOnceRooted
  <2> QED
    BY DEF Creating, Created, Possible
<1>2. CASE MissNode
  <2> PICK x \in Nodes :
        /\ Creating(x)
        /\ x \notin nodes \ {"udc"}
        /\ IF x \in Checked THEN GiveUp ELSE Created
        /\ nodes' = nodes /\ gadgetUp' = gadgetUp /\ undoFailed' = undoFailed
    BY <1>2, Zenon DEF MissNode
  <2> QED
    BY DEF Creating, Created, GiveUp, Checked
<1>3. CASE Heal
  <2>1. nodes' = nodes \ {"udc"} \/ nodes' = nodes
    BY <1>3, Zenon DEF Heal
  <2>2. /\ Creating("heal") /\ Created
        /\ gadgetUp' = gadgetUp /\ undoFailed' = undoFailed
    BY <1>3 DEF Heal
  <2> QED
    BY <2>1, <2>2 DEF Creating, Created
<1>4. CASE OpenPcm
  BY <1>4 DEF OpenPcm
<1>5. CASE MissPcm
  BY <1>5 DEF MissPcm, DestroyThen
<1>6. CASE StartWriter
  BY <1>6 DEF StartWriter
<1>7. CASE MissWriter
  BY <1>7 DEF MissWriter, DestroyThen
<1>8. CASE JoinAndClose
  BY <1>8 DEF JoinAndClose, DestroyThen
<1>9. ASSUME Undone
      PROVE  \/ step < 5 /\ step' = step + 1 /\ proc' = proc /\ gadgetUp' = gadgetUp
             \/ step >= 5 /\ proc' = undoTo /\ gadgetUp' \in BOOLEAN /\ ~gadgetUp'
  <2>1. CASE step < 5
    BY <1>9, <2>1 DEF Undone
  <2>2. CASE ~(step < 5)
    <3>1. gadgetUp' \in BOOLEAN /\ ~gadgetUp' /\ proc' = undoTo
      BY <1>9, <2>2, Zenon DEF Undone
    <3> QED
      BY <2>2, <3>1
  <2> QED
    BY <2>1, <2>2
<1>10. CASE RemoveNode
  <2>1. /\ Undone /\ step \in 1 .. 5 /\ proc = "destroy" /\ undoFailed' = undoFailed
        /\ nodes' \subseteq nodes /\ DestroyPlan[step] \notin nodes'
        /\ "root" \in nodes => "root" \in nodes'
    BY <1>10 DEF RemoveNode
  <2>2. Rooted'
    BY <2>1
  <2>3. CASE step < 5
    <3>1. step' = step + 1 /\ proc' = "destroy"
      BY <1>9, <2>1, <2>3
    <3>2. Undoing' /\ Owning'
      BY <2>1, <2>3, <3>1
    <3> QED
      BY <2>2, <3>2 DEF CleanInv
  <2>4. CASE step = 5
    <3>1. proc' = undoTo /\ ~gadgetUp'
      BY <1>9, <2>1, <2>4
    <3>2. ~undoFailed' => nodes' \subseteq Remains
      BY <2>1, <2>4 DEF Nodes
    <3>3. Undoing' /\ Owning'
      BY <3>1, <3>2
    <3> QED
      BY <2>2, <3>3 DEF CleanInv
  <2> QED
    BY <2>1, <2>3, <2>4
<1>11. CASE KeepNode
  <2>1. /\ Undone /\ step \in 1 .. 5 /\ proc = "destroy" /\ nodes' = nodes
        /\ undoFailed \/ Users(DestroyPlan[step]) \intersect nodes = {} => undoFailed'
    BY <1>11, Zenon DEF KeepNode
  <2>2. undoFailed'
    BY <2>1
  <2> QED
    BY <1>9, <2>1, <2>2
<1>12. CASE WriterStep
  BY <1>12 DEF WriterStep, TakePeriod, LeaveLoop, WriteSucceeds, WriteFails
<1>13. CASE StartProcess
  BY <1>13 DEF StartProcess
<1>14. CASE Stop
  BY <1>14 DEF Stop
<1>15. CASE HostTakes
  BY <1>15 DEF HostTakes
<1>16. CASE EndProcess \/ Reboot
  BY <1>16 DEF EndProcess, Reboot
<1>17. CASE UNCHANGED gadgetVars
  BY <1>17 DEF gadgetVars
<1> QED
  BY <1>1, <1>2, <1>3, <1>4, <1>5, <1>6, <1>7, <1>8, <1>10, <1>11, <1>12, <1>13, <1>14,
     <1>15, <1>16, <1>17
     DEF GadgetNext, InitStep, StopStep, OutsideStep

(* The writer lives while the PCM is open, and the PCM while the card is.  *)
LEMMA KeepsLiving == GadgetTypeOK /\ LiveInv /\ [GadgetNext]_gadgetVars => LiveInv'
<1> SUFFICES ASSUME GadgetTypeOK, LiveInv, [GadgetNext]_gadgetVars
             PROVE  LiveInv'
  OBVIOUS
<1> USE DEF LiveInv, Living, WritesToLiveGadget, Card, GadgetTypeOK,
      flags, writing, luck, going
<1>1. ASSUME proc \in {"down", "create", "destroy"},
             proc' \in {"down", "create", "failed", "open", "destroy", "stopped"},
             UNCHANGED <<pcm, writer, active, running>>
      PROVE  LiveInv'
  BY <1>1
<1>2. CASE MakeNode
  <2>1. proc = "create" /\ proc' \in {"create", "open"}
    BY <1>2 DEF MakeNode, Creating, Created
  <2> QED
    BY <1>1, <1>2, <2>1 DEF MakeNode, UpOnceRooted
<1>3. CASE MissNode
  <2>1. proc = "create" /\ proc' \in {"create", "open", "failed"}
    BY <1>3 DEF MissNode, Creating, Created, GiveUp
  <2> QED
    BY <1>1, <1>3, <2>1 DEF MissNode
<1>4. CASE Heal
  <2>1. proc = "create" /\ proc' \in {"create", "open"}
    BY <1>4 DEF Heal, Creating, Created
  <2> QED
    BY <1>1, <1>4, <2>1 DEF Heal
<1>5. CASE OpenPcm
  BY <1>5 DEF OpenPcm
<1>6. CASE MissPcm
  BY <1>6 DEF MissPcm, DestroyThen
<1>7. CASE StartWriter
  <2>1. running' \in BOOLEAN /\ running' /\ active' \in BOOLEAN /\ active'
    BY <1>7, Zenon DEF StartWriter
  <2> QED
    BY <1>7, <2>1 DEF StartWriter
<1>8. CASE MissWriter
  <2>1. pcm' \in BOOLEAN /\ ~pcm'
    BY <1>8, Zenon DEF MissWriter
  <2> QED
    BY <1>8, <2>1 DEF MissWriter, DestroyThen
<1>9. CASE JoinAndClose
  <2>1. pcm' \in BOOLEAN /\ ~pcm'
    BY <1>9, Zenon DEF JoinAndClose
  <2> QED
    BY <1>9, <2>1 DEF JoinAndClose, DestroyThen
<1>10. CASE RemoveNode
  <2>1. proc = "destroy" /\ proc' \in {"destroy", "down", "failed", "stopped"}
    BY <1>10 DEF RemoveNode, Undone
  <2> QED
    BY <1>1, <1>10, <2>1 DEF RemoveNode
<1>11. CASE KeepNode
  <2>1. proc = "destroy" /\ proc' \in {"destroy", "down", "failed", "stopped"}
    BY <1>11 DEF KeepNode, Undone
  <2> QED
    BY <1>1, <1>11, <2>1 DEF KeepNode
<1>12. CASE WriterStep
  BY <1>12 DEF WriterStep, TakePeriod, LeaveLoop, WriteSucceeds, WriteFails
<1>13. CASE StartProcess
  BY <1>1, <1>13 DEF StartProcess
<1>14. CASE Stop
  <2>1. active' \in BOOLEAN /\ ~active' /\ running' \in BOOLEAN /\ ~running'
    BY <1>14, Zenon DEF Stop
  <2> QED
    BY <1>14, <2>1 DEF Stop
<1>15. CASE HostTakes
  BY <1>15 DEF HostTakes
<1>16. CASE EndProcess
  <2>1. /\ active' \in BOOLEAN /\ ~active' /\ running' \in BOOLEAN /\ ~running'
        /\ pcm' \in BOOLEAN /\ ~pcm'
    BY <1>16, Zenon DEF EndProcess
  <2> QED
    BY <1>16, <2>1 DEF EndProcess
<1>17. CASE Reboot
  BY <1>1, <1>17 DEF Reboot
<1>18. CASE UNCHANGED gadgetVars
  BY <1>18 DEF gadgetVars
<1> QED
  BY <1>2, <1>3, <1>4, <1>5, <1>6, <1>7, <1>8, <1>9, <1>10, <1>11, <1>12, <1>13, <1>14,
     <1>15, <1>16, <1>17, <1>18
     DEF GadgetNext, InitStep, StopStep, OutsideStep

(* Successes without a host fill the buffer, and no more.                  *)
LEMMA KeepsCounting ==
  GadgetTypeOK /\ Living /\ Counting /\ [GadgetNext]_gadgetVars => Counting'
<1> SUFFICES ASSUME GadgetTypeOK, Living, Counting, [GadgetNext]_gadgetVars
             PROVE  Counting'
  OBVIOUS
<1> USE GadgetAssumption DEF Living, Counting, BelievesOnlyAHost, GadgetTypeOK,
      flags, writing, luck, going
<1>1. ASSUME UNCHANGED <<writer, streak, draining, buffered, drained>> PROVE Counting'
  BY <1>1
<1>2. CASE MakeNode \/ MissNode \/ Heal \/ MissPcm \/ MissWriter
  BY <1>1, <1>2 DEF MakeNode, MissNode, Heal, MissPcm, MissWriter
<1>3. CASE OpenPcm
  BY <1>3 DEF OpenPcm
<1>4. CASE StartWriter
  <2>1. draining' \in BOOLEAN /\ ~draining'
    BY <1>4, Zenon DEF StartWriter
  <2> QED
    BY <1>4, <2>1 DEF StartWriter
<1>5. CASE StopStep \/ StartProcess \/ Stop \/ Reboot
  BY <1>1, <1>5 DEF StopStep, JoinAndClose, RemoveNode, KeepNode, StartProcess, Stop, Reboot
<1>6. CASE TakePeriod \/ LeaveLoop
  BY <1>6 DEF TakePeriod, LeaveLoop
<1>7. CASE WriteSucceeds
  <2>1. drained' = drained /\ (~drained => streak' <= buffered' /\ ~Proven(streak'))
    BY <1>7 DEF WriteSucceeds, Proven
  <2>2. draining' => draining \/ Proven(streak')
    BY <1>7, Zenon DEF WriteSucceeds
  <2> QED
    BY <2>1, <2>2
<1>8. CASE WriteFails
  <2>1. draining' \in BOOLEAN /\ ~draining'
    BY <1>8, Zenon DEF WriteFails
  <2> QED
    BY <1>8, <2>1 DEF WriteFails
<1>9. CASE HostTakes
  <2>1. drained' \in BOOLEAN /\ drained'
    BY <1>9, Zenon DEF HostTakes
  <2> QED
    BY <2>1
<1>10. CASE EndProcess
  <2>1. draining' \in BOOLEAN /\ ~draining'
    BY <1>10, Zenon DEF EndProcess
  <2> QED
    BY <1>10, <2>1 DEF EndProcess
<1>11. CASE UNCHANGED gadgetVars
  BY <1>1, <1>11 DEF gadgetVars
<1> QED
  BY <1>2, <1>3, <1>4, <1>5, <1>6, <1>7, <1>8, <1>9, <1>10, <1>11
     DEF GadgetNext, InitStep, WriterStep, OutsideStep

-----------------------------------------------------------------------------
(* All of it together is inductive.                                        *)
THEOREM GadgetInvariant == GadgetSpec => []IInv
<1>1. IInv /\ [GadgetNext]_gadgetVars => IInv'
  BY KeepsTypes, KeepsHealing, KeepsClean, KeepsLiving, KeepsCounting
     DEF IInv, HealInv, LiveInv
<1> QED
  BY StartsClean, <1>1, PTL DEF GadgetSpec

(* The variables keep to their types.                                      *)
THEOREM GadgetTypes == GadgetSpec => []GadgetTypeOK
  BY GadgetInvariant, PTL DEF IInv

(* Nothing that a dead process left makes uac_init() fail: whatever was    *)
(* killed or failed before, it fails by a failure of its own.              *)
THEOREM GadgetHeals == GadgetSpec => []HealsItself
<1>1. IInv => HealsItself
  BY DEF IInv, HealInv, Failing, HealsItself
<1> QED
  BY GadgetInvariant, <1>1, PTL

(* uac_stop() leaves nothing bound and nothing but the root and the ACM    *)
(* function, from wherever uac_init() had come to, unless it fails itself. *)
THEOREM GadgetTakenDown == GadgetSpec => []LeavesNothingBound
<1>1. IInv => LeavesNothingBound
  BY DEF IInv, CleanInv, Owning, Remains, LeavesNothingBound
<1> QED
  BY GadgetInvariant, <1>1, PTL

(* Nobody writes to a PCM that is closed or whose card is gone.            *)
THEOREM WriterOutlivedByPcm == GadgetSpec => []WritesToLiveGadget
<1>1. IInv => WritesToLiveGadget
  BY DEF IInv, LiveInv
<1> QED
  BY GadgetInvariant, <1>1, PTL

(* More successes than the buffer has periods prove a host, whatever the   *)
(* size of the buffer.                                                     *)
THEOREM StreakProvesHost == GadgetSpec => []BelievesOnlyAHost
<1>1. IInv => BelievesOnlyAHost
  BY DEF IInv, Counting
<1> QED
  BY GadgetInvariant, <1>1, PTL

-----------------------------------------------------------------------------
(* The CAT port on top: it leaves the gadget alone, so that what was       *)
(* proved of the gadget holds of both together.                            *)
LEMMA CatStepIsGadgets ==
  [CatNext]_<<gadgetVars, catVars>> => [GadgetNext]_gadgetVars
BY DEF CatNext, GadgetElse, StopGadget, EndAll, GadgetNext, OutsideStep

THEOREM CatKeepsGadget == CatSpec => GadgetSpec
<1>1. CatInit => GadgetInit
  BY DEF CatInit
<1> QED
  BY <1>1, CatStepIsGadgets, PTL DEF CatSpec, GadgetSpec

(* The steps of the rest of the process that the port does not notice.     *)
LEMMA CatSteps ==
  [CatNext]_<<gadgetVars, catVars>> =>
    KeeperStep \/ ReaderStep \/ OtherStep \/ EndAll \/ UNCHANGED catVars
BY DEF CatNext, GadgetElse, StopGadget

LEMMA StartsTyped == CatInit => CatTypeOK
BY CatAssumption DEF CatInit, CatFresh, CatTypeOK, Fds, None

LEMMA KeepsCatTypes ==
  CatTypeOK /\ [CatNext]_<<gadgetVars, catVars>> => CatTypeOK'
<1> SUFFICES ASSUME CatTypeOK, [CatNext]_<<gadgetVars, catVars>>
             PROVE  CatTypeOK'
  OBVIOUS
<1> USE CatAssumption DEF CatTypeOK, Fds, None, fds, text
<1>1. CASE KeeperStep
  <2>1. CASE StartReader
    BY <2>1 DEF StartReader
  <2>2. CASE StopReader \/ StopLooks \/ StopCloses \/ StopForgets
    BY <2>2 DEF StopReader, StopLooks, StopCloses, StopForgets, Overlap
  <2> QED BY <1>1, <2>1, <2>2 DEF KeeperStep
<1>2. CASE TestRunning \/ CloseStep
  BY <1>2 DEF TestRunning, CloseStep, CloseTty, ForgetTty, LastLook, Overlap, Goes
<1>3. CASE OpenStep
  BY <1>3 DEF OpenStep, LookAtFd, OpenTty, MissTty, Overlap, Goes
<1>4. CASE ReadStep
  <2>1. ASSUME NEW c \in Chars, Receive(c) PROVE CatTypeOK'
    BY <2>1 DEF Receive, Goes
  <2>2. CASE ReceiveSemicolon
    BY <2>2 DEF ReceiveSemicolon, Goes
  <2>3. CASE Reload \/ EnterRead \/ Answer \/ AnswerNot \/ WriteAnswer
             \/ ReceiveNewline \/ ReadFails
    BY <2>3 DEF Reload, EnterRead, Answer, AnswerNot, WriteAnswer, ReceiveNewline,
                ReadFails, Overlap, Goes
  <2> QED BY <1>4, <2>1, <2>2, <2>3 DEF ReadStep
<1>5. CASE OtherStep
  BY <1>5 DEF OtherStep, OtherOpens, OtherCloses
<1>6. CASE EndAll
  BY <1>6 DEF EndAll
<1>7. CASE UNCHANGED catVars
  BY <1>7 DEF catVars
<1> QED
  BY <1>1, <1>2, <1>3, <1>4, <1>5, <1>6, <1>7, CatSteps DEF ReaderStep

(* Where a number is in hand it is the one in cat_fd, and nobody but the   *)
(* one who is about to close it makes it mean another file: the other side *)
(* is elsewhere, or this is late.                                          *)
InHand == {"enter", "write", "closing", "forget"}

Handing ==
  /\ keeper = "out" => reader = "none"
  /\ reader = "open" => catFd = None
  /\ ~late /\ KeeperAt(keeper) =>
       keeps = catFd /\ keeps # None /\ ~ReaderAt(reader, held)
  /\ ~late /\ reader \in InHand => held = catFd
  /\ ~late /\ catFd # None /\ reader # "forget" /\ keeper # "forget" =>
       file[catFd] = "tty"

LEMMA StartsHanding == CatInit => Handing
BY DEF CatInit, CatFresh, Handing, KeeperAt, ReaderAt, InHand

LEMMA KeepsHanding ==
  CatTypeOK /\ Handing /\ [CatNext]_<<gadgetVars, catVars>> => Handing'
<1> SUFFICES ASSUME CatTypeOK, Handing, [CatNext]_<<gadgetVars, catVars>>
             PROVE  Handing'
  OBVIOUS
<1> USE CatAssumption DEF CatTypeOK, Handing, Fds, None, fds, text, ReaderAt,
                          KeeperAt, InHand
<1>1. CASE StartReader \/ StopReader
  BY <1>1 DEF StartReader, StopReader
<1>2. CASE StopLooks
  BY <1>2 DEF StopLooks, Overlap
<1>3. CASE StopCloses
  BY <1>3 DEF StopCloses, Overlap
<1>4. CASE StopForgets
  BY <1>4 DEF StopForgets
<1>5. CASE TestRunning
  BY <1>5 DEF TestRunning, Goes
<1>6. CASE LookAtFd \/ MissTty
  BY <1>6 DEF LookAtFd, MissTty, Overlap, Goes
<1>7. ASSUME NEW n \in Fds, OpenTty(n) PROVE Handing'
  BY <1>7 DEF OpenTty, Lowest, Free, Goes
<1>8. CASE Reload
  BY <1>8 DEF Reload, Overlap, Goes
<1>9. CASE Answer
  BY <1>9 DEF Answer, Overlap, Goes
<1>10. CASE EnterRead \/ WriteAnswer \/ AnswerNot \/ ReceiveSemicolon
            \/ ReceiveNewline \/ ReadFails
  BY <1>10 DEF EnterRead, WriteAnswer, AnswerNot, ReceiveSemicolon,
               ReceiveNewline, ReadFails, Goes
<1>11. ASSUME NEW c \in Chars, Receive(c) PROVE Handing'
  BY <1>11 DEF Receive, Goes
<1>12. CASE CloseTty
  BY <1>12 DEF CloseTty, Goes
<1>13. CASE ForgetTty
  BY <1>13 DEF ForgetTty, Goes
<1>14. CASE LastLook
  BY <1>14 DEF LastLook, Overlap, Goes
<1>15. CASE OtherStep
  BY <1>15 DEF OtherStep, OtherOpens, OtherCloses, Lowest, Free
<1>16. CASE EndAll
  BY <1>16 DEF EndAll
<1>17. CASE UNCHANGED catVars
  BY <1>17 DEF catVars
<1> QED
  BY <1>1, <1>2, <1>3, <1>4, <1>5, <1>6, <1>7, <1>8, <1>9, <1>10, <1>11, <1>12,
     <1>13, <1>14, <1>15, <1>16, <1>17, CatSteps
     DEF KeeperStep, ReaderStep, OpenStep, ReadStep, CloseStep

(* The port never reads, writes or closes what is not its own, unless      *)
(* reader and cat_stop() have had numbers in hand at the same time.        *)
THEOREM PortKeepsToItsTty == CatSpec => []TouchesItsOwnUnlessLate
<1>1. CatTypeOK /\ Handing => TouchesItsOwnUnlessLate
  BY DEF CatTypeOK, Handing, KeeperAt, ReaderAt, InHand, TouchesItsOwnUnlessLate
<1> QED
  BY <1>1, StartsTyped, StartsHanding, KeepsCatTypes, KeepsHanding, PTL DEF CatSpec

-----------------------------------------------------------------------------
(* The line is the beginning of what was sent, and all of it unless the    *)
(* buffer is full.                                                         *)
Copying ==
  /\ Len(line) < LineMax
  /\ Len(line) <= Len(sent)
  /\ \A i \in 1 .. Len(line) : line[i] = sent[i]
  /\ Len(line) < Len(sent) => Len(line) = LineMax - 1

LEMMA StartsCopying == CatInit => Copying
BY CatAssumption DEF CatInit, CatFresh, Copying

LEMMA TextKept ==
  ASSUME [CatNext]_<<gadgetVars, catVars>>
  PROVE  \/ UNCHANGED <<line, sent>>
         \/ line' = <<>> /\ sent' = <<>>
         \/ \E c \in Chars : Receive(c)
<1>1. CASE KeeperStep
  BY <1>1 DEF KeeperStep, StartReader, StopReader, StopLooks, StopCloses,
              StopForgets, text
<1>2. CASE ReaderStep
  BY <1>2 DEF ReaderStep, TestRunning, OpenStep, ReadStep, CloseStep, LookAtFd,
              OpenTty, MissTty, Reload, EnterRead, ReceiveSemicolon, AnswerNot,
              Answer, WriteAnswer, ReceiveNewline, ReadFails, CloseTty, ForgetTty,
              LastLook, text
<1>3. CASE OtherStep
  BY <1>3 DEF OtherStep, OtherOpens, OtherCloses, text
<1>4. CASE EndAll
  BY <1>4 DEF EndAll
<1>5. CASE UNCHANGED catVars
  BY <1>5 DEF catVars
<1> QED BY <1>1, <1>2, <1>3, <1>4, <1>5, CatSteps

LEMMA KeepsCopying ==
  CatTypeOK /\ Copying /\ [CatNext]_<<gadgetVars, catVars>> => Copying'
<1> SUFFICES ASSUME CatTypeOK, Copying, [CatNext]_<<gadgetVars, catVars>>
             PROVE  Copying'
  OBVIOUS
<1> USE CatAssumption
<1>1. line \in Seq(Chars) /\ sent \in Seq(Chars)
  BY DEF CatTypeOK
<1>2. CASE UNCHANGED <<line, sent>>
  BY <1>2 DEF Copying
<1>3. CASE line' = <<>> /\ sent' = <<>>
  BY <1>3 DEF Copying
<1>4. ASSUME NEW c \in Chars, Receive(c) PROVE Copying'
  <2>1. sent' = Append(sent, c)
    BY <1>4 DEF Receive
  <2>2. CASE Len(line) + 1 < LineMax
    <3>1. line' = Append(line, c)
      BY <1>4, <2>2 DEF Receive
    <3>2. Len(line) = Len(sent)
      BY <1>1, <2>2 DEF Copying
    <3> QED BY <1>1, <2>1, <2>2, <3>1, <3>2 DEF Copying
  <2>3. CASE ~(Len(line) + 1 < LineMax)
    <3>1. line' = line
      BY <1>4, <2>3 DEF Receive
    <3> QED BY <1>1, <2>1, <2>3, <3>1 DEF Copying
  <2> QED BY <2>2, <2>3
<1> QED BY <1>2, <1>3, <1>4, TextKept

(* Nothing of before a drop is left in a command, nothing of it is lost    *)
(* but what is beyond the end of the buffer, and that is never passed, for *)
(* a buffer of any length.                                                 *)
THEOREM CommandIsWhatCame == CatSpec => []LineIsWhatWasSent
<1>1. CatTypeOK /\ Copying => LineIsWhatWasSent
  <2> SUFFICES ASSUME CatTypeOK, Copying PROVE LineIsWhatWasSent
    OBVIOUS
  <2>1. line \in Seq(Chars) /\ sent \in Seq(Chars)
    BY DEF CatTypeOK
  <2>2. Len(line) <= Len(sent) /\ \A i \in 1 .. Len(line) : line[i] = sent[i]
    BY DEF Copying
  <2>3. SubSeq(sent, 1, Len(line)) = [i \in 1 .. Len(line) |-> sent[i]]
    BY <2>1, <2>2
  <2>4. line = [i \in 1 .. Len(line) |-> sent[i]]
    BY <2>1, <2>2
  <2> QED BY <2>3, <2>4 DEF Copying, LineIsWhatWasSent
<1> QED
  BY <1>1, StartsTyped, StartsCopying, KeepsCatTypes, KeepsCopying, PTL DEF CatSpec

=============================================================================
