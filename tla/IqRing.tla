------------------------------- MODULE IqRing -------------------------------
(***************************************************************************)
(* The sample ring between the audio thread and a sending thread.  It is   *)
(* in the code three times: hpsdr_send_iq() and hpsdr_pacer_thread()       *)
(* (src/src/interfaces/hpsdr_p1.c), iq_stream_send() and                   *)
(* iq_stream_pacer_thread() (iq_stream.c), and uac_push_iq() and           *)
(* uac_writer_thread() (usb_gadget.c), whose blocks are of one sample.     *)
(* Only the first can be asked to drop what it holds.                      *)
(*                                                                         *)
(* There is no lock: the producer alone writes q_head, the consumer alone  *)
(* q_tail, each reads the other's index once and then works from a copy.   *)
(* Every load or store of an index, of reset_requested and of a sample is  *)
(* a step.  Steps are sequentially consistent: the release stores and      *)
(* acquire loads of the two indexes order the samples in between, and      *)
(* nothing else is read by the other side.                                 *)
(***************************************************************************)

EXTENDS Naturals, Sequences

CONSTANTS
  Samples,      \* the values a sample can have
  Silence,      \* the sample the arrays are initialised with
  Cap,          \* IQ_QUEUE_CAP; a power of two, so that & with Cap - 1 is
                \* the remainder that Succ, Plus and Held compute
  Block,        \* the most samples the audio thread hands over in one call
  Packet        \* SAMPLES_PER_PACKET, or UAC_BUF_FRAMES

ASSUME RingAssumption ==
  /\ Silence \in Samples
  /\ Cap \in Nat
  /\ Block \in Nat \ {0}
  /\ Packet \in 1 .. Cap - 1

VARIABLES
  qHead,        \* q_head, the first slot not yet published
  qTail,        \* q_tail, the oldest slot still in use
  slot,         \* q_i and q_q
  \* The producer.
  filling,      \* inside a call
  offered,      \* n, the samples of this call
  left,         \* how many of them are still to be looked at
  head,         \* its local head
  tailSeen,     \* its local copy of q_tail
  \* The consumer.
  pacer,        \* where it is in its loop
  reset,        \* reset_requested
  headSeen,     \* its local copy of q_head, while it drops what is held
  tail,         \* its local tail
  buf,          \* iq_buf: what it has copied of the next packet
  \* History.
  old           \* how many of the published samples, from the oldest on,
                \* were there at the last request to drop them

index    == <<qHead, qTail>>
producer == <<filling, offered, left, head, tailSeen>>
consumer == <<pacer, headSeen, tail, buf>>
ringVars == <<index, slot, producer, consumer, reset, old>>

Slots == 0 .. Cap - 1

(* (i + 1) & MASK, (i + n) & MASK for n up to Cap, and (h - t) & MASK,     *)
(* how many slots from t up to h.                                          *)
Succ(i) == IF i = Cap - 1 THEN 0 ELSE i + 1
Plus(i, n) == IF i + n >= Cap THEN i + n - Cap ELSE i + n
Held(h, t) == IF h >= t THEN h - t ELSE h - t + Cap

(* n without the k first of them. *)
Without(n, k) == IF n > k THEN n - k ELSE 0

RingInit ==
  /\ qHead = 0 /\ qTail = 0
  /\ slot = [i \in Slots |-> Silence]
  /\ filling = FALSE /\ offered = 0 /\ left = 0
  /\ head = 0 /\ tailSeen = 0
  /\ pacer = "tick" /\ reset = FALSE
  /\ headSeen = 0 /\ tail = 0 /\ buf = <<>>
  /\ old = 0

-----------------------------------------------------------------------------
(* The producer: one call with a block of n samples                        *)

BeginBlock(n) ==
  /\ ~filling
  /\ filling' = TRUE
  /\ offered' = n
  /\ left' = n
  /\ head' = qHead
  /\ tailSeen' = qTail
  /\ UNCHANGED <<index, slot, consumer, reset, old>>

StoreSample(s) ==
  /\ filling /\ left > 0
  /\ Succ(head) # tailSeen
  /\ slot' = [slot EXCEPT ![head] = s]
  /\ head' = Succ(head)
  /\ left' = left - 1
  /\ UNCHANGED <<index, filling, offered, tailSeen, consumer, reset, old>>

DropEarly ==                    \* mutant: full with one more slot to go
  /\ filling /\ left > 0
  /\ Succ(head) = tailSeen \/ Succ(Succ(head)) = tailSeen
  /\ left' = left - 1
  /\ UNCHANGED <<index, slot, filling, offered, head, tailSeen, consumer,
                 reset, old>>

(* The ring is full as far as the producer knows.                          *)
DropSample ==
  /\ filling /\ left > 0
  /\ Succ(head) = tailSeen
  /\ left' = left - 1
  /\ UNCHANGED <<index, slot, filling, offered, head, tailSeen, consumer,
                 reset, old>>

(* The call returns; its locals are gone.                                  *)
Publish ==
  /\ filling /\ left = 0
  /\ qHead' = head
  /\ filling' = FALSE
  /\ offered' = 0
  /\ tailSeen' = 0
  /\ UNCHANGED <<qTail, slot, left, head, consumer, reset, old>>

ProducerStep == (\E s \in Samples : StoreSample(s)) \/ DropSample \/ Publish

-----------------------------------------------------------------------------
(* Another thread asks for what is held to be dropped (EP1 START).         *)
RequestReset ==
  /\ reset' = TRUE
  /\ old' = Held(qHead, qTail)
  /\ UNCHANGED <<index, slot, producer, consumer>>

-----------------------------------------------------------------------------
(* The consumer: one wake-up of the pacer                                  *)

SeeResetOnly ==                 \* mutant: the request is taken and forgotten
  /\ pacer = "tick"
  /\ reset
  /\ reset' = FALSE
  /\ pacer' = "look"
  /\ UNCHANGED <<index, slot, producer, headSeen, tail, buf, old>>

SeeResetForever ==              \* mutant: the request is never taken back
  /\ pacer = "tick"
  /\ reset
  /\ pacer' = "catch"
  /\ UNCHANGED <<index, slot, producer, headSeen, tail, buf, reset, old>>

SeeReset ==
  /\ pacer = "tick"
  /\ reset
  /\ reset' = FALSE
  /\ pacer' = "catch"
  /\ UNCHANGED <<index, slot, producer, headSeen, tail, buf, old>>

SeeNoReset ==
  /\ pacer = "tick"
  /\ ~reset
  /\ pacer' = "look"
  /\ UNCHANGED <<index, slot, producer, headSeen, tail, buf, reset, old>>

CatchUp ==
  /\ pacer = "catch"
  /\ headSeen' = qHead
  /\ pacer' = "drop"
  /\ UNCHANGED <<index, slot, producer, tail, buf, reset, old>>

DropHeld ==
  /\ pacer = "drop"
  /\ qTail' = headSeen
  /\ old' = Without(old, Held(headSeen, qTail))
  /\ headSeen' = 0
  /\ pacer' = "look"
  /\ UNCHANGED <<qHead, slot, producer, tail, buf, reset>>

LookAndRelease ==               \* mutant: the slots are given back unread
  /\ pacer = "look"
  /\ Held(qHead, qTail) >= Packet
  /\ pacer' = "copy"
  /\ tail' = qTail
  /\ qTail' = Plus(qTail, Packet)
  /\ UNCHANGED <<qHead, slot, producer, headSeen, buf, reset, old>>

LookThere ==
  /\ pacer = "look"
  /\ Held(qHead, qTail) >= Packet
  /\ pacer' = "copy"
  /\ tail' = qTail
  /\ UNCHANGED <<index, slot, producer, headSeen, buf, reset, old>>

(* Less than a packet: wait for the next wake-up.                          *)
LookNotYet ==
  /\ pacer = "look"
  /\ Held(qHead, qTail) < Packet
  /\ pacer' = "tick"
  /\ UNCHANGED <<index, slot, producer, headSeen, tail, buf, reset, old>>

CopySample ==
  /\ pacer = "copy"
  /\ Len(buf) < Packet
  /\ buf' = Append(buf, slot[tail])
  /\ tail' = Succ(tail)
  /\ UNCHANGED <<index, slot, producer, pacer, headSeen, reset, old>>

ReleaseNothing ==               \* mutant: q_tail is left where it was
  /\ pacer = "copy"
  /\ Len(buf) = Packet
  /\ pacer' = "send"
  /\ UNCHANGED <<index, slot, producer, headSeen, tail, buf, reset, old>>

ReleaseSlots ==
  /\ pacer = "copy"
  /\ Len(buf) = Packet
  /\ qTail' = tail
  /\ old' = Without(old, Packet)
  /\ pacer' = "send"
  /\ UNCHANGED <<qHead, slot, producer, headSeen, tail, buf, reset>>

(* build_and_send_packet(), or the write to the gadget's PCM device.       *)
SendPacket ==
  /\ pacer = "send"
  /\ pacer' = "tick"
  /\ buf' = <<>>
  /\ UNCHANGED <<index, slot, producer, headSeen, tail, reset, old>>

ConsumerStep ==
  \/ SeeReset \/ SeeNoReset \/ CatchUp \/ DropHeld
  \/ LookThere \/ LookNotYet \/ CopySample \/ ReleaseSlots \/ SendPacket

RingNext ==
  \/ \E n \in 1 .. Block : BeginBlock(n)
  \/ ProducerStep
  \/ RequestReset
  \/ ConsumerStep

RingSafe == RingInit /\ [][RingNext]_ringVars

(* The pacer wakes up every 1.3 ms, whatever the audio thread does.        *)
RingSpec == RingSafe /\ WF_ringVars(ConsumerStep)

-----------------------------------------------------------------------------
RingTypeOK ==
  /\ qHead \in Slots /\ qTail \in Slots
  /\ slot \in [Slots -> Samples]
  /\ filling \in BOOLEAN
  /\ offered \in 0 .. Block /\ left \in 0 .. Block
  /\ head \in Slots /\ tailSeen \in Slots
  /\ pacer \in {"tick", "catch", "drop", "look", "copy", "send"}
  /\ reset \in BOOLEAN
  /\ headSeen \in Slots /\ tail \in Slots
  /\ buf \in Seq(Samples) /\ Len(buf) <= Packet
  /\ old \in 0 .. Cap - 1

(* The slots published and not yet given back, which the producer must not *)
(* touch, and those the consumer has still to read for its packet.         *)
InUse  == {Plus(qTail, n) : n \in 0 .. Held(qHead, qTail) - 1}
Unread == {Plus(tail, n) : n \in 0 .. Packet - Len(buf) - 1}

(* The plain arrays are free of data races: the pacer reads only slots     *)
(* that are in use, and the audio thread is never about to write one.      *)
NoSharedSlot ==
  /\ pacer = "copy" => Unread \subseteq InUse
  /\ filling => head \notin InUse

(* Samples are given up only for want of room: a call stores all of its    *)
(* block, or as much as there was room for when it began (one slot stays   *)
(* empty to tell full from empty).                                         *)
StoresWhatFits ==
  filling /\ left = 0 =>
    LET room == Cap - 1 - Held(qHead, tailSeen)
    IN  Held(head, qHead) = IF offered < room THEN offered ELSE room

(* After a request to drop what is held, nothing held at that time goes    *)
(* into a packet begun with the request out of the way.                    *)
FreshAfterReset == pacer = "copy" /\ ~reset => old = 0

(* The published part of the ring, oldest first, and the packet on its way *)
(* out, seen as the abstract queue.                                        *)
Published == [n \in 1 .. Held(qHead, qTail) |-> slot[Plus(qTail, n - 1)]]
Outgoing  == IF pacer = "send" THEN buf ELSE <<>>

Queue == INSTANCE IqQueue
           WITH Bound <- Cap - 1, queue <- Published, packet <- Outgoing

(* The ring is a first-in first-out queue that may lose samples and never  *)
(* repeats, swaps or invents one, and packets keep coming out of it.       *)
ImplementsQueue == Queue!Spec

=============================================================================
