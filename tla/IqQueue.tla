------------------------------ MODULE IqQueue -------------------------------
(***************************************************************************)
(* What the sample rings of minibitx promise: a bounded queue of samples   *)
(* between the audio thread, which never waits, and a thread that takes    *)
(* whole packets out of it.                                                *)
(*                                                                         *)
(* Samples may be lost, because the queue is full or because its oldest    *)
(* part is thrown away.  They are never repeated, reordered or made up,    *)
(* and a queue that holds a packet does not keep it for ever.              *)
(***************************************************************************)

EXTENDS Naturals, Sequences

CONSTANTS
  Samples,      \* the values a sample can have
  Bound,        \* how many samples the queue holds at most
  Packet        \* how many are taken at a time

VARIABLES
  queue,        \* the samples waiting, oldest first
  packet        \* the packet taken last and not yet delivered, or <<>>

queueVars == <<queue, packet>>

Init == queue = <<>> /\ packet = <<>>

(* Some samples are added in one go; how many of those offered is open.    *)
Offer ==
  \E n \in 1 .. (Bound - Len(queue)) :
    \E new \in [1 .. n -> Samples] :
      /\ queue' = queue \o new
      /\ UNCHANGED packet

Take ==
  /\ packet = <<>>
  /\ Len(queue) >= Packet
  /\ packet' = SubSeq(queue, 1, Packet)
  /\ queue' = SubSeq(queue, Packet + 1, Len(queue))

Deliver ==
  /\ packet # <<>>
  /\ packet' = <<>>
  /\ UNCHANGED queue

(* The n oldest samples are thrown away.                                   *)
Discard ==
  \E n \in 1 .. Len(queue) :
    /\ queue' = SubSeq(queue, n + 1, Len(queue))
    /\ UNCHANGED packet

Next == Offer \/ Take \/ Deliver \/ Discard

Safe == Init /\ [][Next]_queueVars

Spec == Safe /\ WF_queueVars(Take) /\ WF_queueVars(Deliver)

=============================================================================
