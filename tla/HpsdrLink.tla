----------------------------- MODULE HpsdrLink ------------------------------
(***************************************************************************)
(* The streaming side of src/src/interfaces/hpsdr_p1.c.  Its poll thread   *)
(* reads START and STOP datagrams, which any client may send at any time,  *)
(* lose or repeat; the pacer takes packets out of the ring (IqRing),       *)
(* numbers them and sends them to the client that started last.  The two   *)
(* threads share client_active, stream_dest, tx_seq and reset_requested    *)
(* without a lock.                                                         *)
(*                                                                         *)
(* The stores of a START are steps of their own, in the order of the code. *)
(* stream_dest is taken as stored at once: a packet sent to half of one    *)
(* address and half of another reaches neither client, and nothing below   *)
(* is about where it ends.  tx_seq is loaded once per packet, the loads of *)
(* its four bytes being one to the optimising compiler.                    *)
(* What EP2 datagrams do is in TxArbiter (MOX) and in RemoteTune.          *)
(***************************************************************************)

EXTENDS IqRing

CONSTANTS
  Stations,     \* the address and port pairs that datagrams come from
  SeqMod        \* tx_seq counts modulo this, 2^32 in the code

ASSUME LinkAssumption ==
  /\ Stations # {}
  /\ SeqMod \in Nat \ {0}

VARIABLES
  active,       \* client_active
  dest,         \* stream_dest, {} before the first START
  seq,          \* tx_seq
  poll,         \* where the poll thread is in handle_command()
  awake,        \* the pacer has woken up and found a client
  build,        \* where it is in build_and_send_packet()
  number,       \* the sequence number of the packet being built
  \* Histories.
  sent,         \* packets sent since the last START that changed the
                \* client, modulo SeqMod
  raced         \* the pacer was awake at some moment of that START

linkVars == <<ringVars, active, dest, seq, poll, awake, build, number, sent, raced>>

(* tx_seq is an unsigned number of 32 bits.                                *)
Following(n) == (n + 1) % SeqMod

LinkInit ==
  /\ RingInit
  /\ active = FALSE
  /\ dest = {}
  /\ seq = 0
  /\ poll = "idle"
  /\ awake = FALSE
  /\ build = "no"
  /\ number = 0
  /\ sent = 0
  /\ raced = FALSE

-----------------------------------------------------------------------------
(* hpsdr_send_iq(): nothing is queued while no client is active.           *)
AudioBlock(n) ==
  /\ active
  /\ BeginBlock(n)
  /\ UNCHANGED <<active, dest, seq, poll, awake, build, number, sent, raced>>

AudioStep ==
  /\ ProducerStep
  /\ UNCHANGED <<active, dest, seq, poll, awake, build, number, sent, raced>>

-----------------------------------------------------------------------------
(* handle_command(), on START and STOP                                     *)

RestartAlways(c) ==             \* mutant: a repeated START starts afresh
  /\ poll = "idle"
  /\ dest' = {c}
  /\ poll' = "number"
  /\ IF active /\ dest = {c}
     THEN UNCHANGED <<sent, raced>>
     ELSE sent' = 0 /\ raced' = awake
  /\ UNCHANGED <<ringVars, active, seq, awake, build, number>>

(* A START that repeats the one of the client being served changes nothing *)
(* and needs no step.                                                      *)
Start(c) ==
  /\ poll = "idle"
  /\ ~(active /\ dest = {c})
  /\ dest' = {c}
  /\ poll' = "number"
  /\ sent' = 0
  /\ raced' = awake
  /\ UNCHANGED <<ringVars, active, seq, awake, build, number>>

StartNumbering ==
  /\ poll = "number"
  /\ seq' = 0
  /\ poll' = "reset"
  /\ UNCHANGED <<ringVars, active, dest, awake, build, number, sent, raced>>

AskNothing ==                   \* mutant: what is queued stays queued
  /\ poll = "reset"
  /\ old' = Held(qHead, qTail)
  /\ poll' = "activate"
  /\ UNCHANGED <<index, slot, producer, consumer, reset,
                 active, dest, seq, awake, build, number, sent, raced>>

AskReset ==
  /\ poll = "reset"
  /\ RequestReset
  /\ poll' = "activate"
  /\ UNCHANGED <<active, dest, seq, awake, build, number, sent, raced>>

Activate ==
  /\ poll = "activate"
  /\ active' = TRUE
  /\ poll' = "idle"
  /\ UNCHANGED <<ringVars, dest, seq, awake, build, number, sent, raced>>

(* STOP is obeyed whoever sends it.                                        *)
Stop ==
  /\ poll = "idle"
  /\ active' = FALSE
  /\ UNCHANGED <<ringVars, dest, seq, poll, awake, build, number, sent, raced>>

PollStep == StartNumbering \/ AskReset \/ Activate

-----------------------------------------------------------------------------
(* hpsdr_pacer_thread() and build_and_send_packet()                        *)

Wake ==
  /\ ~awake
  /\ active
  /\ awake' = TRUE
  /\ raced' = (raced \/ poll # "idle")
  /\ UNCHANGED <<ringVars, active, dest, seq, poll, build, number, sent>>

PacerStep ==
  /\ awake
  /\ \/ SeeReset \/ SeeNoReset \/ CatchUp \/ DropHeld
     \/ LookThere \/ CopySample \/ ReleaseSlots
  /\ UNCHANGED <<active, dest, seq, poll, awake, build, number, sent, raced>>

Sleep ==
  /\ LookNotYet
  /\ awake' = FALSE
  /\ UNCHANGED <<active, dest, seq, poll, build, number, sent, raced>>

NumberPacket ==
  /\ pacer = "send"
  /\ build = "no"
  /\ number' = seq
  /\ build' = "numbered"
  /\ UNCHANGED <<ringVars, active, dest, seq, poll, awake, sent, raced>>

CountPacket ==
  /\ build = "numbered"
  /\ seq' = Following(number)
  /\ build' = "counted"
  /\ UNCHANGED <<ringVars, active, dest, poll, awake, number, sent, raced>>

(* The packet goes to the client, or nowhere if there is none any more.    *)
FindClient ==
  /\ build = "counted"
  /\ active
  /\ build' = "out"
  /\ UNCHANGED <<ringVars, active, dest, seq, poll, awake, number, sent, raced>>

SendOut ==
  /\ build = "out"
  /\ SendPacket
  /\ sent' = Following(sent)
  /\ build' = "no" /\ number' = 0 /\ awake' = FALSE
  /\ UNCHANGED <<active, dest, seq, poll, raced>>

Forget ==
  /\ build = "counted"
  /\ ~active
  /\ SendPacket
  /\ build' = "no" /\ number' = 0 /\ awake' = FALSE
  /\ UNCHANGED <<active, dest, seq, poll, sent, raced>>

LinkPacerStep ==
  Wake \/ PacerStep \/ Sleep \/ NumberPacket \/ CountPacket \/ FindClient
  \/ SendOut \/ Forget

LinkNext ==
  \/ \E n \in 1 .. Block : AudioBlock(n)
  \/ AudioStep
  \/ \E c \in Stations : Start(c)
  \/ Stop
  \/ PollStep
  \/ LinkPacerStep

LinkSafe == LinkInit /\ [][LinkNext]_linkVars

(* The pacer and the poll thread run, and so does the audio thread.  What  *)
(* clients send is up to them.                                             *)
LinkFairness ==
  /\ WF_linkVars(LinkPacerStep)
  /\ WF_linkVars(PollStep)
  /\ WF_linkVars(AudioStep \/ \E n \in 1 .. Block : AudioBlock(n))

LinkSpec == LinkSafe /\ LinkFairness

-----------------------------------------------------------------------------
LinkTypeOK ==
  /\ RingTypeOK
  /\ active \in BOOLEAN
  /\ dest \subseteq Stations
  /\ seq \in 0 .. SeqMod - 1
  /\ poll \in {"idle", "number", "reset", "activate"}
  /\ awake \in BOOLEAN
  /\ build \in {"no", "numbered", "counted", "out"}
  /\ number \in 0 .. SeqMod - 1
  /\ sent \in 0 .. SeqMod - 1
  /\ raced \in BOOLEAN

(* A client that starts a stream gets packets numbered from 0 without a    *)
(* gap, however often it repeats its START, unless a packet was being      *)
(* built for the client before it while the START was handled.             *)
NumbersFromZero == build = "out" /\ ~raced => number = sent

(* Under the same proviso it gets nothing that was queued before.          *)
FreshForNewClient == pacer = "copy" /\ ~raced => old = 0

(* A client that stays, and that no other one takes the stream from, is    *)
(* sent packets for ever.                                                  *)
KeepsStreaming == <>[](active /\ poll = "idle") => []<>(build = "out")

=============================================================================
