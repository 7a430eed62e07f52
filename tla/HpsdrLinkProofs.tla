-------------------------- MODULE HpsdrLinkProofs ---------------------------
(***************************************************************************)
(* Machine-checked proofs about IqRing and HpsdrLink, for any size of      *)
(* ring, block and packet, any clients and any sequence counter.           *)
(*                                                                         *)
(* First the ring.  Its heart is the cyclic order of five indexes: behind  *)
(* the producer's copy of the tail comes the tail itself, then the pacer's *)
(* place in the ring, then the head, then the producer's place; and the    *)
(* producer stops one slot short of its copy of the tail.  Cyclic order is *)
(* stated by adding distances: Held(c, a) = Held(c, b) + Held(b, a).       *)
(*                                                                         *)
(* Then the link that owns it.  What it proves rests on who is awake while *)
(* the poll thread is in the middle of a START: unless the START is marked *)
(* as raced, the pacer sleeps through it, and wakes up to a counter at 0   *)
(* and a request to drop what is held that is already there (Asleep).      *)
(***************************************************************************)
EXTENDS HpsdrLink, SequenceTheorems, TLAPS

(* Going round the ring from a one meets b no later than c.                *)
InOrder(a, b, c) == Held(c, a) = Held(c, b) + Held(b, a)

Writer ==
  /\ ~filling => head = qHead
  /\ filling => /\ InOrder(tailSeen, qTail, qHead)
                /\ InOrder(tailSeen, qHead, head)

(* How far a call has come with its block.                                 *)
Progress ==
  filling =>
    LET room == Cap - 1 - Held(qHead, tailSeen)
        done == offered - left
    IN  /\ left <= offered
        /\ Held(head, qHead) = IF done < room THEN done ELSE room

Reader ==
  /\ pacer = "copy" => /\ Packet <= Held(qHead, qTail)
                       /\ tail = Plus(qTail, Len(buf))
  /\ pacer = "send" => Len(buf) = Packet
  /\ pacer \notin {"copy", "send"} => Len(buf) = 0
  /\ pacer = "drop" => InOrder(qTail, headSeen, qHead)

Oldest ==
  /\ old <= Held(qHead, qTail)
  /\ ~reset /\ pacer \notin {"catch", "drop"} => old = 0
  /\ ~reset /\ pacer = "drop" => old <= Held(headSeen, qTail)

(* What has been copied is what is there, from the tail on.                *)
Copied ==
  pacer = "copy" => \A n \in 1 .. Len(buf) : buf[n] = slot[Plus(qTail, n - 1)]

(* The part of the type invariant that is about places in the ring.        *)
Indexes ==
  /\ qHead \in Slots /\ qTail \in Slots
  /\ offered \in 0 .. Block /\ left \in 0 .. Block
  /\ head \in Slots /\ tailSeen \in Slots
  /\ headSeen \in Slots /\ tail \in Slots
  /\ Len(buf) \in 0 .. Packet
  /\ old \in 0 .. Cap - 1

RingInv == RingTypeOK /\ Writer /\ Progress /\ Reader /\ Oldest /\ Copied

USE RingAssumption DEF Slots, index, producer, consumer

-----------------------------------------------------------------------------
(* Arithmetic on the ring.                                                 *)

LEMMA OnTheRing ==
  ASSUME NEW h \in Slots, NEW t \in Slots
  PROVE  /\ Succ(h) \in Slots
         /\ Held(h, t) \in 0 .. Cap - 1
         /\ Held(h, h) = 0
BY DEF Succ, Held

(* Storing one more sample, short of the slot t.                           *)
LEMMA OneFurther ==
  ASSUME NEW h \in Slots, NEW t \in Slots
  PROVE  IF Succ(h) = t THEN Held(h, t) = Cap - 1
                        ELSE Held(Succ(h), t) = Held(h, t) + 1
BY DEF Succ, Held

LEMMA PlusSucc ==
  ASSUME NEW t \in Slots, NEW n \in 0 .. Cap - 1
  PROVE  Plus(t, n + 1) = Succ(Plus(t, n))
BY DEF Succ, Plus

(* Walking n slots from t leaves the rest of the way to h.                 *)
LEMMA Walk ==
  ASSUME NEW h \in Slots, NEW t \in Slots, NEW n \in 0 .. Held(h, t)
  PROVE  /\ Plus(t, n) \in Slots
         /\ Held(Plus(t, n), t) = n
         /\ Held(h, Plus(t, n)) = Held(h, t) - n
         /\ InOrder(t, Plus(t, n), h)
         /\ n < Held(h, t) => Plus(t, n) # h
BY DEF Plus, Held, InOrder

LEMMA PlusPlus ==
  ASSUME NEW t \in Slots, NEW n \in 0 .. Cap - 1, NEW m \in 0 .. Cap - 1,
         n + m <= Cap - 1
  PROVE  Plus(Plus(t, n), m) = Plus(t, n + m)
BY DEF Plus

LEMMA HeldIsWalk ==
  ASSUME NEW h \in Slots, NEW t \in Slots
  PROVE  Plus(t, Held(h, t)) = h
BY DEF Plus, Held

LEMMA OrderSplits ==
  ASSUME NEW a \in Slots, NEW b \in Slots, NEW c \in Slots, NEW d \in Slots,
         InOrder(a, b, d), InOrder(b, c, d)
  PROVE  InOrder(a, c, d)
BY DEF InOrder, Held

LEMMA OrderJoins ==
  ASSUME NEW a \in Slots, NEW b \in Slots, NEW c \in Slots, NEW d \in Slots,
         InOrder(a, b, c), InOrder(a, c, d)
  PROVE  InOrder(b, c, d) /\ InOrder(a, b, d)
BY DEF InOrder, Held

-----------------------------------------------------------------------------
(* Every variable keeps its type.                                          *)

LEMMA RingTypeNext ==
  ASSUME RingTypeOK, Reader, Oldest, [RingNext]_ringVars PROVE RingTypeOK'
<1>1. ASSUME NEW n \in 1 .. Block, BeginBlock(n) PROVE RingTypeOK'
  BY <1>1 DEF RingTypeOK, BeginBlock
<1>2. ASSUME NEW s \in Samples, StoreSample(s) PROVE RingTypeOK'
  BY <1>2, OnTheRing DEF RingTypeOK, StoreSample
<1>3. ASSUME DropSample PROVE RingTypeOK'
  BY <1>3 DEF RingTypeOK, DropSample
<1>4. ASSUME Publish PROVE RingTypeOK'
  BY <1>4 DEF RingTypeOK, Publish
<1>5. ASSUME RequestReset PROVE RingTypeOK'
  BY <1>5, OnTheRing DEF RingTypeOK, RequestReset
<1>6. ASSUME SeeReset \/ SeeNoReset \/ CatchUp PROVE RingTypeOK'
  BY <1>6 DEF RingTypeOK, SeeReset, SeeNoReset, CatchUp
<1>7. ASSUME DropHeld PROVE RingTypeOK'
  BY <1>7 DEF RingTypeOK, DropHeld, Without, Held
<1>8. ASSUME LookThere \/ LookNotYet PROVE RingTypeOK'
  BY <1>8 DEF RingTypeOK, LookThere, LookNotYet
<1>9. ASSUME CopySample PROVE RingTypeOK'
  <2>0. Len(buf) \in Nat
    BY LenProperties DEF RingTypeOK
  <2>1. slot[tail] \in Samples
    BY <1>9 DEF RingTypeOK, CopySample
  <2>2. buf' \in Seq(Samples) /\ Len(buf') = Len(buf) + 1
    BY <1>9, <2>1, AppendProperties DEF RingTypeOK, CopySample
  <2>3. Succ(tail) \in Slots
    BY OnTheRing DEF RingTypeOK
  <2>4. QED BY <1>9, <2>0, <2>2, <2>3 DEF RingTypeOK, CopySample
<1>10. ASSUME ReleaseSlots PROVE RingTypeOK'
  BY <1>10 DEF RingTypeOK, ReleaseSlots, Without
<1>11. ASSUME SendPacket PROVE RingTypeOK'
  BY <1>11 DEF RingTypeOK, SendPacket
<1>12. ASSUME UNCHANGED ringVars PROVE RingTypeOK'
  BY <1>12 DEF RingTypeOK, ringVars
<1>13. QED
  BY <1>1, <1>2, <1>3, <1>4, <1>5, <1>6, <1>7, <1>8, <1>9, <1>10, <1>11, <1>12
     DEF RingNext, ProducerStep, ConsumerStep

LEMMA IndexesOfType == ASSUME RingTypeOK PROVE Indexes
BY LenProperties DEF RingTypeOK, Indexes

-----------------------------------------------------------------------------
(* The cyclic order of the indexes.                                        *)

LEMMA WriterNext ==
  ASSUME Indexes, Writer, Reader, [RingNext]_ringVars PROVE Writer'
<1>1. ASSUME NEW n \in 1 .. Block, BeginBlock(n) PROVE Writer'
  <2>1. /\ Held(qHead, qTail) \in Int
        /\ Held(qTail, qTail) = 0 /\ Held(qHead, qHead) = 0
    BY DEF Indexes, Held
  <2>2. InOrder(qTail, qTail, qHead) /\ InOrder(qTail, qHead, qHead)
    BY <2>1 DEF InOrder
  <2>3. QED BY <1>1, <2>2 DEF BeginBlock, Writer, InOrder
<1>2. ASSUME NEW s \in Samples, StoreSample(s) PROVE Writer'
  <2>1. Held(Succ(head), tailSeen) = Held(head, tailSeen) + 1
    BY <1>2, OneFurther DEF Indexes, StoreSample
  <2>2. Succ(head) # qHead
    BY <1>2 DEF Indexes, StoreSample, Writer, InOrder, Held, Succ
  <2>3. Held(Succ(head), qHead) = Held(head, qHead) + 1
    BY <2>2, OneFurther DEF Indexes
  <2>4. /\ Held(head, qHead) \in Int /\ Held(qHead, tailSeen) \in Int
    BY DEF Indexes, Held
  <2>5. InOrder(tailSeen, qHead, Succ(head))
    BY <1>2, <2>1, <2>3, <2>4 DEF StoreSample, Writer, InOrder
  <2>6. QED BY <1>2, <2>5 DEF StoreSample, Writer, InOrder
<1>3. ASSUME Publish PROVE Writer'
  BY <1>3 DEF Publish, Writer
<1>4. ASSUME DropHeld PROVE Writer'
  <2>1. filling => InOrder(tailSeen, headSeen, qHead)
    BY <1>4, OrderSplits DEF Indexes, DropHeld, Writer, Reader
  <2>2. QED BY <1>4, <2>1 DEF DropHeld, Writer
<1>5. ASSUME ReleaseSlots PROVE Writer'
  <2>1. InOrder(qTail, tail, qHead)
    BY <1>5, Walk DEF Indexes, ReleaseSlots, Reader
  <2>2. filling => InOrder(tailSeen, tail, qHead)
    BY <2>1, OrderSplits DEF Indexes, Writer
  <2>3. QED BY <1>5, <2>2 DEF ReleaseSlots, Writer
<1>6. ASSUME UNCHANGED <<index, producer>> PROVE Writer'
  BY <1>6 DEF Writer
<1>7. ASSUME DropSample PROVE Writer'
  BY <1>7 DEF DropSample, Writer
<1>8. QED
  BY <1>1, <1>2, <1>3, <1>4, <1>5, <1>6, <1>7
     DEF RingNext, ProducerStep, ConsumerStep, ringVars, RequestReset, SeeReset,
         SeeNoReset, CatchUp, LookThere, LookNotYet, CopySample, SendPacket

(* With a call under way nothing published is beyond the producer's head.  *)
LEMMA HeadAhead ==
  ASSUME Indexes, Writer, filling
  PROVE  /\ InOrder(qTail, qHead, head)
         /\ Held(qHead, qTail) <= Held(head, qTail)
         /\ head \notin InUse
<1>1. InOrder(qTail, qHead, head)
  BY OrderJoins DEF Indexes, Writer
<1>2. Held(qHead, qTail) <= Held(head, qTail)
  BY <1>1, OnTheRing DEF Indexes, InOrder
<1>3. ASSUME NEW n \in 0 .. Held(qHead, qTail) - 1 PROVE Plus(qTail, n) # head
  <2>1. n \in 0 .. Held(head, qTail) /\ n < Held(head, qTail)
    <3>1. Held(head, qTail) \in Int /\ Held(qHead, qTail) \in Int
      BY OnTheRing DEF Indexes
    <3>2. QED BY <1>2, <3>1
  <2>2. QED BY <2>1, Walk DEF Indexes
<1>4. QED BY <1>1, <1>2, <1>3 DEF InUse

LEMMA ReaderNext ==
  ASSUME RingTypeOK, Indexes, Writer, Reader, [RingNext]_ringVars PROVE Reader'
<1>1. ASSUME ProducerStep PROVE Reader'
  <2>1. ASSUME Publish PROVE Reader'
    <3>1. Held(qHead, qTail) <= Held(head, qTail)
      BY <2>1, HeadAhead DEF Publish
    <3>2. pacer = "drop" => InOrder(qTail, headSeen, head)
      BY <2>1, HeadAhead, OrderJoins DEF Indexes, Publish, Reader
    <3>3. /\ Held(head, qTail) \in Int /\ Held(qHead, qTail) \in Int
          /\ Packet \in Int
      BY DEF Indexes, Held
    <3>4. pacer = "copy" => Packet <= Held(head, qTail)
      BY <3>1, <3>3 DEF Reader
    <3>5. QED BY <2>1, <3>2, <3>4 DEF Publish, Reader, InOrder
  <2>2. QED BY <1>1, <2>1 DEF ProducerStep, StoreSample, DropSample, Reader
<1>2. ASSUME SeeReset \/ SeeNoReset PROVE Reader'
  BY <1>2 DEF SeeReset, SeeNoReset, Reader
<1>3. ASSUME CatchUp PROVE Reader'
  BY <1>3, OnTheRing DEF Indexes, CatchUp, Reader, InOrder
<1>4. ASSUME DropHeld PROVE Reader'
  BY <1>4 DEF DropHeld, Reader
<1>5. ASSUME LookThere \/ LookNotYet PROVE Reader'
  <2>1. Plus(qTail, 0) = qTail
    BY DEF Indexes, Plus
  <2>2. QED BY <1>5, <2>1 DEF LookThere, LookNotYet, Reader
<1>6. ASSUME CopySample PROVE Reader'
  <2>1. Len(buf') = Len(buf) + 1
    BY <1>6, AppendProperties DEF RingTypeOK, CopySample
  <2>2. Succ(tail) = Plus(qTail, Len(buf) + 1)
    BY <1>6, PlusSucc, OnTheRing DEF Indexes, CopySample, Reader
  <2>3. QED BY <1>6, <2>1, <2>2 DEF CopySample, Reader
<1>7. ASSUME ReleaseSlots PROVE Reader'
  BY <1>7 DEF ReleaseSlots, Reader
<1>8. ASSUME SendPacket PROVE Reader'
  BY <1>8 DEF SendPacket, Reader
<1>9. ASSUME UNCHANGED <<index, consumer>> PROVE Reader'
  BY <1>9 DEF Reader
<1>10. QED
  BY <1>1, <1>2, <1>3, <1>4, <1>5, <1>6, <1>7, <1>8, <1>9
     DEF RingNext, ConsumerStep, ringVars, RequestReset, BeginBlock

-----------------------------------------------------------------------------
(* How much of a block has been stored.                                    *)

LEMMA ProgressNext ==
  ASSUME Indexes, Writer, Progress, [RingNext]_ringVars PROVE Progress'
<1> DEFINE room == Cap - 1 - Held(qHead, tailSeen)
           done == offered - left
<1>0. /\ Held(head, qHead) \in 0 .. Cap - 1 /\ Held(qHead, tailSeen) \in 0 .. Cap - 1
      /\ Held(head, tailSeen) \in 0 .. Cap - 1
  BY DEF Indexes, Held
<1>1. ASSUME NEW n \in 1 .. Block, BeginBlock(n) PROVE Progress'
  <2>1. Held(qHead, qHead) = 0 /\ Held(qHead, qTail) \in 0 .. Cap - 1
    BY DEF Indexes, Held
  <2>2. QED BY <1>1, <2>1 DEF BeginBlock, Progress
<1>2. ASSUME NEW s \in Samples, StoreSample(s) PROVE Progress'
  <2>1. Held(head, tailSeen) # Cap - 1
    BY <1>2 DEF Indexes, StoreSample, Held, Succ
  <2>2. Succ(head) # qHead
    BY <1>2 DEF Indexes, StoreSample, Writer, InOrder, Held, Succ
  <2>3. Held(Succ(head), qHead) = Held(head, qHead) + 1
    BY <2>2, OneFurther DEF Indexes
  <2>4. Held(head, qHead) < room
    BY <1>0, <1>2, <2>1 DEF StoreSample, Writer, InOrder
  <2>5. Held(head, qHead) = done /\ left <= offered
    BY <1>0, <1>2, <2>4 DEF StoreSample, Progress, Indexes
  <2>6. Held(Succ(head), qHead) = done + 1 /\ done + 1 <= room
    BY <1>0, <2>3, <2>4, <2>5 DEF Indexes
  <2>7. /\ left - 1 <= offered
        /\ Held(Succ(head), qHead) =
             IF offered - (left - 1) < room THEN offered - (left - 1) ELSE room
    BY <1>0, <2>5, <2>6 DEF Indexes
  <2>8. QED BY <1>2, <2>7 DEF StoreSample, Progress
<1>3. ASSUME DropSample PROVE Progress'
  <2>1. Held(head, tailSeen) = Cap - 1
    BY <1>3, OneFurther DEF Indexes, DropSample
  <2>2. Held(head, qHead) = room
    BY <1>0, <1>3, <2>1 DEF DropSample, Writer, InOrder
  <2>3. left <= offered /\ ~(done < room)
    BY <1>0, <1>3, <2>2 DEF DropSample, Progress, Indexes
  <2>4. /\ left - 1 <= offered
        /\ ~(offered - (left - 1) < room)
    BY <1>0, <2>3 DEF Indexes
  <2>5. QED BY <1>3, <2>2, <2>4 DEF DropSample, Progress
<1>4. ASSUME Publish PROVE Progress'
  BY <1>4 DEF Publish, Progress
<1>5. ASSUME UNCHANGED <<qHead, producer>> PROVE Progress'
  BY <1>5 DEF Progress
<1>6. QED
  BY <1>1, <1>2, <1>3, <1>4, <1>5
     DEF RingNext, ProducerStep, ConsumerStep, ringVars, RequestReset, SeeReset,
         SeeNoReset, CatchUp, DropHeld, LookThere, LookNotYet, CopySample,
         ReleaseSlots, SendPacket

-----------------------------------------------------------------------------
(* What was held at the last request to drop it.                           *)

LEMMA OldestNext ==
  ASSUME Indexes, Writer, Reader, Oldest, [RingNext]_ringVars PROVE Oldest'
<1>0. Held(qHead, qTail) \in 0 .. Cap - 1
  BY DEF Indexes, Held
<1>1. ASSUME Publish PROVE Oldest'
  <2>1. Held(qHead, qTail) <= Held(head, qTail)
    BY <1>1, HeadAhead DEF Publish
  <2>2. Held(head, qTail) \in 0 .. Cap - 1
    BY DEF Indexes, Held
  <2>3. old <= Held(head, qTail)
    BY <1>0, <2>1, <2>2 DEF Oldest, Indexes
  <2>4. QED BY <1>1, <2>3 DEF Publish, Oldest
<1>2. ASSUME RequestReset PROVE Oldest'
  BY <1>0, <1>2 DEF RequestReset, Oldest
<1>3. ASSUME SeeReset \/ SeeNoReset \/ LookThere \/ LookNotYet PROVE Oldest'
  BY <1>3 DEF SeeReset, SeeNoReset, LookThere, LookNotYet, Oldest
<1>4. ASSUME CatchUp PROVE Oldest'
  BY <1>4 DEF CatchUp, Oldest
<1>5. ASSUME DropHeld PROVE Oldest'
  <2>1. /\ Held(headSeen, qTail) \in 0 .. Cap - 1
        /\ Held(qHead, headSeen) \in 0 .. Cap - 1
    BY DEF Indexes, Held
  <2>2. Without(old, Held(headSeen, qTail)) <= Held(qHead, headSeen)
    BY <1>0, <1>5, <2>1 DEF DropHeld, Oldest, Reader, InOrder, Without, Indexes
  <2>3. ~reset => Without(old, Held(headSeen, qTail)) = 0
    BY <1>5, <2>1 DEF DropHeld, Oldest, Without, Indexes
  <2>4. QED BY <1>5, <2>2, <2>3 DEF DropHeld, Oldest
<1>6. ASSUME ReleaseSlots PROVE Oldest'
  <2>1. Held(qHead, tail) = Held(qHead, qTail) - Packet
    BY <1>6, Walk DEF Indexes, ReleaseSlots, Reader
  <2>2. Without(old, Packet) <= Held(qHead, tail)
    BY <1>0, <1>6, <2>1 DEF ReleaseSlots, Oldest, Reader, Without, Indexes
  <2>3. ~reset => Without(old, Packet) = 0
    BY <1>6 DEF ReleaseSlots, Oldest, Without
  <2>4. QED BY <1>6, <2>2, <2>3 DEF ReleaseSlots, Oldest
<1>7. ASSUME SendPacket \/ CopySample PROVE Oldest'
  BY <1>7 DEF SendPacket, CopySample, Oldest
<1>8. ASSUME UNCHANGED <<index, consumer, reset, old>> PROVE Oldest'
  BY <1>8 DEF Oldest
<1>9. QED
  BY <1>1, <1>2, <1>3, <1>4, <1>5, <1>6, <1>7, <1>8
     DEF RingNext, ProducerStep, ConsumerStep, ringVars, BeginBlock, StoreSample,
         DropSample

-----------------------------------------------------------------------------
(* What the pacer has copied.                                              *)

LEMMA CopiedNext ==
  ASSUME RingTypeOK, Indexes, Writer, Reader, Copied, [RingNext]_ringVars
  PROVE  Copied'
<1>1. ASSUME NEW s \in Samples, StoreSample(s) PROVE Copied'
  <2>1. ASSUME pacer = "copy", NEW n \in 1 .. Len(buf)
        PROVE  buf[n] = slot'[Plus(qTail, n - 1)]
    <3>1. n - 1 \in 0 .. Held(qHead, qTail) - 1
      BY <2>1 DEF Reader, Indexes, Held
    <3>2. Plus(qTail, n - 1) # head
      <4>1. Plus(qTail, n - 1) \in InUse
        BY <3>1 DEF InUse
      <4>2. QED BY <1>1, <4>1, HeadAhead DEF StoreSample
    <3>3. buf[n] = slot[Plus(qTail, n - 1)]
      BY <2>1 DEF Copied
    <3>4. Plus(qTail, n - 1) \in Slots
      BY <3>1 DEF Plus, Held, Indexes
    <3>5. QED BY <1>1, <3>2, <3>3, <3>4 DEF StoreSample, RingTypeOK
  <2>2. QED BY <1>1, <2>1 DEF StoreSample, Copied
<1>2. ASSUME LookThere PROVE Copied'
  BY <1>2 DEF LookThere, Copied, Reader
<1>3. ASSUME CopySample PROVE Copied'
  <2>1. slot[tail] \in Samples /\ buf \in Seq(Samples)
    BY DEF RingTypeOK
  <2>2. /\ Len(buf') = Len(buf) + 1
        /\ \A n \in 1 .. Len(buf) : buf'[n] = buf[n]
        /\ buf'[Len(buf) + 1] = slot[tail]
    BY <1>3, <2>1, AppendProperties DEF CopySample
  <2>3. tail = Plus(qTail, Len(buf))
    BY <1>3 DEF CopySample, Reader
  <2>4. ASSUME NEW n \in 1 .. Len(buf) + 1
        PROVE  buf'[n] = slot[Plus(qTail, n - 1)]
    <3>1. CASE n = Len(buf) + 1
      <4>1. n - 1 = Len(buf)
        BY <3>1 DEF Indexes
      <4>2. QED BY <2>2, <2>3, <3>1, <4>1
    <3>2. CASE n # Len(buf) + 1
      <4>1. n \in 1 .. Len(buf)
        BY <3>2 DEF Indexes
      <4>2. buf[n] = slot[Plus(qTail, n - 1)]
        BY <1>3, <4>1 DEF CopySample, Copied
      <4>3. QED BY <2>2, <4>1, <4>2
    <3>3. QED BY <3>1, <3>2
  <2>5. QED BY <1>3, <2>2, <2>4 DEF CopySample, Copied
<1>4. ASSUME pacer' # "copy" PROVE Copied'
  BY <1>4 DEF Copied
<1>5. ASSUME UNCHANGED <<qTail, slot, consumer>> PROVE Copied'
  BY <1>5 DEF Copied
<1>6. QED
  BY <1>1, <1>2, <1>3, <1>4, <1>5
     DEF RingNext, ProducerStep, ConsumerStep, ringVars, BeginBlock, DropSample,
         Publish, RequestReset, SeeReset, SeeNoReset, CatchUp, DropHeld,
         LookNotYet, ReleaseSlots, SendPacket

-----------------------------------------------------------------------------
LEMMA RingInvInit == ASSUME RingInit PROVE RingInv
<1>1. RingTypeOK
  BY DEF RingInit, RingTypeOK
<1>2. Len(buf) = 0 /\ Held(qHead, qTail) = 0
  BY DEF RingInit, Held
<1>3. QED BY <1>1, <1>2 DEF RingInit, RingInv, Writer, Progress, Reader, Oldest, Copied

LEMMA RingInvNext == ASSUME RingInv, [RingNext]_ringVars PROVE RingInv'
BY IndexesOfType, RingTypeNext, WriterNext, ProgressNext, ReaderNext, OldestNext,
   CopiedNext DEF RingInv

LEMMA RingInvAlways == RingSafe => []RingInv
<1>1. QED BY RingInvInit, RingInvNext, PTL DEF RingSafe

(* No variable leaves its type: no index leaves the arrays, and the packet *)
(* buffer never overflows.                                                 *)
THEOREM RingTypeCorrect == RingSafe => []RingTypeOK
<1>1. RingInv => RingTypeOK
  BY DEF RingInv
<1>2. QED BY <1>1, RingInvAlways, PTL

(* The arrays shared without a lock are never read and written at once.    *)
THEOREM RingHasNoRace == RingSafe => []NoSharedSlot
<1>1. RingInv => NoSharedSlot
  <2> SUFFICES ASSUME RingInv PROVE NoSharedSlot
    OBVIOUS
  <2>0. Indexes /\ Writer /\ Reader
    BY IndexesOfType DEF RingInv
  <2>1. ASSUME pacer = "copy", NEW n \in 0 .. Packet - Len(buf) - 1
        PROVE  Plus(tail, n) \in InUse
    <3>1. /\ Len(buf) + n \in 0 .. Held(qHead, qTail) - 1
          /\ Len(buf) \in 0 .. Cap - 1 /\ n \in 0 .. Cap - 1
          /\ Len(buf) + n <= Cap - 1
      BY <2>0, <2>1 DEF Indexes, Reader, Held
    <3>2. Plus(tail, n) = Plus(qTail, Len(buf) + n)
      BY <2>0, <2>1, <3>1, PlusPlus DEF Indexes, Reader
    <3>3. QED BY <3>1, <3>2 DEF InUse
  <2>2. filling => head \notin InUse
    BY <2>0, HeadAhead
  <2>3. QED BY <2>1, <2>2 DEF NoSharedSlot, Unread
<1>2. QED BY <1>1, RingInvAlways, PTL

(* Samples are given up only for want of room.                             *)
THEOREM RingStoresAll == RingSafe => []StoresWhatFits
<1>1. RingInv => StoresWhatFits
  <2> SUFFICES ASSUME RingInv, filling, left = 0
               PROVE  Held(head, qHead) =
                        IF offered < Cap - 1 - Held(qHead, tailSeen)
                        THEN offered ELSE Cap - 1 - Held(qHead, tailSeen)
    BY DEF StoresWhatFits
  <2>1. offered - left = offered
    BY IndexesOfType DEF RingInv, Indexes
  <2>2. QED BY <2>1 DEF RingInv, Progress
<1>2. QED BY <1>1, RingInvAlways, PTL

(* What was held at a request to drop it goes into no later packet.        *)
THEOREM RingDropsOld == RingSafe => []FreshAfterReset
<1>1. RingInv => FreshAfterReset
  BY DEF RingInv, Oldest, FreshAfterReset
<1>2. QED BY <1>1, RingInvAlways, PTL

-----------------------------------------------------------------------------
(* The ring implements the abstract queue.                                 *)

(* A stretch of n slots from t on, as a sequence.                          *)
Stretch(f, t, n) == [k \in 1 .. n |-> f[Plus(t, k - 1)]]

LEMMA StretchIsSeq ==
  ASSUME NEW f \in [Slots -> Samples], NEW t \in Slots, NEW n \in 0 .. Cap - 1
  PROVE  /\ Stretch(f, t, n) \in [1 .. n -> Samples]
         /\ Stretch(f, t, n) \in Seq(Samples)
         /\ Len(Stretch(f, t, n)) = n
         /\ \A k \in 1 .. n : Stretch(f, t, n)[k] = f[Plus(t, k - 1)]
<1>1. ASSUME NEW k \in 1 .. n PROVE f[Plus(t, k - 1)] \in Samples
  <2>1. Plus(t, k - 1) \in Slots
    BY DEF Plus
  <2>2. QED BY <2>1
<1>2. Stretch(f, t, n) \in [1 .. n -> Samples]
  BY <1>1 DEF Stretch
<1>3. Stretch(f, t, n) \in Seq(Samples)
  BY <1>2, SeqDef
<1>4. Len(Stretch(f, t, n)) = n
  BY <1>2, <1>3, LenProperties
<1>5. QED BY <1>2, <1>3, <1>4 DEF Stretch

(* The first n samples of a stretch, and the rest of it.                   *)
LEMMA StretchSplits ==
  ASSUME NEW f \in [Slots -> Samples], NEW t \in Slots, NEW u \in Slots,
         NEW h \in Slots, InOrder(t, u, h)
  PROVE  /\ SubSeq(Stretch(f, t, Held(h, t)), Held(u, t) + 1, Held(h, t)) =
               Stretch(f, u, Held(h, u))
         /\ SubSeq(Stretch(f, t, Held(h, t)), 1, Held(u, t)) =
               Stretch(f, t, Held(u, t))
         /\ Stretch(f, t, Held(h, t)) =
               Stretch(f, t, Held(u, t)) \o Stretch(f, u, Held(h, u))
<1> DEFINE all   == Stretch(f, t, Held(h, t))
           first == Stretch(f, t, Held(u, t))
           rest  == Stretch(f, u, Held(h, u))
           a     == Held(u, t)
           b     == Held(h, u)
<1>1. /\ a \in 0 .. Cap - 1 /\ b \in 0 .. Cap - 1
      /\ Held(h, t) \in 0 .. Cap - 1 /\ Held(h, t) = b + a
      /\ Plus(t, a) = u
  BY DEF Held, InOrder, Plus
<1>2. /\ all \in Seq(Samples) /\ Len(all) = Held(h, t)
      /\ \A k \in 1 .. Held(h, t) : all[k] = f[Plus(t, k - 1)]
  BY <1>1, StretchIsSeq
<1>3. /\ first \in Seq(Samples) /\ Len(first) = a
      /\ \A k \in 1 .. a : first[k] = f[Plus(t, k - 1)]
  BY <1>1, StretchIsSeq
<1>4. /\ rest \in Seq(Samples) /\ Len(rest) = b
      /\ \A k \in 1 .. b : rest[k] = f[Plus(u, k - 1)]
  BY <1>1, StretchIsSeq
<1> HIDE DEF all, first, rest, a, b
<1>5. /\ a \in Nat /\ b \in Nat /\ Held(h, t) = a + b
      /\ a \in Int /\ b \in Int /\ Len(all) = a + b
  BY <1>1, <1>2
<1>6. \A k \in 1 .. a + b : all[k] \in Samples
  BY <1>2, <1>5, ElementOfSeq
<1>7. ASSUME NEW k \in 1 .. b PROVE rest[k] = all[a + k]
  <2>1. Plus(u, k - 1) = Plus(t, a + k - 1)
    BY <1>1, <1>5 DEF Plus
  <2>2. a + k \in 1 .. a + b /\ (a + k) - 1 = a + k - 1
    BY <1>5
  <2>3. QED BY <1>2, <1>4, <1>5, <2>1, <2>2
<1>8. ASSUME NEW k \in 1 .. a PROVE first[k] = all[k]
  <2>1. k \in 1 .. a + b
    BY <1>5
  <2>2. QED BY <1>2, <1>3, <1>5, <2>1
<1>9. SubSeq(all, a + 1, a + b) = rest
  <2>1. \A k \in a + 1 .. a + b : all[k] \in Samples
    BY <1>5, <1>6
  <2>2. /\ SubSeq(all, a + 1, a + b) \in Seq(Samples)
        /\ Len(SubSeq(all, a + 1, a + b)) = b
        /\ \A k \in 1 .. b : SubSeq(all, a + 1, a + b)[k] = all[a + k]
    <3>1. a + 1 \in Int /\ a + b \in Int
      BY <1>5
    <3>2. /\ SubSeq(all, a + 1, a + b) \in Seq(Samples)
          /\ Len(SubSeq(all, a + 1, a + b)) =
               IF a + 1 <= a + b THEN (a + b) - (a + 1) + 1 ELSE 0
          /\ \A k \in 1 .. (a + b) - (a + 1) + 1 :
               SubSeq(all, a + 1, a + b)[k] = all[(a + 1) + k - 1]
      BY <2>1, <3>1, SubSeqProperties
    <3>3. \A k \in 1 .. b : (a + 1) + k - 1 = a + k
      BY <1>5
    <3>4. (a + b) - (a + 1) + 1 = b /\ (a + 1 <= a + b \/ b = 0)
      BY <1>5
    <3>5. QED BY <3>2, <3>3, <3>4, <1>5
  <2>3. \A k \in 1 .. b : SubSeq(all, a + 1, a + b)[k] = rest[k]
    BY <1>7, <2>2
  <2>4. QED BY <1>4, <2>2, <2>3, SeqEqual
<1>10. SubSeq(all, 1, a) = first
  <2>1. \A k \in 1 .. a : all[k] \in Samples
    BY <1>5, <1>6
  <2>2. /\ SubSeq(all, 1, a) \in Seq(Samples)
        /\ Len(SubSeq(all, 1, a)) = IF 1 <= a THEN a - 1 + 1 ELSE 0
        /\ \A k \in 1 .. a - 1 + 1 : SubSeq(all, 1, a)[k] = all[1 + k - 1]
    BY <1>5, <2>1, SubSeqProperties
  <2>3. Len(SubSeq(all, 1, a)) = a
    BY <1>5, <2>2
  <2>4. \A k \in 1 .. a : SubSeq(all, 1, a)[k] = first[k]
    BY <1>5, <1>8, <2>2
  <2>5. QED BY <1>3, <2>2, <2>3, <2>4, SeqEqual
<1>11. all = first \o rest
  <2>1. /\ first \o rest \in Seq(Samples)
        /\ Len(first \o rest) = a + b
        /\ \A k \in 1 .. a + b : (first \o rest)[k] =
              IF k <= a THEN first[k] ELSE rest[k - a]
    BY <1>3, <1>4, ConcatProperties
  <2>2. ASSUME NEW k \in 1 .. a + b PROVE (first \o rest)[k] = all[k]
    <3>1. CASE k <= a
      BY <1>5, <1>8, <2>1, <3>1
    <3>2. CASE ~(k <= a)
      <4>1. k - a \in 1 .. b /\ a + (k - a) = k
        BY <1>5, <3>2
      <4>2. QED BY <1>7, <2>1, <3>2, <4>1
    <3>3. QED BY <3>1, <3>2
  <2>3. QED BY <1>2, <1>5, <2>1, <2>2, SeqEqual
<1>12. QED BY <1>5, <1>9, <1>10, <1>11 DEF all, first, rest, a, b

LEMMA PublishedIsStretch ==
  ASSUME RingTypeOK
  PROVE  /\ Published = Stretch(slot, qTail, Held(qHead, qTail))
         /\ Held(qHead, qTail) \in 0 .. Cap - 1
         /\ Len(Published) = Held(qHead, qTail)
         /\ Published \in Seq(Samples)
<1>1. /\ Held(qHead, qTail) \in 0 .. Cap - 1 /\ qTail \in Slots
      /\ slot \in [Slots -> Samples]
  BY DEF RingTypeOK, Held
<1>2. Published = Stretch(slot, qTail, Held(qHead, qTail))
  BY DEF Published, Stretch
<1>3. QED BY <1>1, <1>2, StretchIsSeq

QueueStep == [Queue!Next]_(Queue!queueVars)

(* Storing a sample changes nothing of what is published.                  *)
LEMMA StoreIsHidden ==
  ASSUME RingTypeOK, Indexes, Writer, NEW s \in Samples, StoreSample(s)
  PROVE  Published' = Published
<1>1. ASSUME NEW n \in 1 .. Held(qHead, qTail)
      PROVE  slot'[Plus(qTail, n - 1)] = slot[Plus(qTail, n - 1)]
  <2>1. n - 1 \in 0 .. Held(qHead, qTail) - 1
    BY DEF Indexes, Held
  <2>2. Plus(qTail, n - 1) # head
    <3>1. Plus(qTail, n - 1) \in InUse
      BY <2>1 DEF InUse
    <3>2. QED BY <3>1, HeadAhead DEF StoreSample
  <2>3. Plus(qTail, n - 1) \in Slots
    BY <2>1 DEF Plus, Held, Indexes
  <2>4. QED BY <2>2, <2>3 DEF StoreSample, RingTypeOK
<1>2. QED BY <1>1 DEF StoreSample, Published

LEMMA PublishIsOffer ==
  ASSUME RingTypeOK, Indexes, Writer, Publish PROVE QueueStep
<1> DEFINE k   == Held(head, qHead)
           new == Stretch(slot, qHead, k)
<1>1. InOrder(qTail, qHead, head)
  BY HeadAhead DEF Publish
<1>2. /\ k \in 0 .. Cap - 1 /\ Held(head, qTail) \in 0 .. Cap - 1
      /\ Held(qHead, qTail) \in 0 .. Cap - 1
      /\ Held(head, qTail) = k + Held(qHead, qTail)
  BY <1>1 DEF Indexes, Held, InOrder
<1>3. Published' = Stretch(slot, qTail, Held(head, qTail))
  BY DEF Publish, Published, Stretch
<1>4. Published' = Published \o new
  <2>1. Published = Stretch(slot, qTail, Held(qHead, qTail))
    BY PublishedIsStretch
  <2>2. Stretch(slot, qTail, Held(head, qTail)) =
          Stretch(slot, qTail, Held(qHead, qTail)) \o new
    <3>1. /\ slot \in [Slots -> Samples]
          /\ qTail \in Slots /\ qHead \in Slots /\ head \in Slots
      BY DEF RingTypeOK
    <3>2. QED BY ONLY RingAssumption, <1>1, <3>1, StretchSplits
  <2>3. QED BY <1>3, <2>1, <2>2
<1>5. new \in [1 .. k -> Samples]
  BY <1>2, StretchIsSeq DEF RingTypeOK
<1>6. Outgoing' = Outgoing
  BY DEF Publish, Outgoing
<1>7. CASE k = 0
  <2>1. head = qHead
    BY <1>7 DEF Held, Indexes
  <2>2. Published' = Published
    BY <1>3, <2>1, PublishedIsStretch
  <2>3. QED BY <1>6, <2>2 DEF QueueStep, Queue!queueVars
<1>8. CASE k # 0
  <2>1. k \in 1 .. (Cap - 1 - Len(Published))
    BY <1>2, <1>8, PublishedIsStretch
  <2>2. Queue!Offer
    BY <1>4, <1>5, <1>6, <2>1 DEF Queue!Offer
  <2>3. QED BY <2>2 DEF QueueStep, Queue!Next
<1>9. QED BY <1>7, <1>8

LEMMA DropIsDiscard ==
  ASSUME RingTypeOK, Indexes, Reader, DropHeld PROVE QueueStep
<1> DEFINE k == Held(headSeen, qTail)
<1>1. InOrder(qTail, headSeen, qHead)
  BY DEF DropHeld, Reader
<1>2. /\ k \in 0 .. Cap - 1 /\ Held(qHead, headSeen) \in 0 .. Cap - 1
      /\ Held(qHead, qTail) = Held(qHead, headSeen) + k
  BY <1>1 DEF Indexes, Held, InOrder
<1>3. Published' = Stretch(slot, headSeen, Held(qHead, headSeen))
  BY DEF DropHeld, Published, Stretch
<1>4. Published' = SubSeq(Published, k + 1, Len(Published))
  <2>1. /\ Published = Stretch(slot, qTail, Held(qHead, qTail))
        /\ Len(Published) = Held(qHead, qTail)
    BY PublishedIsStretch
  <2>2. SubSeq(Stretch(slot, qTail, Held(qHead, qTail)), k + 1, Held(qHead, qTail))
          = Stretch(slot, headSeen, Held(qHead, headSeen))
    BY <1>1, StretchSplits DEF RingTypeOK
  <2>3. QED BY <1>3, <2>1, <2>2
<1>5. Outgoing' = Outgoing
  BY DEF DropHeld, Outgoing
<1>6. CASE k = 0
  <2>1. headSeen = qTail
    BY <1>6 DEF Held, Indexes
  <2>2. Published' = Published
    BY <1>3, <2>1, PublishedIsStretch
  <2>3. QED BY <1>5, <2>2 DEF QueueStep, Queue!queueVars
<1>7. CASE k # 0
  <2>1. k \in 1 .. Len(Published)
    BY <1>2, <1>7, PublishedIsStretch
  <2>2. Queue!Discard
    BY <1>4, <1>5, <2>1 DEF Queue!Discard
  <2>3. QED BY <2>2 DEF QueueStep, Queue!Next
<1>8. QED BY <1>6, <1>7

LEMMA ReleaseIsTake ==
  ASSUME RingTypeOK, Indexes, Reader, Copied, ReleaseSlots PROVE QueueStep
<1>1. /\ pacer = "copy" /\ Len(buf) = Packet /\ Packet <= Held(qHead, qTail)
      /\ tail = Plus(qTail, Packet)
  BY DEF ReleaseSlots, Reader
<1>2. InOrder(qTail, tail, qHead) /\ Held(tail, qTail) = Packet
  <2>1. Packet \in 0 .. Held(qHead, qTail)
    BY <1>1 DEF Indexes, Held
  <2>2. QED BY <1>1, <2>1, Walk DEF Indexes
<1>3. Published' = Stretch(slot, tail, Held(qHead, tail))
  BY DEF ReleaseSlots, Published, Stretch
<1>4. /\ Published' = SubSeq(Published, Packet + 1, Len(Published))
      /\ SubSeq(Published, 1, Packet) = Stretch(slot, qTail, Packet)
  <2>1. /\ Published = Stretch(slot, qTail, Held(qHead, qTail))
        /\ Len(Published) = Held(qHead, qTail)
    BY PublishedIsStretch
  <2>2. /\ SubSeq(Stretch(slot, qTail, Held(qHead, qTail)), Held(tail, qTail) + 1,
                  Held(qHead, qTail))
             = Stretch(slot, tail, Held(qHead, tail))
        /\ SubSeq(Stretch(slot, qTail, Held(qHead, qTail)), 1, Held(tail, qTail))
             = Stretch(slot, qTail, Held(tail, qTail))
    <3>1. /\ slot \in [Slots -> Samples]
          /\ qTail \in Slots /\ tail \in Slots /\ qHead \in Slots
      BY DEF RingTypeOK
    <3>2. QED BY ONLY RingAssumption, <1>2, <3>1, StretchSplits
  <2>3. QED BY <1>2, <1>3, <2>1, <2>2
<1>5. buf = Stretch(slot, qTail, Packet)
  <2>1. /\ Stretch(slot, qTail, Packet) \in Seq(Samples)
        /\ Len(Stretch(slot, qTail, Packet)) = Packet
        /\ \A n \in 1 .. Packet :
             Stretch(slot, qTail, Packet)[n] = slot[Plus(qTail, n - 1)]
    <3>1. Packet \in 0 .. Cap - 1
      OBVIOUS
    <3>2. QED BY <3>1, StretchIsSeq DEF RingTypeOK
  <2>2. buf \in Seq(Samples)
    BY DEF RingTypeOK
  <2>3. \A n \in 1 .. Packet : buf[n] = slot[Plus(qTail, n - 1)]
    BY <1>1 DEF Copied
  <2>4. QED BY <1>1, <2>1, <2>2, <2>3, SeqEqual
<1>6. Outgoing = <<>> /\ Outgoing' = buf
  BY <1>1 DEF ReleaseSlots, Outgoing
<1>7. Queue!Take
  BY <1>1, <1>4, <1>5, <1>6, PublishedIsStretch DEF Queue!Take
<1>8. QED BY <1>7 DEF QueueStep, Queue!Next

LEMMA SendIsDeliver ==
  ASSUME RingTypeOK, Indexes, Reader, SendPacket PROVE QueueStep
<1>1. buf # <<>>
  <2>1. Len(buf) = Packet /\ Packet # 0
    BY DEF SendPacket, Reader
  <2>2. QED BY <2>1
<1>2. Outgoing = buf /\ Outgoing' = <<>>
  BY DEF SendPacket, Outgoing
<1>3. Published' = Published
  BY DEF SendPacket, Published
<1>4. Queue!Deliver
  BY <1>1, <1>2, <1>3 DEF Queue!Deliver
<1>5. QED BY <1>4 DEF QueueStep, Queue!Next

LEMMA RingStepIsQueueStep ==
  ASSUME RingInv, [RingNext]_ringVars PROVE QueueStep
<1>0. RingTypeOK /\ Indexes /\ Writer /\ Reader /\ Copied
  BY IndexesOfType DEF RingInv
<1>1. ASSUME Published' = Published, Outgoing' = Outgoing PROVE QueueStep
  BY <1>1 DEF QueueStep, Queue!queueVars
<1>2. ASSUME NEW s \in Samples, StoreSample(s) PROVE QueueStep
  <2>1. Published' = Published
    BY <1>0, <1>2, StoreIsHidden
  <2>2. Outgoing' = Outgoing
    BY <1>2 DEF StoreSample, Outgoing
  <2>3. QED BY <1>1, <2>1, <2>2
<1>3. ASSUME UNCHANGED <<index, slot, buf>>, pacer' # "send", pacer # "send"
      PROVE  QueueStep
  BY <1>1, <1>3 DEF Published, Outgoing
<1>4. ASSUME UNCHANGED <<index, slot, buf, pacer>> PROVE QueueStep
  BY <1>1, <1>4 DEF Published, Outgoing
<1>5. ASSUME CopySample PROVE QueueStep
  BY <1>1, <1>5 DEF CopySample, Published, Outgoing
<1>6. QED
  BY <1>0, <1>2, <1>3, <1>4, <1>5, PublishIsOffer, DropIsDiscard, ReleaseIsTake,
     SendIsDeliver
     DEF RingNext, ProducerStep, ConsumerStep, ringVars, BeginBlock, DropSample,
         RequestReset, SeeReset, SeeNoReset, CatchUp, LookThere, LookNotYet

(* The ring is a first-in first-out queue: no sample is repeated, moved or *)
(* made up, whatever the sizes and however the threads interleave.         *)
THEOREM ImplementsSafeQueue == RingSafe => Queue!Safe
<1>1. RingInit => Queue!Init
  BY DEF RingInit, Queue!Init, Published, Outgoing, Held
<1>2. QED
  BY <1>1, RingInvAlways, RingStepIsQueueStep, PTL
     DEF RingSafe, Queue!Safe, QueueStep

-----------------------------------------------------------------------------
(* The link.                                                               *)

Asleep ==
  /\ pacer # "tick" => awake
  /\ build # "no" => pacer = "send"
  /\ awake /\ poll # "idle" => raced
  /\ poll = "activate" /\ ~raced => reset
  /\ ~raced /\ pacer # "tick" => ~reset

(* The packets sent to this client, the counter and the number of the      *)
(* packet being built go together.  A client that has left is of no        *)
(* concern: the packet built for it last is counted and not sent.          *)
Numbers ==
  /\ number \in 0 .. SeqMod - 1 /\ seq \in 0 .. SeqMod - 1
  /\ sent \in 0 .. SeqMod - 1
  /\ poll # "idle" /\ ~raced => sent = 0
  /\ poll \in {"reset", "activate"} /\ ~raced => seq = 0
  /\ poll = "idle" /\ active /\ build \in {"no", "numbered"} /\ ~raced => seq = sent
  /\ build = "numbered" /\ active /\ ~raced => number = sent
  /\ build = "counted" /\ active /\ ~raced =>
       number = sent /\ seq = Following(sent)
  /\ build = "out" /\ ~raced => number = sent /\ seq = Following(sent)

Phases ==
  /\ poll \in {"idle", "number", "reset", "activate"}
  /\ build \in {"no", "numbered", "counted", "out"}
  /\ active \in BOOLEAN /\ awake \in BOOLEAN /\ raced \in BOOLEAN
  /\ reset \in BOOLEAN
  /\ dest \subseteq Stations

USE LinkAssumption

-----------------------------------------------------------------------------
(* Every step of the link is a step of the ring or leaves it alone.        *)
LEMMA LinkStepIsRingStep == [LinkNext]_linkVars => [RingNext]_ringVars
<1> SUFFICES ASSUME [LinkNext]_linkVars PROVE [RingNext]_ringVars
  OBVIOUS
<1>1. ASSUME NEW n \in 1 .. Block, AudioBlock(n) PROVE RingNext
  BY <1>1 DEF AudioBlock, RingNext
<1>2. ASSUME NEW c \in Stations, Start(c) PROVE UNCHANGED ringVars
  BY <1>2 DEF Start
<1>3. CASE AudioStep
  BY <1>3 DEF AudioStep, RingNext
<1>4. CASE Stop
  BY <1>4 DEF Stop
<1>5. CASE PollStep
  BY <1>5 DEF PollStep, StartNumbering, AskReset, Activate, RingNext
<1>6. CASE LinkPacerStep
  BY <1>6 DEF LinkPacerStep, Wake, PacerStep, Sleep, NumberPacket, CountPacket,
              FindClient, SendOut, Forget, RingNext, ConsumerStep
<1>7. CASE UNCHANGED linkVars
  BY <1>7 DEF linkVars
<1>8. QED BY <1>1, <1>2, <1>3, <1>4, <1>5, <1>6, <1>7 DEF LinkNext

(* Whatever clients send, the ring they share stays the ring of IqRing: no *)
(* data race, nothing lost while there is room, first in first out.        *)
THEOREM LinkKeepsRing == LinkSafe => RingSafe
<1>1. LinkInit => RingInit
  BY DEF LinkInit
<1>2. QED BY <1>1, LinkStepIsRingStep, PTL DEF LinkSafe, RingSafe

(* So the packets of the stream come out of the promised queue: samples in *)
(* their order, none of them twice and none made up.                       *)
THEOREM LinkIsQueue == LinkSafe => Queue!Safe
<1>1. QED BY LinkKeepsRing, ImplementsSafeQueue, PTL

-----------------------------------------------------------------------------
(* The steps of the ring that leave everything Asleep and Numbers speak of *)
(* as it was, but for the pacer's place.                                   *)
links == <<active, dest, seq, poll, awake, build, number, sent, raced>>

LEMMA AudioKeepsLink ==
  ASSUME [LinkNext]_linkVars, ~Stop, ~PollStep, ~LinkPacerStep,
         \A c \in Stations : ~Start(c)
  PROVE  UNCHANGED <<links, pacer, reset, old>>
<1> USE DEF links, consumer
<1>1. ASSUME NEW n \in 1 .. Block, AudioBlock(n)
      PROVE  UNCHANGED <<links, pacer, reset, old>>
  BY <1>1 DEF AudioBlock, BeginBlock
<1>2. CASE AudioStep
  BY <1>2 DEF AudioStep, ProducerStep, StoreSample, DropSample, Publish
<1>3. CASE UNCHANGED linkVars
  BY <1>3 DEF linkVars, ringVars
<1>4. QED BY <1>1, <1>2, <1>3 DEF LinkNext

LinkInv == Phases /\ Asleep /\ Numbers

LEMMA LinkInvInit == ASSUME LinkInit PROVE LinkInv
<1>1. 0 \in 0 .. SeqMod - 1
  OBVIOUS
<1>2. /\ active \in BOOLEAN /\ ~active
      /\ awake \in BOOLEAN /\ ~awake
      /\ raced \in BOOLEAN /\ ~raced
      /\ reset \in BOOLEAN /\ ~reset
  BY DEF LinkInit, RingInit
<1>3. pacer = "tick" /\ build = "no" /\ poll = "idle" /\ dest \subseteq Stations
  BY DEF LinkInit, RingInit
<1>4. number = 0 /\ seq = 0 /\ sent = 0
  BY DEF LinkInit
<1>5. Phases
  BY <1>2, <1>3 DEF Phases
<1>6. Asleep
  BY <1>2, <1>3 DEF Asleep
<1>7. Numbers
  BY <1>1, <1>2, <1>3, <1>4 DEF Numbers
<1>8. QED BY <1>5, <1>6, <1>7 DEF LinkInv

LEMMA NextNumber ==
  ASSUME NEW n \in 0 .. SeqMod - 1 PROVE Following(n) \in 0 .. SeqMod - 1
BY DEF Following

LEMMA PollKeepsLinkInv ==
  ASSUME LinkInv, PollStep \/ Stop \/ \E c \in Stations : Start(c) PROVE LinkInv'
<1> USE DEF LinkInv, Phases, Asleep, Numbers
<1>1. ASSUME NEW c \in Stations, Start(c) PROVE LinkInv'
  BY <1>1 DEF Start, ringVars, consumer
<1>2. CASE Stop
  BY <1>2 DEF Stop, ringVars, consumer
<1>3. CASE StartNumbering
  BY <1>3 DEF StartNumbering, ringVars, consumer
<1>4. CASE AskReset
  BY <1>4 DEF AskReset, RequestReset, consumer
<1>5. CASE Activate
  BY <1>5 DEF Activate, ringVars, consumer
<1>6. QED BY <1>1, <1>2, <1>3, <1>4, <1>5 DEF PollStep

LEMMA PacerKeepsLinkInv ==
  ASSUME LinkInv, LinkPacerStep PROVE LinkInv'
<1> USE DEF LinkInv, Phases, Asleep, Numbers
<1>1. CASE Wake
  BY <1>1 DEF Wake, ringVars, consumer
<1>2. CASE PacerStep
  <2>1. CASE SeeReset
    BY <1>2, <2>1 DEF PacerStep, SeeReset
  <2>2. CASE SeeNoReset
    BY <1>2, <2>2 DEF PacerStep, SeeNoReset
  <2>3. CASE CatchUp \/ DropHeld \/ LookThere \/ CopySample \/ ReleaseSlots
    BY <1>2, <2>3 DEF PacerStep, CatchUp, DropHeld, LookThere, CopySample, ReleaseSlots
  <2>4. QED BY <1>2, <2>1, <2>2, <2>3 DEF PacerStep
<1>3. CASE Sleep
  BY <1>3 DEF Sleep, LookNotYet
<1>4. CASE NumberPacket
  BY <1>4 DEF NumberPacket, ringVars, consumer
<1>5. CASE CountPacket
  BY <1>5, NextNumber DEF CountPacket, ringVars, consumer
<1>6. CASE FindClient
  BY <1>6 DEF FindClient, ringVars, consumer
<1>7. CASE SendOut
  <2>1. /\ build = "out" /\ pacer = "send" /\ build' = "no" /\ pacer' = "tick"
        /\ awake' \in BOOLEAN /\ ~awake'
        /\ UNCHANGED <<reset, active, dest, seq, poll, raced>>
    BY <1>7 DEF SendOut, SendPacket
  <2>2. number' = 0 /\ sent' = Following(sent) /\ sent' \in 0 .. SeqMod - 1
    BY <1>7, NextNumber DEF SendOut
  <2>3. Phases' /\ Asleep'
    BY <2>1
  <2>4. Numbers'
    BY <2>1, <2>2
  <2>5. QED BY <2>3, <2>4
<1>8. CASE Forget
  <2>1. /\ build = "counted" /\ ~active /\ build' = "no" /\ pacer' = "tick"
        /\ awake' \in BOOLEAN /\ ~awake'
        /\ UNCHANGED <<reset, active, dest, seq, poll, sent, raced>>
    BY <1>8 DEF Forget, SendPacket
  <2>2. number' = 0
    BY <1>8 DEF Forget
  <2>3. Phases' /\ Asleep'
    BY <2>1
  <2>4. Numbers'
    BY <2>1, <2>2
  <2>5. QED BY <2>3, <2>4
<1>9. QED BY <1>1, <1>2, <1>3, <1>4, <1>5, <1>6, <1>7, <1>8 DEF LinkPacerStep

LEMMA LinkInvNext == ASSUME LinkInv, [LinkNext]_linkVars PROVE LinkInv'
<1>1. CASE UNCHANGED <<links, pacer, reset, old>>
  BY <1>1 DEF links, LinkInv, Phases, Asleep, Numbers
<1>2. QED BY <1>1, AudioKeepsLink, PollKeepsLinkInv, PacerKeepsLinkInv

LEMMA LinkInvAlways == LinkSafe => []LinkInv
<1>1. QED BY LinkInvInit, LinkInvNext, PTL DEF LinkSafe

(* No variable leaves its type; the counter wraps where it should.         *)
THEOREM LinkTypeCorrect == LinkSafe => []LinkTypeOK
<1>1. RingTypeOK /\ LinkInv => LinkTypeOK
  BY DEF LinkInv, Phases, Numbers, LinkTypeOK
<1>2. QED BY <1>1, LinkInvAlways, LinkKeepsRing, RingTypeCorrect, PTL

(* A client whose START met the pacer asleep receives packets numbered     *)
(* from 0 without a gap.                                                   *)
THEOREM ClientCountsFromZero == LinkSafe => []NumbersFromZero
<1>1. LinkInv => NumbersFromZero
  BY DEF LinkInv, Numbers, NumbersFromZero
<1>2. QED BY <1>1, LinkInvAlways, PTL

(* And it receives nothing that was queued before it came.                 *)
THEOREM ClientStartsFresh == LinkSafe => []FreshForNewClient
<1>1. LinkInv /\ FreshAfterReset => FreshForNewClient
  BY DEF LinkInv, Asleep, FreshAfterReset, FreshForNewClient
<1>2. QED BY <1>1, LinkInvAlways, LinkKeepsRing, RingDropsOld, PTL

=============================================================================
