----------------------------- MODULE TableProofs ----------------------------
(***************************************************************************)
(* Machine-checked proofs about the two tables of fixed size that are      *)
(* filled from outside: the subscribers of IqStream and the bands of       *)
(* Settings, for tables of any size.                                       *)
(*                                                                         *)
(* IqStream, for any stations and any time-out.  That a packet reaches the *)
(* live rests on what the table says of the stations (Faithful): an entry  *)
(* is as old as its station has been silent, no station has two, and a     *)
(* station with none has timed out or was displaced by MaxSubscribers      *)
(* others that were all heard since.  That stays true while entries age,   *)
(* expire and are taken over.                                              *)
(*                                                                         *)
(* Settings, for any file.  How far the load has come in the file says     *)
(* what the entry being filled holds (Reading); the complete bands are     *)
(* numbered in their order (Numbered), and the table follows the numbers.  *)
(***************************************************************************)

EXTENDS IqStream, Settings, FiniteSetTheorems, WellFoundedInduction, TLAPS

-----------------------------------------------------------------------------
(* IqStream                                                                *)

(* Who holds the lock is who is at work behind it.                         *)
Locked ==
  /\ listener = "hold" <=> owner = "listener"
  /\ pacer = "hold" <=> owner = "pacer"
  /\ audio = "hold" <=> owner = "audio"
  /\ listener # "idle" => sender \in Stations

(* The station has an entry.                                               *)
InTable(s) == \E i \in Entries : table[i] = s

Lost(s) == heard[s] > Timeout \/ CrowdedOut(s)

Faithful ==
  /\ \A i, j \in Entries : table[i] = table[j] /\ table[i] # Nobody => i = j
  /\ \A i \in Entries : table[i] # Nobody => age[i] = heard[table[i]]
  /\ \A s \in Stations : ~InTable(s) => Lost(s)

(* The packet on its way out goes to all of the others.                    *)
Sending == pacer = "hold" => \A s \in Stations \ reached : Lost(s)

(* What any_active remembers, against the table and the blocks miscounted. *)
Remembered ==
  /\ InUse = {} => skipped = 0
  /\ InUse # {} => wasted = 0
  /\ audio \in {"hold", "push"} /\ ~anyActive => skipped = 0
  /\ audio \in {"hold", "push"} /\ anyActive => wasted = 0
  /\ skipped \in 0 .. 1 /\ wasted \in 0 .. 1

StreamIInv == StreamTypeOK /\ Locked /\ Faithful /\ Sending /\ Remembered

(* Whoever stepped, one of the actions was taken, or time passed by.       *)
Silent == UNCHANGED <<table, age, heard>>

-----------------------------------------------------------------------------
(* The types.  One fact is not local: entries looked for are there.        *)

LEMMA EntriesForAreEntries == \A s \in Stations : EntriesFor(s) \subseteq Entries
BY DEF EntriesFor, FirstFree, FirstOf, Stalest, InUse

LEMMA Numbers ==
  /\ MaxSubscribers \in Nat \ {0} /\ Timeout \in Nat /\ TooOld = Timeout + 1
  /\ Ages = 0 .. TooOld /\ 0 \in Ages /\ TooOld \in Ages
  /\ \A n \in Ages : Older(n) \in Ages
  /\ \A m, n \in Ages : m <= n => Older(m) <= Older(n)
  /\ \A n \in Ages : n > Timeout => Older(n) > Timeout
BY StreamAssumption DEF Ages, TooOld, Older

LEMMA TypeInit == StreamInit => StreamTypeOK
<1> SUFFICES ASSUME StreamInit PROVE StreamTypeOK
  OBVIOUS
<1>1. heard \in [Stations -> Ages] /\ age \in [Entries -> Ages]
  BY Numbers DEF StreamInit
<1>2. table \in [Entries -> Stations \union {Nobody}]
  BY DEF StreamInit
<1>3. queued \in 0 .. Bound /\ skipped \in 0 .. 2 /\ wasted \in 0 .. 2
  BY StreamAssumption DEF StreamInit
<1>4. QED BY <1>1, <1>2, <1>3, Zenon DEF StreamInit, StreamTypeOK

LEMMA TableTypeNext ==
  StreamTypeOK /\ Locked /\ [StreamNext]_streamVars =>
    /\ table' \in [Entries -> Stations \union {Nobody}]
    /\ age' \in [Entries -> Ages]
    /\ heard' \in [Stations -> Ages]
<1> SUFFICES ASSUME StreamTypeOK, Locked, [StreamNext]_streamVars
             PROVE  /\ table' \in [Entries -> Stations \union {Nobody}]
                    /\ age' \in [Entries -> Ages]
                    /\ heard' \in [Stations -> Ages]
  OBVIOUS
<1> USE DEF StreamTypeOK, tables
<1>0. 0 \in Ages
  BY Numbers
<1>1. CASE Silent
  BY <1>1 DEF Silent
<1>2. CASE Second
  BY <1>0, <1>2, Numbers DEF Second
<1>3. CASE Touch
  <2>1. sender \in Stations
    BY <1>3 DEF Touch, Locked
  <2>2. QED BY <1>0, <1>3, <2>1, EntriesForAreEntries DEF Touch
<1>4. CASE SendToAll
  BY <1>0, <1>4 DEF SendToAll
<1>5. QED
  BY <1>1, <1>2, <1>3, <1>4
     DEF StreamNext, ListenerStep, PacerStep, AudioStep, Hear, EndTouch, TakePacket,
         EndSend, Block, LookForAny, EndLook, SkipBlock, PushBlock, streamVars, Silent

LEMMA TypeNext ==
  StreamTypeOK /\ Locked /\ [StreamNext]_streamVars => StreamTypeOK'
<1> SUFFICES ASSUME StreamTypeOK, Locked, [StreamNext]_streamVars PROVE StreamTypeOK'
  OBVIOUS
<1>0. /\ table' \in [Entries -> Stations \union {Nobody}]
      /\ age' \in [Entries -> Ages] /\ heard' \in [Stations -> Ages]
  BY TableTypeNext
<1> USE <1>0 DEF StreamTypeOK, listening, pacing, hearing, tables
<1>1. CASE Second \/ UNCHANGED streamVars
  BY <1>1 DEF Second, streamVars
<1>2. ASSUME NEW s \in Stations, Hear(s) PROVE StreamTypeOK'
  BY <1>2 DEF Hear
<1>3. CASE ListenerStep
  BY <1>3 DEF ListenerStep, Touch, EndTouch
<1>4. CASE TakePacket \/ EndSend
  BY <1>4, StreamAssumption DEF TakePacket, EndSend
<1>5. CASE SendToAll
  <2>1. reached' \subseteq Stations
    BY <1>5 DEF SendToAll, InUse
  <2>2. QED BY <1>5, <2>1 DEF SendToAll
<1>6. CASE Block \/ LookForAny \/ EndLook
  BY <1>6 DEF Block, LookForAny, EndLook
<1>7. CASE SkipBlock
  BY <1>7 DEF SkipBlock, UpTo2
<1>8. CASE PushBlock
  BY <1>8, StreamAssumption DEF PushBlock, UpTo2
<1>9. QED
  BY <1>1, <1>2, <1>3, <1>4, <1>5, <1>6, <1>7, <1>8
     DEF StreamNext, PacerStep, AudioStep

LEMMA LockedNext == StreamTypeOK /\ Locked /\ [StreamNext]_streamVars => Locked'
BY DEF StreamTypeOK, Locked, StreamNext, ListenerStep, PacerStep, AudioStep, Second,
       Hear, Touch, EndTouch, TakePacket, SendToAll, EndSend, Block, LookForAny,
       EndLook, SkipBlock, PushBlock, streamVars, listening, pacing, hearing

-----------------------------------------------------------------------------
(* Who is lost stays lost until heard again.                               *)

LEMMA LargerCrowd ==
  ASSUME NEW S \in SUBSET Stations, NEW T \in SUBSET S,
         Cardinality(T) >= MaxSubscribers
  PROVE  Cardinality(S) >= MaxSubscribers
<1>1. IsFiniteSet(S)
  BY StreamAssumption, FS_Subset
<1>2. IsFiniteSet(T) /\ Cardinality(T) <= Cardinality(S)
  BY <1>1, FS_Subset
<1>3. Cardinality(S) \in Nat /\ Cardinality(T) \in Nat
  BY <1>1, <1>2, FS_CardinalityType
<1>4. QED BY <1>2, <1>3, Numbers

LEMMA StaysLost ==
  ASSUME NEW s \in Stations, Lost(s),
         heard[s] > Timeout => heard'[s] > Timeout,
         \A x \in Stations : heard[x] <= heard[s] => heard'[x] <= heard'[s]
  PROVE  Lost(s)'
<1>1. CASE heard[s] > Timeout
  BY <1>1 DEF Lost
<1>2. CASE CrowdedOut(s)
  <2>1. {x \in Stations \ {s} : heard[x] <= heard[s]}
          \subseteq {x \in Stations \ {s} : heard'[x] <= heard'[s]}
    OBVIOUS
  <2>2. QED BY <1>2, <2>1, LargerCrowd DEF CrowdedOut, Lost
<1>3. QED BY <1>1, <1>2 DEF Lost

LEMMA SecondKeepsLost ==
  ASSUME StreamTypeOK, Second, NEW s \in Stations, Lost(s)
  PROVE  Lost(s)'
BY Numbers, StaysLost DEF StreamTypeOK, Second

LEMMA TouchKeepsLost ==
  ASSUME StreamTypeOK, Locked, Touch, NEW s \in Stations, s # sender, Lost(s)
  PROVE  Lost(s)'
<1>1. sender \in Stations /\ heard' = [heard EXCEPT ![sender] = 0]
  BY DEF Touch, Locked
<1>2. heard'[s] = heard[s] /\ heard[s] \in Ages
  BY <1>1 DEF StreamTypeOK
<1>3. \A x \in Stations : heard[x] <= heard[s] => heard'[x] <= heard'[s]
  BY <1>1, <1>2, Numbers DEF StreamTypeOK
<1>4. QED BY <1>2, <1>3, StaysLost

(* A full table whose entries are all as fresh as a station outside of it  *)
(* leaves no room for that one.                                            *)
LEMMA FullOfFresher ==
  ASSUME NEW s \in Stations,
         NEW h \in [Stations -> Ages],
         NEW t \in [Entries -> Stations \ {s}],
         \A i, j \in Entries : t[i] = t[j] => i = j,
         \A i \in Entries : h[t[i]] <= h[s]
  PROVE  Cardinality({x \in Stations \ {s} : h[x] <= h[s]}) >= MaxSubscribers
<1> DEFINE Crowd == {x \in Stations \ {s} : h[x] <= h[s]}
<1>1. t \in Injection(Entries, Crowd)
  BY DEF Injection, IsInjective
<1>2. IsFiniteSet(Crowd)
  BY StreamAssumption, FS_Subset
<1>3. Cardinality(Entries) <= Cardinality(Crowd)
  BY <1>1, <1>2, FS_Injection
<1>4. Cardinality(Entries) = MaxSubscribers
  BY Numbers, FS_Interval DEF Entries
<1>5. Cardinality(Crowd) \in Nat
  BY <1>2, FS_CardinalityType
<1>6. QED BY <1>3, <1>4, <1>5, Numbers

-----------------------------------------------------------------------------
(* Faithful is kept: by ageing, by each way of taking an entry, and by     *)
(* expiry.                                                                 *)

LEMMA SecondIsFaithful ==
  StreamTypeOK /\ Faithful /\ Second => Faithful'
<1> SUFFICES ASSUME StreamTypeOK, Faithful, Second PROVE Faithful'
  OBVIOUS
<1>1. /\ table' = table
      /\ age' = [i \in Entries |-> IF i \in InUse THEN Older(age[i]) ELSE 0]
      /\ heard' = [s \in Stations |-> Older(heard[s])]
  BY DEF Second
<1>2. \A i \in Entries : table'[i] # Nobody => age'[i] = heard'[table'[i]]
  BY <1>1 DEF StreamTypeOK, Faithful, InUse
<1>3. \A s \in Stations : ~InTable(s)' => Lost(s)'
  BY <1>1, SecondKeepsLost DEF Faithful, InTable
<1>4. QED BY <1>1, <1>2, <1>3 DEF Faithful

LEMMA TouchIsFaithful ==
  StreamTypeOK /\ Locked /\ Faithful /\ Touch => Faithful'
<1> SUFFICES ASSUME StreamTypeOK, Locked, Faithful, Touch PROVE Faithful'
  OBVIOUS
<1>1. sender \in Stations /\ sender # Nobody
  BY StreamAssumption DEF Touch, Locked
<1>2. PICK i \in EntriesFor(sender) :
        /\ table' = [table EXCEPT ![i] = sender]
        /\ age' = [age EXCEPT ![i] = 0]
  BY DEF Touch
<1>3. i \in Entries
  BY <1>1, <1>2, EntriesForAreEntries
<1>4. heard' = [heard EXCEPT ![sender] = 0]
  BY DEF Touch
(* The entry is the sender's own, or it has none.                          *)
<1>5. \A j \in Entries : table[j] = sender => j = i
  <2>1. CASE \E j \in Entries : table[j] = sender
    BY <1>1, <2>1, <1>2 DEF EntriesFor, FirstOf, Faithful
  <2>2. QED BY <2>1
<1>6. \A j, k \in Entries : table'[j] = table'[k] /\ table'[j] # Nobody => j = k
  BY <1>2, <1>3, <1>5 DEF StreamTypeOK, Faithful
<1>7. \A j \in Entries : table'[j] # Nobody => age'[j] = heard'[table'[j]]
  BY <1>1, <1>2, <1>3, <1>4, <1>5 DEF StreamTypeOK, Faithful
<1>8. ASSUME NEW s \in Stations, ~InTable(s)' PROVE Lost(s)'
  <2>1. s # sender
    BY <1>2, <1>3, <1>8 DEF InTable, StreamTypeOK
  <2>2. CASE ~InTable(s)
    BY <2>1, <2>2, TouchKeepsLost DEF Faithful
  <2>3. CASE InTable(s)
(* The sender has taken the place of s, so it was the stalest.             *)
    <3>1. table[i] = s
      BY <1>2, <1>3, <1>8, <2>3 DEF InTable, StreamTypeOK
    <3>2. \A j \in Entries : table[j] # sender
      BY <1>5, <2>1, <3>1
    <3>3. InUse = Entries /\ i \in Stalest
      <4>1. {j \in Entries : table[j] = sender} = {}
        BY <3>2
      <4>2. i \in InUse
        BY StreamAssumption, <1>3, <3>1 DEF InUse
      <4>3. i \notin FirstFree
        BY <4>2 DEF FirstFree, FirstOf
      <4>4. EntriesFor(sender) = IF InUse # Entries THEN FirstFree ELSE Stalest
        BY <4>1, Zenon DEF EntriesFor
      <4>5. QED BY <1>2, <4>3, <4>4
    <3>4. \A j \in Entries : table[j] \in Stations /\ age[j] = heard[table[j]]
      BY <3>3 DEF StreamTypeOK, Faithful, InUse
    <3>5. \A j \in Entries : age[j] <= age[i]
      BY <1>3, <3>3, Numbers DEF Stalest, StreamTypeOK
    <3>6. \A j \in Entries : heard'[table'[j]] <= heard'[s]
      BY <1>1, <1>2, <1>3, <1>4, <2>1, <3>1, <3>2, <3>4, <3>5, Numbers DEF StreamTypeOK
    <3>7. table' \in [Entries -> Stations \ {s}]
      BY <1>1, <1>2, <1>3, <1>8, <3>4 DEF StreamTypeOK, InTable
    <3>8. \A j, k \in Entries : table'[j] = table'[k] => j = k
      BY StreamAssumption, <1>6, <3>7
    <3>9. heard' \in [Stations -> Ages]
      BY <1>1, <1>4, Numbers DEF StreamTypeOK
    <3>10. CrowdedOut(s)'
      BY <3>6, <3>7, <3>8, <3>9, FullOfFresher DEF CrowdedOut
    <3>11. QED BY <3>10 DEF Lost
  <2>4. QED BY <2>2, <2>3
<1>9. QED BY <1>6, <1>7, <1>8 DEF Faithful

LEMMA SendIsFaithful ==
  StreamTypeOK /\ Faithful /\ SendToAll => Faithful' /\ Sending'
<1> SUFFICES ASSUME StreamTypeOK, Faithful, SendToAll PROVE Faithful' /\ Sending'
  OBVIOUS
<1>1. /\ table' = [i \in Entries |-> IF i \in Expired THEN Nobody ELSE table[i]]
      /\ age' = [i \in Entries |-> IF i \in Expired THEN 0 ELSE age[i]]
      /\ heard' = heard
      /\ reached' = {table[i] : i \in InUse \ Expired}
  BY DEF SendToAll
<1>2. ASSUME NEW s \in Stations,
             \A i \in Entries : table[i] = s => i \in Expired
      PROVE  Lost(s)'
  <2>1. CASE InTable(s)
    <3>1. PICK i \in Entries : table[i] = s
      BY <2>1 DEF InTable
    <3>2. age[i] > Timeout /\ age[i] = heard[s]
      BY StreamAssumption, <1>2, <3>1 DEF Expired, Faithful
    <3>3. QED BY <1>1, <3>2 DEF Lost
  <2>2. CASE ~InTable(s)
    BY <1>1, <2>2 DEF Faithful, Lost, CrowdedOut
  <2>3. QED BY <2>1, <2>2
<1>3. Sending'
  BY StreamAssumption, <1>1, <1>2 DEF Sending, InUse
<1>4. \A s \in Stations : ~InTable(s)' => Lost(s)'
  BY StreamAssumption, <1>1, <1>2 DEF InTable
<1>5. QED BY <1>1, <1>3, <1>4 DEF Faithful

LEMMA FaithfulNext ==
  StreamTypeOK /\ Locked /\ Faithful /\ Sending /\ [StreamNext]_streamVars
    => Faithful' /\ Sending'
<1> SUFFICES ASSUME StreamTypeOK, Locked, Faithful, Sending, [StreamNext]_streamVars
             PROVE  Faithful' /\ Sending'
  OBVIOUS
<1>1. CASE Second
  <2>1. Sending'
    BY <1>1, SecondKeepsLost DEF Second, Sending, pacing
  <2>2. QED BY <1>1, <2>1, SecondIsFaithful
<1>2. CASE Touch
  <2>1. Sending'
    BY <1>2 DEF Touch, Locked, pacing, Sending
  <2>2. QED BY <1>2, <2>1, TouchIsFaithful
<1>3. CASE SendToAll
  BY <1>3, SendIsFaithful
<1>4. CASE Silent /\ (pacer' = "hold" => pacer = "hold" /\ reached' = reached)
  BY <1>4 DEF Silent, Faithful, Sending, Lost, CrowdedOut, InTable
<1>5. QED
  BY <1>1, <1>2, <1>3, <1>4
     DEF StreamNext, ListenerStep, PacerStep, AudioStep, Hear, EndTouch, TakePacket,
         EndSend, Block, LookForAny, EndLook, SkipBlock, PushBlock, streamVars,
         Silent, tables, pacing

-----------------------------------------------------------------------------
LEMMA RememberedNext ==
  StreamTypeOK /\ Locked /\ Remembered /\ [StreamNext]_streamVars => Remembered'
<1> SUFFICES ASSUME StreamTypeOK, Locked, Remembered, [StreamNext]_streamVars
             PROVE  Remembered'
  OBVIOUS
<1> USE DEF Remembered, tables, hearing, InUse
<1>1. CASE Second \/ UNCHANGED streamVars
  BY <1>1 DEF Second, streamVars
<1>2. ASSUME NEW s \in Stations, Hear(s) PROVE Remembered'
  BY <1>2 DEF Hear
<1>3. CASE Touch
  <2>1. sender # Nobody /\ sender \in Stations
    BY <1>3, StreamAssumption DEF Touch, Locked
  <2>2. InUse' # {}
    BY <1>3, <2>1, EntriesForAreEntries DEF Touch, StreamTypeOK
  <2>3. audio # "hold"
    BY <1>3 DEF Touch, Locked
  <2>4. audio = "push" /\ ~anyActive => skipped = 0
    OBVIOUS
  <2>5. QED BY <1>3, <2>2, <2>3 DEF Touch
<1>4. CASE EndTouch \/ TakePacket \/ EndSend
  BY <1>4 DEF EndTouch, TakePacket, EndSend
<1>5. CASE SendToAll
  <2>1. InUse' = InUse \ Expired
    BY <1>5 DEF SendToAll, StreamTypeOK, Expired
  <2>2. Expired \subseteq InUse
    BY DEF Expired
  <2>3. skipped' = (IF InUse = Expired THEN 0 ELSE skipped)
        /\ UNCHANGED <<audio, anyActive, wasted>>
    BY <1>5 DEF SendToAll
  <2>4. QED BY <2>1, <2>2, <2>3
<1>6. CASE Block \/ EndLook
  <2>1. UNCHANGED <<anyActive, skipped, wasted>> /\ InUse' = InUse
    BY <1>6 DEF Block, EndLook
  <2>2. audio' \in {"hold", "push"} => audio \in {"hold", "push"}
    BY <1>6 DEF Block, EndLook
  <2>3. QED BY <2>1, <2>2
<1>7. CASE LookForAny
  <2>1. anyActive' <=> InUse # {}
    BY <1>7 DEF LookForAny
  <2>2. InUse' = InUse /\ UNCHANGED <<skipped, wasted>>
    BY <1>7 DEF LookForAny
  <2>3. QED BY <2>1, <2>2
<1>8. CASE SkipBlock
  BY <1>8 DEF SkipBlock, UpTo2
<1>9. CASE PushBlock
  BY <1>9 DEF PushBlock, UpTo2
<1>10. QED
  BY <1>1, <1>2, <1>3, <1>4, <1>5, <1>6, <1>7, <1>8, <1>9
     DEF StreamNext, ListenerStep, PacerStep, AudioStep

LEMMA StreamIInvInit == StreamInit => StreamIInv
<1> SUFFICES ASSUME StreamInit PROVE StreamIInv
  OBVIOUS
<1>1. Locked /\ Sending
  BY DEF StreamInit, Locked, Sending
<1>2. Remembered
  BY DEF StreamInit, Remembered
<1>3. Faithful
  BY StreamAssumption, Numbers DEF StreamInit, Faithful, Lost, InTable
<1>4. QED BY <1>1, <1>2, <1>3, TypeInit DEF StreamIInv

LEMMA StreamIInvNext == StreamIInv /\ [StreamNext]_streamVars => StreamIInv'
BY TypeNext, LockedNext, FaithfulNext, RememberedNext DEF StreamIInv

-----------------------------------------------------------------------------
(* The threads share the table under its lock in these states only.        *)
THEOREM StreamTypes == StreamSpec => []StreamTypeOK
<1>1. StreamIInv => StreamTypeOK
  BY DEF StreamIInv
<1>2. QED BY <1>1, StreamIInvInit, StreamIInvNext, PTL DEF StreamSpec, StreamSafe

(* Each packet goes to everybody heard within the time-out for whom the    *)
(* table had room, however many stations come, go and come back, in        *)
(* whatever order; and to nobody twice.                                    *)
THEOREM PacketsReachTheLive == StreamSpec => []ReachesTheLive
<1>1. StreamIInv => ReachesTheLive
  BY DEF StreamIInv, Sending, Faithful, Lost, ReachesTheLive, InUse
<1>2. QED BY <1>1, StreamIInvInit, StreamIInvNext, PTL DEF StreamSpec, StreamSafe

(* And to nobody who was silent for longer than the time-out.              *)
THEOREM PacketsSpareTheSilent == StreamSpec => SparesTheSilent
<1>1. ASSUME StreamIInv, [StreamNext]_streamVars, pacer = "wait", pacer' = "hold"
      PROVE  \A s \in reached' : heard[s] <= Timeout
  <2>1. SendToAll
    BY <1>1 DEF StreamNext, ListenerStep, PacerStep, AudioStep, Second, Hear, Touch,
       EndTouch, TakePacket, EndSend, Block, LookForAny, EndLook, SkipBlock,
       PushBlock, streamVars, pacing
  <2>2. reached' = {table[i] : i \in InUse \ Expired}
    BY <2>1 DEF SendToAll
  <2>3. \A i \in InUse \ Expired : heard[table[i]] = age[i] /\ age[i] <= Timeout
    BY <1>1, Numbers DEF StreamIInv, Faithful, InUse, Expired, StreamTypeOK
  <2>4. QED BY <2>2, <2>3
<1>2. StreamIInv /\ [StreamNext]_streamVars =>
        [pacer = "wait" /\ pacer' = "hold" =>
           \A s \in reached' : heard[s] <= Timeout]_streamVars
  BY <1>1
<1>3. QED
  BY <1>2, StreamIInvInit, StreamIInvNext, PTL
     DEF StreamSpec, StreamSafe, SparesTheSilent

(* The look at the table that the audio thread acts on afterwards is wrong *)
(* for one block of samples at most, either way.                           *)
THEOREM StaleReadsAreCheap == StreamSpec => []StaleReadIsCheap
<1>1. StreamIInv => StaleReadIsCheap
  BY DEF StreamIInv, Remembered, StaleReadIsCheap
<1>2. QED BY <1>1, StreamIInvInit, StreamIInvNext, PTL DEF StreamSpec, StreamSafe

-----------------------------------------------------------------------------
(* Settings: facts about sets of numbers                                   *)

Less == {p \in Nat \X Nat : p[1] < p[2]}

(* A set of natural numbers has a least one, *)
LEMMA LeastExists ==
  ASSUME NEW S \in SUBSET Nat, S # {}
  PROVE  FirstOne(S) \in S /\ \A j \in S : FirstOne(S) <= j
<1>1. IsWellFoundedOn(Less, Nat)
  BY NatLessThanWellFounded DEF OpToRel, Less
<1>2. PICK x \in S : \A y \in S : <<y, x>> \notin Less
  BY <1>1, WFMin
<1>3. \A y \in S : x <= y
  <2> SUFFICES ASSUME NEW y \in S, y < x PROVE FALSE
    OBVIOUS
  <2>1. <<y, x>> \in Nat \X Nat /\ <<y, x>>[1] = y /\ <<y, x>>[2] = x
    OBVIOUS
  <2>2. <<y, x>> \in Less
    BY <2>1 DEF Less
  <2> QED
    BY <1>2, <2>2
<1>4. QED
  BY <1>3 DEF FirstOne

(* and, if it is bounded, a greatest one. *)
LEMMA GreatestExists ==
  ASSUME NEW n \in Nat, NEW S \in SUBSET Nat, S # {}, \A j \in S : j <= n
  PROVE  LastOne(S) \in S /\ \A j \in S : j <= LastOne(S)
<1> DEFINE T == {n - j : j \in S}
<1>1. T \in SUBSET Nat /\ T # {}
  <2>1. \A j \in S : n - j \in Nat
    OBVIOUS
  <2>2. QED
    BY <2>1
<1> HIDE DEF T
<1>2. FirstOne(T) \in T /\ \A t \in T : FirstOne(T) <= t
  BY <1>1, LeastExists
<1>3. PICK x \in S : FirstOne(T) = n - x
  BY <1>2 DEF T
<1>4. \A y \in S : y <= x
  <2> SUFFICES ASSUME NEW y \in S PROVE y <= x
    OBVIOUS
  <2>1. n - y \in T
    BY DEF T
  <2>2. n - x <= n - y /\ x \in Nat /\ y \in Nat
    BY <1>2, <1>3, <2>1
  <2>3. QED
    BY <2>2
<1>5. QED
  BY <1>4 DEF LastOne

-----------------------------------------------------------------------------
(* What a line added to the file leaves as it was                          *)

LEMMA Added ==
  ASSUME NEW line \in Lines, linesRead \in Seq(Lines), Take(line)
  PROVE  /\ linesRead' \in Seq(Lines)
         /\ Len(linesRead) \in Nat
         /\ DOMAIN linesRead = 1 .. Len(linesRead)
         /\ Len(linesRead') = Len(linesRead) + 1
         /\ DOMAIN linesRead' = 1 .. Len(linesRead) + 1
         /\ \A i \in 1 .. Len(linesRead) : linesRead'[i] = linesRead[i] /\ linesRead[i] \in Lines
         /\ linesRead'[Len(linesRead) + 1] = line
BY DEF Take

LEMMA OldGiving ==
  ASSUME NEW line \in Lines, linesRead \in Seq(Lines), Take(line),
         NEW n \in 1 .. Len(linesRead) + 1, NEW key
  PROVE  /\ Giving(n, key)' = Giving(n, key)
         /\ Given(n, key)' = Given(n, key)
         /\ \A name : Within(n, name)' = Within(n, name)
         /\ AtTop(n)' = AtTop(n)
<1>1. \A i \in 1 .. n - 1 : linesRead'[i] = linesRead[i]
  BY Added
<1>2. Giving(n, key)' = Giving(n, key)
  BY <1>1, Added DEF Giving, IsKey, Divides
<1>3. Given(n, key)' = Given(n, key)
  <2>1. CASE Giving(n, key) = {}
    BY <1>2, <2>1 DEF Given
  <2>2. CASE Giving(n, key) # {}
    <3>1. /\ Giving(n, key) \in SUBSET Nat /\ n - 1 \in Nat
          /\ \A j \in Giving(n, key) : j <= n - 1
      BY Added DEF Giving
    <3>2. LastOne(Giving(n, key)) \in Giving(n, key)
      BY <2>2, <3>1, GreatestExists
    <3>3. LastOne(Giving(n, key)) \in 1 .. n - 1
      BY <3>2 DEF Giving
    <3>4. QED
      BY <1>1, <1>2, <2>2, <3>3 DEF Given
  <2>3. QED
    BY <2>1, <2>2
<1>4. \A name : Within(n, name)' = Within(n, name)
  BY <1>1, Added DEF Within, SectionLine
<1>5. AtTop(n)' = AtTop(n)
  BY <1>1, Added DEF AtTop
<1>6. QED
  BY <1>2, <1>3, <1>4, <1>5

LEMMA OldBand ==
  ASSUME NEW line \in Lines, linesRead \in Seq(Lines), Take(line), NEW n \in 1 .. Len(linesRead)
  PROVE  /\ Band(n)' = Band(n)
         /\ Completes(n)' = Completes(n)
<1>1. n \in 1 .. Len(linesRead) + 1 /\ linesRead'[n] = linesRead[n]
  BY Added
<1>2. Band(n)' = Band(n)
  BY <1>1, OldGiving DEF Band
<1>3. Within(n, "tx_band")' = Within(n, "tx_band")
  BY <1>1, OldGiving
<1>4. QED
  BY <1>1, <1>2, <1>3 DEF Completes, IsKey

(* What the line itself says.                                              *)
LEMMA NewGiving ==
  ASSUME NEW line \in Lines, linesRead \in Seq(Lines), Take(line), NEW key,
         NEW n \in Nat, n = Len(linesRead) + 1
  PROVE  Giving(n + 1, key)' =
           (IF line.is = "section" \/ (line.is = "key" /\ line.name = "scale")
            THEN {} ELSE Giving(n, key))
           \union (IF line.is = "key" /\ line.name = key THEN {n} ELSE {})
<1> DEFINE old == 1 .. n - 1
<1>1. /\ n \in Nat \ {0}
      /\ 1 .. (n + 1) - 1 = old \union {n} /\ n \notin old
      /\ \A i \in old : linesRead'[i] = linesRead[i]
      /\ linesRead'[n] = line
  BY Added
<1>2. \A j \in old : j + 1 .. (n + 1) - 1 = (j + 1 .. n - 1) \union {n}
  BY <1>1
<1>3. n + 1 .. (n + 1) - 1 = {}
  BY <1>1
<1>4. \A j \in old : \A i \in j + 1 .. n - 1 : i \in old
  BY <1>1
<1>5. \A j \in old : j \in Giving(n + 1, key)' <=>
        /\ j \in Giving(n, key)
        /\ ~(line.is = "section" \/ (line.is = "key" /\ line.name = "scale"))
  <2> SUFFICES ASSUME NEW j \in old
               PROVE  j \in Giving(n + 1, key)' <=>
                        /\ j \in Giving(n, key)
                        /\ ~(line.is = "section" \/ (line.is = "key" /\ line.name = "scale"))
    OBVIOUS
  <2> HIDE DEF old
  <2>1. IsKey(j, key)' = IsKey(j, key)
    BY <1>1 DEF IsKey
  <2>2. \A i \in j + 1 .. n - 1 : Divides(i)' = Divides(i)
    BY <1>1, <1>4 DEF Divides, IsKey
  <2>3. Divides(n)' <=> line.is = "section" \/ (line.is = "key" /\ line.name = "scale")
    BY <1>1 DEF Divides, IsKey
  <2>4. j \in Giving(n + 1, key)' <=>
          IsKey(j, key)' /\ \A i \in (j + 1 .. n - 1) \union {n} : ~Divides(i)'
    BY <1>1, <1>2 DEF Giving, old
  <2>5. j \in Giving(n, key) <=>
          IsKey(j, key) /\ \A i \in j + 1 .. n - 1 : ~Divides(i)
    BY DEF Giving, old
  <2>6. QED
    BY <2>1, <2>2, <2>3, <2>4, <2>5
<1>6. n \in Giving(n + 1, key)' <=> line.is = "key" /\ line.name = key
  BY <1>1, <1>3 DEF Giving, IsKey
<1>7. Giving(n + 1, key)' \subseteq old \union {n} /\ Giving(n, key) \subseteq old
  BY <1>1 DEF Giving
<1>8. QED
  BY <1>1, <1>5, <1>6, <1>7

-----------------------------------------------------------------------------
(* The complete bands and their numbers                                    *)

LEMMA CompleteFinite ==
  ASSUME linesRead \in Seq(Lines)
  PROVE  /\ IsFiniteSet(Complete) /\ Cardinality(Complete) \in Nat
         /\ \A m : Number(m) \in Nat
<1>1. Complete \in SUBSET (1 .. Len(linesRead)) /\ Len(linesRead) \in Nat
  BY DEF Complete
<1>2. IsFiniteSet(1 .. Len(linesRead))
  BY <1>1, FS_Interval
<1>3. IsFiniteSet(Complete)
  BY <1>1, <1>2, FS_Subset
<1>4. \A m : IsFiniteSet({k \in Complete : k <= m})
  BY <1>3, FS_Subset
<1>5. QED
  BY <1>3, <1>4, FS_CardinalityType DEF Number

(* Every complete band has a number of its own, in the order of the file.  *)
Numbered ==
  /\ \A m \in Complete : Number(m) \in 1 .. Cardinality(Complete)
  /\ \A i \in 1 .. Cardinality(Complete) : \E m \in Complete : Number(m) = i
  /\ \A l, m \in Complete : l < m => Number(l) < Number(m)

LEMMA NewComplete ==
  ASSUME NEW line \in Lines, linesRead \in Seq(Lines), Take(line),
         NEW n \in Nat, n = Len(linesRead) + 1
  PROVE  /\ Complete' = Complete \union (IF Completes(n)' THEN {n} ELSE {})
         /\ Cardinality(Complete)' =
              Cardinality(Complete) + (IF Completes(n)' THEN 1 ELSE 0)
         /\ Completes(n)' => Number(n)' = Cardinality(Complete) + 1
         /\ \A m \in Complete : m < n /\ Number(m)' = Number(m)
<1>1. /\ DOMAIN linesRead = 1 .. n - 1 /\ DOMAIN linesRead' = (1 .. n - 1) \union {n}
      /\ linesRead' \in Seq(Lines)
  <2>1. /\ DOMAIN linesRead = 1 .. Len(linesRead) /\ DOMAIN linesRead' = 1 .. Len(linesRead) + 1
        /\ Len(linesRead) \in Nat /\ linesRead' \in Seq(Lines)
    BY Added
  <2>2. QED
    BY <2>1
<1>2. \A m \in 1 .. n - 1 : Completes(m)' = Completes(m)
  BY OldBand
<1>3. Complete' = Complete \union (IF Completes(n)' THEN {n} ELSE {})
  BY <1>1, <1>2 DEF Complete
<1>4. n \notin Complete /\ \A m \in Complete : m \in 1 .. n - 1
  BY <1>1 DEF Complete
<1>5. IsFiniteSet(Complete) /\ Cardinality(Complete) \in Nat
  BY CompleteFinite
<1>6. Cardinality(Complete)' =
        Cardinality(Complete) + (IF Completes(n)' THEN 1 ELSE 0)
  <2>1. CASE Completes(n)'
    <3>1. Complete' = Complete \union {n}
      BY <1>3, <2>1
    <3>2. Cardinality(Complete \union {n}) = Cardinality(Complete) + 1
      BY <1>4, <1>5, FS_AddElement
    <3>3. QED
      BY <2>1, <3>1, <3>2
  <2>2. CASE ~Completes(n)'
    BY <1>3, <1>5, <2>2
  <2>3. QED
    BY <2>1, <2>2
<1>7. Completes(n)' => Number(n)' = Cardinality(Complete) + 1
  <2> SUFFICES ASSUME Completes(n)' PROVE Number(n)' = Cardinality(Complete) + 1
    OBVIOUS
  <2>1. {k \in Complete' : k <= n} = Complete \union {n}
    BY <1>3, <1>4
  <2>2. QED
    BY <2>1, <1>4, <1>5, FS_AddElement DEF Number
<1>8. \A m \in Complete : m < n /\ Number(m)' = Number(m)
  <2> SUFFICES ASSUME NEW m \in Complete PROVE m < n /\ Number(m)' = Number(m)
    OBVIOUS
  <2>1. m \in 1 .. n - 1
    BY <1>4
  <2>2. {k \in Complete' : k <= m} = {k \in Complete : k <= m}
    BY <1>3, <2>1
  <2>3. Number(m)' = Number(m)
    BY <2>2 DEF Number
  <2>4. QED
    BY <2>1, <2>3
<1>9. QED
  BY <1>3, <1>6, <1>7, <1>8

LEMMA KeepsNumbered ==
  ASSUME NEW line \in Lines, linesRead \in Seq(Lines), Take(line), Numbered
  PROVE  Numbered'
<1> DEFINE n == Len(linesRead) + 1
           C == Cardinality(Complete)
<1>1. n \in Nat /\ C \in Nat
  BY CompleteFinite
<1>2. PICK k \in Nat : k = n
  BY <1>1
<1>3. /\ Complete' = Complete \union (IF Completes(k)' THEN {k} ELSE {})
      /\ C' = C + (IF Completes(k)' THEN 1 ELSE 0)
      /\ Completes(k)' => Number(k)' = C + 1
      /\ \A m \in Complete : m < k /\ Number(m)' = Number(m)
  BY <1>2, NewComplete
<1>4. Complete \subseteq Nat
  BY DEF Complete
<1>5. Numbered'
  <2>1. CASE ~Completes(k)'
    <3>1. Complete' = Complete /\ C' = C
      BY <2>1, <1>1, <1>3
    <3>2. QED
      BY <3>1, <1>3 DEF Numbered
  <2>2. CASE Completes(k)'
    <3> HIDE DEF n, C
    <3>1. Complete' = Complete \union {k} /\ C' = C + 1 /\ Number(k)' = C + 1
      BY <2>2, <1>3
    <3>2. /\ \A m \in Complete : Number(m)' = Number(m) /\ Number(m) \in 1 .. C
      BY <1>3 DEF Numbered, C
    <3>3. \A m \in Complete' : Number(m)' \in 1 .. C'
      BY <1>1, <3>1, <3>2
    <3>4. \A i \in 1 .. C' : \E m \in Complete' : Number(m)' = i
      <4> SUFFICES ASSUME NEW i \in 1 .. C' PROVE \E m \in Complete' : Number(m)' = i
        OBVIOUS
      <4>1. CASE i = C + 1
        BY <4>1, <3>1
      <4>2. CASE i \in 1 .. C
        BY <4>2, <3>1, <3>2 DEF Numbered, C
      <4>3. QED
        BY <4>1, <4>2, <3>1, <1>1
    <3>5. \A l, m \in Complete' : l < m => Number(l)' < Number(m)'
      <4> SUFFICES ASSUME NEW l \in Complete', NEW m \in Complete', l < m
                   PROVE  Number(l)' < Number(m)'
        OBVIOUS
      <4>1. l \in Complete
        BY <3>1, <1>3, <1>4
      <4>2. CASE m = k
        BY <4>1, <4>2, <3>1, <3>2, <1>1
      <4>3. CASE m \in Complete
        BY <4>1, <4>3, <3>2 DEF Numbered
      <4>4. QED
        BY <4>2, <4>3, <3>1
    <3>6. QED
      BY <3>3, <3>4, <3>5 DEF Numbered, C
  <2>3. QED
    BY <2>1, <2>2
<1>6. QED
  BY <1>5

-----------------------------------------------------------------------------
(* The table against the file                                              *)

TopAsSaid ==
  \A key \in TopKeys :
    measured[key] = IF TopLines(key) = {} THEN CompiledIn[key]
                    ELSE linesRead[LastOne(TopLines(key))].value

(* What the load knows of the lines read: where it is, what the band that  *)
(* it is in has been given, and that it has left no traces further on.     *)
Reading ==
  /\ section = "top" <=> AtTop(Len(linesRead) + 1)
  /\ section = "tx_band" <=> Within(Len(linesRead) + 1, "tx_band")
  /\ section = "tx_band" /\ HasRoom =>
       \A key \in {"f_start", "f_stop"} : bands[count][key] = Given(Len(linesRead) + 1, key)
  /\ \A i \in count + 1 .. MaxBands - 1 : bands[i] = NoBand

Read ==
  /\ SettingsTypeOK
  /\ Numbered
  /\ Reading
  /\ EachBandAsWritten

LEMMA StartsRead == LoadInit => Read
<1> SUFFICES ASSUME LoadInit PROVE Read
  OBVIOUS
<1> USE SettingsAssumption DEF LoadInit
<1>1. SettingsTypeOK
  BY DEF SettingsTypeOK, NoBand
<1>2. Complete = {} /\ \A key : TopLines(key) = {}
  BY DEF Complete, TopLines
<1>3. Cardinality(Complete) = 0
  BY <1>2, FS_EmptySet
<1>4. Numbered
  BY <1>2, <1>3 DEF Numbered
<1>5. Reading
  BY DEF Reading, AtTop, Within
<1>6. EachBandAsWritten
  BY <1>2, <1>3 DEF EachBandAsWritten
<1> QED
  BY <1>1, <1>4, <1>5, <1>6 DEF Read

LEMMA LineIs ==
  ASSUME NEW line \in Lines
  PROVE  /\ line.is \in {"section", "key", "other"}
         /\ line.is = "section" =>
              line.name \in STRING /\ line = SectionLine(line.name)
         /\ line.is = "key" => line.name \in STRING /\ line.value \in Int
BY SettingsAssumption DEF SectionLine, OtherLine

LEMMA KeepsSettingsTypes ==
  ASSUME SettingsTypeOK, [LoadNext]_settingsVars
  PROVE  SettingsTypeOK'
<1> USE SettingsAssumption DEF SettingsTypeOK
<1>1. CASE UNCHANGED settingsVars
  BY <1>1 DEF settingsVars
<1>2. ASSUME NEW line \in Lines, Take(line),
             EnterBand(line) \/ EnterOther(line) \/ TopKey(line)
               \/ EdgeKey(line) \/ ScaleKey(line) \/ PassOver(line)
      PROVE  SettingsTypeOK'
  <2> USE <1>2
  <2>0. linesRead' \in Seq(Lines)
    BY Added
  <2>1. CASE EnterBand(line)
    BY <2>0, <2>1 DEF EnterBand, HasRoom, NoBand
  <2>2. CASE EnterOther(line)
    BY <2>0, <2>2 DEF EnterOther
  <2>3. CASE TopKey(line)
    BY <2>0, <2>3, LineIs DEF TopKey
  <2>4. CASE EdgeKey(line)
    BY <2>0, <2>4, LineIs DEF EdgeKey, IsBandKey, HasRoom
  <2>5. CASE ScaleKey(line)
    <3>1. count \in 0 .. MaxBands - 1 /\ line.value \in Int
      BY <2>5, LineIs DEF ScaleKey, IsBandKey, HasRoom
    <3>2. bands' \in [0 .. MaxBands - 1 -> [f_start : Int, f_stop : Int, scale : Int]]
      BY <2>5, <3>1 DEF ScaleKey
    <3>3. count' \in 0 .. MaxBands
      BY <2>5, <3>1 DEF ScaleKey
    <3>4. UNCHANGED <<measured, section>>
      BY <2>5 DEF ScaleKey
    <3>5. QED
      BY <2>0, <3>2, <3>3, <3>4
  <2>6. CASE PassOver(line)
    BY <2>0, <2>6 DEF PassOver
  <2>7. QED
    BY <2>1, <2>2, <2>3, <2>4, <2>5, <2>6
<1>3. QED
  BY <1>1, <1>2 DEF LoadNext

(* What a line does, whichever of the actions takes it.                    *)
LEMMA LineDoes ==
  ASSUME SettingsTypeOK, NEW line \in Lines,
         EnterBand(line) \/ EnterOther(line) \/ TopKey(line)
           \/ EdgeKey(line) \/ ScaleKey(line) \/ PassOver(line)
  PROVE  /\ section' = IF line.is # "section" THEN section
                       ELSE IF line.name = "tx_band" THEN "tx_band" ELSE "other"
         /\ \A i \in 0 .. MaxBands - 1 : i # count => bands'[i] = bands[i]
         /\ count' = IF /\ IsBandKey(line) /\ line.name = "scale"
                        /\ bands[count].f_start # 0 \/ bands[count].f_stop # 0
                     THEN count + 1 ELSE count
         /\ \A key \in TopKeys :
              measured'[key] = IF line.is = "key" /\ section = "top" /\ line.name = key
                               THEN line.value ELSE measured[key]
<1> USE SettingsAssumption DEF SettingsTypeOK
<1>1. CASE EnterBand(line)
  BY <1>1 DEF EnterBand, IsBandKey
<1>2. CASE EnterOther(line)
  BY <1>2 DEF EnterOther, IsBandKey
<1>3. CASE TopKey(line)
  BY <1>3 DEF TopKey, IsBandKey
<1>4. CASE EdgeKey(line)
  BY <1>4 DEF EdgeKey, IsBandKey, HasRoom
<1>5. CASE ScaleKey(line)
  BY <1>5 DEF ScaleKey, IsBandKey, HasRoom
<1>6. CASE PassOver(line)
  BY <1>6 DEF PassOver, IsBandKey
<1>7. QED
  BY <1>1, <1>2, <1>3, <1>4, <1>5, <1>6

(* What the file says of a band, one line further on.                      *)
LEMMA NewGiven ==
  ASSUME NEW line \in Lines, linesRead \in Seq(Lines), Take(line),
         NEW n \in Nat, n = Len(linesRead) + 1, NEW key, key # "scale"
  PROVE  Given(n + 1, key)' =
           IF line.is = "key" /\ line.name = key THEN line.value
           ELSE IF line.is = "section" \/ (line.is = "key" /\ line.name = "scale")
           THEN 0 ELSE Given(n, key)
<1>1. /\ \A i \in 1 .. n - 1 : linesRead'[i] = linesRead[i]
      /\ linesRead'[n] = line
  BY Added
<1>2. Giving(n, key) \in SUBSET (1 .. n - 1)
  BY DEF Giving
<1>3. CASE line.is = "key" /\ line.name = key
  <2>1. Giving(n + 1, key)' = Giving(n, key) \union {n}
    BY <1>3, NewGiving
  <2>2. LastOne(Giving(n, key) \union {n}) = n
    BY <1>2 DEF LastOne
  <2>3. QED
    BY <1>1, <1>3, <2>1, <2>2 DEF Given
<1>4. CASE line.is = "section" \/ (line.is = "key" /\ line.name = "scale")
  <2>1. Giving(n + 1, key)' = {}
    BY <1>4, NewGiving
  <2>2. QED
    BY <1>4, <2>1 DEF Given
<1>5. CASE /\ ~(line.is = "key" /\ line.name = key)
           /\ ~(line.is = "section" \/ (line.is = "key" /\ line.name = "scale"))
  <2>1. Giving(n + 1, key)' = Giving(n, key)
    <3>1. Giving(n + 1, key)' =
            (IF line.is = "section" \/ (line.is = "key" /\ line.name = "scale")
             THEN {} ELSE Giving(n, key))
            \union (IF line.is = "key" /\ line.name = key THEN {n} ELSE {})
      BY NewGiving
    <3>2. Giving(n + 1, key)' = Giving(n, key) \union {}
      BY <1>5, <3>1, Zenon
    <3>3. QED
      BY <3>2
  <2>2. n \in 1 .. Len(linesRead) + 1
    OBVIOUS
  <2>3. Giving(n, key)' = Giving(n, key) /\ Given(n, key)' = Given(n, key)
    BY <2>2, OldGiving
  <2>4. Given(n + 1, key)' = Given(n, key)'
    <3>1. Giving(n + 1, key)' = Giving(n, key)'
      BY <2>1, <2>3
    <3>2. Given(n + 1, key)' = IF Giving(n + 1, key)' = {} THEN 0
                               ELSE linesRead'[LastOne(Giving(n + 1, key)')].value
      BY DEF Given
    <3>3. Given(n, key)' = IF Giving(n, key)' = {} THEN 0
                           ELSE linesRead'[LastOne(Giving(n, key)')].value
      BY DEF Given
    <3>4. QED
      BY <3>1, <3>2, <3>3
  <2>5. QED
    BY <1>5, <2>3, <2>4
<1>6. QED
  BY <1>3, <1>4, <1>5

LEMMA NewPlace ==
  ASSUME NEW line \in Lines, linesRead \in Seq(Lines), Take(line),
         NEW n \in Nat, n = Len(linesRead) + 1, NEW name
  PROVE  /\ AtTop(n + 1)' <=> AtTop(n) /\ line.is # "section"
         /\ Within(n + 1, name)' <=>
              line = SectionLine(name) \/ (Within(n, name) /\ line.is # "section")
<1>1. /\ \A i \in 1 .. n - 1 : linesRead'[i] = linesRead[i]
      /\ linesRead'[n] = line
  BY Added
<1>2. 1 .. (n + 1) - 1 = (1 .. n - 1) \union {n}
  OBVIOUS
<1>3. AtTop(n + 1)' <=> AtTop(n) /\ line.is # "section"
  BY <1>1, <1>2 DEF AtTop
<1>4. ASSUME NEW h \in 1 .. n - 1
      PROVE  /\ h + 1 .. (n + 1) - 1 = (h + 1 .. n - 1) \union {n}
             /\ \A i \in h + 1 .. n - 1 : i \in 1 .. n - 1
  OBVIOUS
<1>5. n + 1 .. (n + 1) - 1 = {}
  OBVIOUS
<1>6. Within(n + 1, name)' <=>
        \/ linesRead'[n] = SectionLine(name)
        \/ \E h \in 1 .. n - 1 :
             /\ linesRead'[h] = SectionLine(name)
             /\ \A i \in (h + 1 .. n - 1) \union {n} : linesRead'[i].is # "section"
  BY <1>2, <1>4, <1>5 DEF Within, SectionLine
<1>7. Within(n + 1, name)' <=>
        line = SectionLine(name) \/ (Within(n, name) /\ line.is # "section")
  <2>1. ASSUME NEW h \in 1 .. n - 1
        PROVE  (\A i \in (h + 1 .. n - 1) \union {n} : linesRead'[i].is # "section") <=>
                 (\A i \in h + 1 .. n - 1 : linesRead[i].is # "section")
                   /\ line.is # "section"
    BY <1>1, <1>4
  <2>2. QED
    BY <1>1, <1>6, <2>1 DEF Within
<1>8. QED
  BY <1>3, <1>7

LEMMA NewBand ==
  ASSUME NEW line \in Lines, linesRead \in Seq(Lines), Take(line),
         NEW n \in Nat, n = Len(linesRead) + 1
  PROVE  /\ Completes(n)' <=>
              /\ line.is = "key" /\ line.name = "scale" /\ Within(n, "tx_band")
              /\ Given(n, "f_start") # 0 \/ Given(n, "f_stop") # 0
         /\ Band(n)' = [f_start |-> Given(n, "f_start"), f_stop |-> Given(n, "f_stop"),
                        scale |-> line.value]
<1>1. n \in 1 .. Len(linesRead) + 1 /\ linesRead'[n] = line
  BY Added
<1>2. Band(n)' = [f_start |-> Given(n, "f_start"), f_stop |-> Given(n, "f_stop"),
                  scale |-> line.value]
  BY <1>1, OldGiving DEF Band
<1>3. Within(n, "tx_band")' = Within(n, "tx_band")
  BY <1>1, OldGiving
<1>4. IsKey(n, "scale")' <=> line.is = "key" /\ line.name = "scale"
  BY <1>1 DEF IsKey
<1>5. QED
  BY <1>2, <1>3, <1>4 DEF Completes

-----------------------------------------------------------------------------
(* What the load knows stays true, line by line                            *)

LEMMA KeepsReading ==
  ASSUME Read, NEW line \in Lines, Take(line),
         EnterBand(line) \/ EnterOther(line) \/ TopKey(line)
           \/ EdgeKey(line) \/ ScaleKey(line) \/ PassOver(line)
  PROVE  Reading'
<1> USE SettingsAssumption DEF Read, SettingsTypeOK
<1>1. PICK n \in Nat : n = Len(linesRead) + 1 /\ Len(linesRead') + 1 = n + 1
  BY Added
<1> DEFINE divides == line.is = "section" \/ (line.is = "key" /\ line.name = "scale")
<1>2. /\ section' = IF line.is # "section" THEN section
                    ELSE IF line.name = "tx_band" THEN "tx_band" ELSE "other"
      /\ \A i \in 0 .. MaxBands - 1 : i # count => bands'[i] = bands[i]
      /\ count' = IF /\ IsBandKey(line) /\ line.name = "scale"
                     /\ bands[count].f_start # 0 \/ bands[count].f_stop # 0
                  THEN count + 1 ELSE count
  BY LineDoes
<1>3. /\ section = "top" <=> AtTop(n)
      /\ section = "tx_band" <=> Within(n, "tx_band")
      /\ section = "tx_band" /\ HasRoom =>
           \A key \in {"f_start", "f_stop"} : bands[count][key] = Given(n, key)
      /\ \A i \in count + 1 .. MaxBands - 1 : bands[i] = NoBand
  BY <1>1 DEF Reading
<1>4. line.is # "section" \/ (line.name \in STRING /\ line = SectionLine(line.name))
  BY LineIs
<1>5. section' = "top" <=> AtTop(n + 1)'
  BY <1>1, <1>2, <1>3, NewPlace
<1>6. section' = "tx_band" <=> Within(n + 1, "tx_band")'
  <2>1. line = SectionLine("tx_band") <=> line.is = "section" /\ line.name = "tx_band"
    BY <1>4 DEF SectionLine
  <2>2. QED
    BY <1>1, <1>2, <1>3, <2>1, NewPlace
<1>7. ASSUME section' = "tx_band", HasRoom', NEW key \in {"f_start", "f_stop"}
      PROVE  bands'[count'][key] = Given(n + 1, key)'
  <2>1. Given(n + 1, key)' =
          IF line.is = "key" /\ line.name = key THEN line.value
          ELSE IF divides THEN 0 ELSE Given(n, key)
    BY <1>1, <1>7, NewGiven
  <2>2. count' \in Nat /\ count \in 0 .. MaxBands - 1
    BY <1>2, <1>7 DEF HasRoom
  <2>3. CASE line.is = "section"
    <3>1. EnterBand(line)
      BY <2>3, <1>2, <1>7
        DEF EnterBand, EnterOther, TopKey, EdgeKey, ScaleKey, PassOver, IsBandKey
    <3>2. bands' = [bands EXCEPT ![count] = NoBand] /\ count' = count
      BY <2>2, <3>1 DEF EnterBand, HasRoom
    <3>3. bands'[count'][key] = 0
      BY <2>2, <3>2, <1>7 DEF NoBand
    <3>4. QED
      BY <2>1, <2>3, <3>3
  <2>4. CASE line.is # "section"
    <3>0. section = "tx_band" /\ HasRoom /\ bands[count][key] = Given(n, key)
      BY <2>2, <2>4, <1>2, <1>3, <1>7 DEF HasRoom
    <3>1. CASE line.is = "key" /\ line.name = "scale"
      <4>1. ScaleKey(line)
        BY <3>0, <3>1
          DEF EnterBand, EnterOther, TopKey, EdgeKey, ScaleKey, PassOver, IsBandKey
      <4>2. Given(n + 1, key)' = 0
        BY <2>1, <3>1, <1>7
      <4>3. CASE bands[count].f_start # 0 \/ bands[count].f_stop # 0
        <5>1. count' = count + 1 /\ count + 1 \in 0 .. MaxBands - 1
          BY <2>2, <4>1, <4>3, <1>7 DEF ScaleKey, HasRoom
        <5>2. bands'[count + 1] = NoBand
          BY <5>1, <2>2, <1>2, <1>3
        <5>3. QED
          BY <5>1, <5>2, <4>2, <1>7 DEF NoBand
      <4>4. CASE bands[count].f_start = 0 /\ bands[count].f_stop = 0
        <5>1. count' = count
          BY <4>1, <4>4 DEF ScaleKey
        <5>2. bands'[count][key] = bands[count][key]
          BY <2>2, <4>1, <1>7 DEF ScaleKey
        <5>3. bands[count][key] = 0
          BY <4>4, <1>7
        <5>4. QED
          BY <5>1, <5>2, <5>3, <4>2
      <4>5. QED
        BY <4>3, <4>4
    <3>2. CASE line.is = "key" /\ line.name \in {"f_start", "f_stop"}
      <4>1. EdgeKey(line)
        BY <3>0, <3>2
          DEF EnterBand, EnterOther, TopKey, EdgeKey, ScaleKey, PassOver, IsBandKey
      <4>2. bands' = [bands EXCEPT ![count][line.name] = line.value] /\ count' = count
        BY <4>1 DEF EdgeKey
      <4>3. bands'[count][key] = IF line.name = key THEN line.value ELSE bands[count][key]
        <5>1. CASE line.name = "f_start"
          BY <2>2, <4>2, <5>1, <1>7
        <5>2. CASE line.name = "f_stop"
          BY <2>2, <4>2, <5>2, <1>7
        <5>3. QED
          BY <5>1, <5>2, <3>2
      <4>4. QED
        BY <2>1, <3>0, <3>2, <4>2, <4>3
    <3>3. CASE ~(line.is = "key" /\ line.name \in {"f_start", "f_stop", "scale"})
      <4>1. PassOver(line)
        BY <2>4, <3>0, <3>3
          DEF EnterBand, EnterOther, TopKey, EdgeKey, ScaleKey, PassOver, IsBandKey
      <4>2. bands' = bands /\ count' = count
        BY <4>1 DEF PassOver
      <4>3. Given(n + 1, key)' = Given(n, key)
        BY <2>1, <2>4, <3>3, <1>7
      <4>4. QED
        BY <3>0, <4>2, <4>3
    <3>4. QED
      BY <3>1, <3>2, <3>3
  <2>5. QED
    BY <2>3, <2>4
<1>8. \A i \in count' + 1 .. MaxBands - 1 : bands'[i] = NoBand
  <2>1. \A i \in count' + 1 .. MaxBands - 1 :
          i \in count + 1 .. MaxBands - 1 /\ i \in 0 .. MaxBands - 1 /\ i # count
    BY <1>2
  <2>2. QED
    BY <2>1, <1>2, <1>3
<1>9. QED
  BY <1>1, <1>5, <1>6, <1>7, <1>8 DEF Reading

LEMMA KeepsTop ==
  ASSUME Read, NEW line \in Lines, Take(line),
         EnterBand(line) \/ EnterOther(line) \/ TopKey(line)
           \/ EdgeKey(line) \/ ScaleKey(line) \/ PassOver(line)
  PROVE  TopAsSaid'
<1> USE SettingsAssumption DEF Read, SettingsTypeOK
<1>1. PICK n \in Nat : n = Len(linesRead) + 1
  BY Added
<1> SUFFICES ASSUME NEW key \in TopKeys
             PROVE  measured'[key] =
                      IF TopLines(key)' = {} THEN CompiledIn[key]
                      ELSE linesRead'[LastOne(TopLines(key)')].value
  BY DEF TopAsSaid
<1>2. /\ DOMAIN linesRead = 1 .. n - 1 /\ DOMAIN linesRead' = (1 .. n - 1) \union {n}
      /\ \A i \in 1 .. n - 1 : linesRead'[i] = linesRead[i]
      /\ linesRead'[n] = line
  <2>1. /\ DOMAIN linesRead = 1 .. Len(linesRead) /\ DOMAIN linesRead' = 1 .. Len(linesRead) + 1
        /\ \A i \in 1 .. Len(linesRead) : linesRead'[i] = linesRead[i]
        /\ linesRead'[Len(linesRead) + 1] = line
    BY Added
  <2>2. QED
    BY <1>1, <2>1
<1>3. \A i \in (1 .. n - 1) \union {n} : AtTop(i)' = AtTop(i)
  <2> SUFFICES ASSUME NEW i \in (1 .. n - 1) \union {n} PROVE AtTop(i)' = AtTop(i)
    OBVIOUS
  <2>1. i \in 1 .. Len(linesRead) + 1
    BY <1>1
  <2>2. QED
    BY <2>1, OldGiving
<1>4. \A i \in 1 .. n - 1 : IsKey(i, key)' = IsKey(i, key)
  BY <1>2 DEF IsKey
<1>5. IsKey(n, key)' <=> line.is = "key" /\ line.name = key
  BY <1>2 DEF IsKey
<1>6. AtTop(n) <=> section = "top"
  BY <1>1 DEF Reading
<1>7. TopLines(key) \subseteq 1 .. n - 1
  BY <1>2 DEF TopLines
<1>8. measured[key] = IF TopLines(key) = {} THEN CompiledIn[key]
                      ELSE linesRead[LastOne(TopLines(key))].value
  BY DEF EachBandAsWritten
<1>9. measured'[key] = IF line.is = "key" /\ section = "top" /\ line.name = key
                       THEN line.value ELSE measured[key]
  BY LineDoes
<1>10. CASE line.is = "key" /\ section = "top" /\ line.name = key
  <2>1. TopLines(key)' = TopLines(key) \union {n}
    BY <1>2, <1>3, <1>4, <1>5, <1>6, <1>10 DEF TopLines
  <2>2. LastOne(TopLines(key) \union {n}) = n
    BY <1>7 DEF LastOne
  <2>3. QED
    BY <1>2, <1>9, <1>10, <2>1, <2>2
<1>11. CASE ~(line.is = "key" /\ section = "top" /\ line.name = key)
  <2>1. TopLines(key)' = TopLines(key)
    BY <1>2, <1>3, <1>4, <1>5, <1>6, <1>11 DEF TopLines
  <2>2. CASE TopLines(key) # {}
    <3>1. TopLines(key) \in SUBSET Nat /\ n - 1 \in Nat
            /\ \A j \in TopLines(key) : j <= n - 1
      BY <1>7, <2>2
    <3>2. LastOne(TopLines(key)) \in TopLines(key)
      BY <2>2, <3>1, GreatestExists
    <3>3. linesRead'[LastOne(TopLines(key))] = linesRead[LastOne(TopLines(key))]
      BY <1>2, <1>7, <3>2
    <3>4. QED
      BY <1>8, <1>9, <1>11, <2>1, <2>2, <3>3
  <2>3. CASE TopLines(key) = {}
    BY <1>8, <1>9, <1>11, <2>1, <2>3
  <2>4. QED
    BY <2>2, <2>3
<1>12. QED
  BY <1>10, <1>11

LEMMA KeepsTable ==
  ASSUME Read, NEW line \in Lines, Take(line),
         EnterBand(line) \/ EnterOther(line) \/ TopKey(line)
           \/ EdgeKey(line) \/ ScaleKey(line) \/ PassOver(line)
  PROVE  EachBandAsWritten'
<1> USE SettingsAssumption DEF Read, SettingsTypeOK
<1> DEFINE C == Cardinality(Complete)
<1>1. PICK n \in Nat : n = Len(linesRead) + 1
  BY Added
<1>2. /\ Complete' = Complete \union (IF Completes(n)' THEN {n} ELSE {})
      /\ C' = C + (IF Completes(n)' THEN 1 ELSE 0)
      /\ Completes(n)' => Number(n)' = C + 1
      /\ \A m \in Complete : m < n /\ Number(m)' = Number(m)
  BY <1>1, NewComplete
<1>3. C \in Nat
  BY CompleteFinite
<1>4. /\ \A i \in 0 .. MaxBands - 1 : i # count => bands'[i] = bands[i]
      /\ count' = IF /\ IsBandKey(line) /\ line.name = "scale"
                     /\ bands[count].f_start # 0 \/ bands[count].f_stop # 0
                  THEN count + 1 ELSE count
  BY LineDoes
<1>5. /\ count = IF C < MaxBands THEN C ELSE MaxBands
      /\ \A m \in Complete : Number(m) <= MaxBands => bands[Number(m) - 1] = Band(m)
  BY DEF EachBandAsWritten
<1>6. /\ section = "tx_band" <=> Within(n, "tx_band")
      /\ section = "tx_band" /\ HasRoom =>
           \A key \in {"f_start", "f_stop"} : bands[count][key] = Given(n, key)
  BY <1>1 DEF Reading
<1>7. Completes(n)' /\ HasRoom <=>
        /\ IsBandKey(line) /\ line.name = "scale"
        /\ bands[count].f_start # 0 \/ bands[count].f_stop # 0
  <2>1. Completes(n)' <=>
          /\ line.is = "key" /\ line.name = "scale" /\ Within(n, "tx_band")
          /\ Given(n, "f_start") # 0 \/ Given(n, "f_stop") # 0
    BY <1>1, NewBand
  <2>2. CASE HasRoom /\ section = "tx_band"
    <3>1. /\ bands[count].f_start = Given(n, "f_start")
          /\ bands[count].f_stop = Given(n, "f_stop")
      BY <1>6, <2>2
    <3>2. QED
      BY <1>6, <2>1, <2>2, <3>1 DEF IsBandKey
  <2>3. CASE ~(HasRoom /\ section = "tx_band")
    BY <1>6, <2>1, <2>3 DEF IsBandKey
  <2>4. QED
    BY <2>2, <2>3
<1> HIDE DEF C
<1>8. count' = IF C' < MaxBands THEN C' ELSE MaxBands
  BY <1>2, <1>3, <1>4, <1>5, <1>7 DEF HasRoom
<1>9. \A m \in Complete' : Number(m)' <= MaxBands => bands'[Number(m)' - 1] = Band(m)'
  <2> SUFFICES ASSUME NEW m \in Complete', Number(m)' <= MaxBands
               PROVE  bands'[Number(m)' - 1] = Band(m)'
    OBVIOUS
  <2>1. CASE m \in Complete
    <3>1. Number(m) \in 1 .. C /\ Number(m)' = Number(m) /\ Number(m) <= MaxBands
      BY <1>2, <2>1 DEF Numbered, C
    <3>2. Number(m) - 1 \in 0 .. MaxBands - 1 /\ Number(m) - 1 # count
      BY <3>1, <1>3, <1>5
    <3>3. m \in 1 .. Len(linesRead)
      BY <2>1 DEF Complete
    <3>4. Band(m)' = Band(m)
      BY <3>3, OldBand
    <3>5. QED
      BY <1>4, <1>5, <2>1, <3>1, <3>2, <3>4
  <2>2. CASE m = n /\ Completes(n)'
    <3>1. Number(n)' = C + 1 /\ C < MaxBands /\ count = C
      BY <1>2, <1>3, <1>5, <2>2
    <3>2. IsBandKey(line) /\ line.name = "scale"
      BY <1>7, <2>2, <3>1 DEF HasRoom
    <3>3. ScaleKey(line)
      BY <3>2
        DEF EnterBand, EnterOther, TopKey, EdgeKey, ScaleKey, PassOver, IsBandKey
    <3>4. count \in 0 .. MaxBands - 1
      BY <1>3, <3>1
    <3>5. bands'[count] = [bands[count] EXCEPT !.scale = line.value]
      BY <3>3, <3>4 DEF ScaleKey
    <3>6. bands[count] \in [f_start : Int, f_stop : Int, scale : Int]
      BY <3>4
    <3>7. /\ bands[count].f_start = Given(n, "f_start")
          /\ bands[count].f_stop = Given(n, "f_stop")
      BY <1>6, <3>2 DEF IsBandKey
    <3>8. bands'[count] = [f_start |-> Given(n, "f_start"),
                           f_stop |-> Given(n, "f_stop"), scale |-> line.value]
      BY <3>5, <3>6, <3>7
    <3>9. Band(n)' = [f_start |-> Given(n, "f_start"),
                      f_stop |-> Given(n, "f_stop"), scale |-> line.value]
      BY <1>1, NewBand
    <3>10. (C + 1) - 1 = count
      BY <1>3, <3>1
    <3>11. QED
      BY <2>2, <3>1, <3>8, <3>9, <3>10
  <2>3. QED
    BY <1>2, <2>1, <2>2
<1>10. TopAsSaid'
  BY KeepsTop
<1>11. QED
  BY <1>8, <1>9, <1>10 DEF EachBandAsWritten, TopAsSaid, C

LEMMA KeepsRead == Read /\ [LoadNext]_settingsVars => Read'
<1> SUFFICES ASSUME Read, [LoadNext]_settingsVars PROVE Read'
  OBVIOUS
<1>1. SettingsTypeOK'
  BY KeepsSettingsTypes DEF Read
<1>2. CASE UNCHANGED settingsVars
  <2>1. Complete' = Complete /\ \A m : Number(m)' = Number(m)
    BY <1>2 DEF settingsVars, Complete, Number, Completes, Band, Given, Giving, IsKey,
                Divides, Within
  <2>2. Numbered'
    BY <2>1 DEF Read, Numbered
  <2>3. Reading'
    <3>1. /\ section' = section /\ bands' = bands /\ count' = count
          /\ Len(linesRead)' = Len(linesRead)
      BY <1>2 DEF settingsVars
    <3>2. \A n : AtTop(n)' = AtTop(n)
      BY <1>2 DEF settingsVars, AtTop
    <3>3. \A n, name : Within(n, name)' = Within(n, name)
      BY <1>2 DEF settingsVars, Within
    <3>4. \A n, key : Given(n, key)' = Given(n, key)
      BY <1>2 DEF settingsVars, Given, Giving, IsKey, Divides
    <3>5. HasRoom' = HasRoom
      BY <3>1 DEF HasRoom
    <3>6. QED
      BY <3>1, <3>2, <3>3, <3>4, <3>5, Zenon DEF Read, Reading
  <2>4. EachBandAsWritten'
    <3>1. \A m : Band(m)' = Band(m)
      BY <1>2 DEF settingsVars, Band, Given, Giving, IsKey, Divides
    <3>2. \A key : TopLines(key)' = TopLines(key)
      BY <1>2 DEF settingsVars, TopLines, AtTop, IsKey
    <3>3. /\ count' = count /\ bands' = bands /\ measured' = measured /\ linesRead' = linesRead
      BY <1>2 DEF settingsVars
    <3>4. QED
      BY <2>1, <3>1, <3>2, <3>3, Zenon DEF Read, EachBandAsWritten
  <2>5. QED
    BY <1>1, <2>2, <2>3, <2>4 DEF Read
<1>3. ASSUME NEW line \in Lines, Take(line),
             EnterBand(line) \/ EnterOther(line) \/ TopKey(line)
               \/ EdgeKey(line) \/ ScaleKey(line) \/ PassOver(line)
      PROVE  Read'
  <2>1. Numbered'
    BY <1>3, KeepsNumbered DEF Read, SettingsTypeOK
  <2>2. Reading'
    BY <1>3, KeepsReading
  <2>3. EachBandAsWritten'
    BY <1>3, KeepsTable
  <2>4. QED
    BY <1>1, <2>1, <2>2, <2>3 DEF Read
<1>4. QED
  BY <1>2, <1>3 DEF LoadNext

(* The table that a file leaves is what the file says, whatever its        *)
(* sections and however complete they are, for a table of any size.        *)
THEOREM TableAsWritten == LoadSpec => []EachBandAsWritten
<1>1. Read => EachBandAsWritten
  BY DEF Read
<1>2. QED
  BY <1>1, StartsRead, KeepsRead, PTL DEF LoadSpec

THEOREM SettingsTypes == LoadSpec => []SettingsTypeOK
<1>1. Read => SettingsTypeOK
  BY DEF Read
<1>2. QED
  BY <1>1, StartsRead, KeepsRead, PTL DEF LoadSpec

(* The entries of the table and the bands that fit it are the same in the  *)
(* same order, so the first one that holds a frequency is the first.       *)
LEMMA FirstIsFirst == Read => ScaleOfTheFirst
<1> SUFFICES ASSUME Read, NEW freq \in Int
             PROVE  TxScale(freq) = IF WrittenFor(freq) = {} THEN DefaultScale
                                    ELSE linesRead[FirstOne(WrittenFor(freq))].value
  BY DEF ScaleOfTheFirst
<1> DEFINE C == Cardinality(Complete)
           H == Holding(freq)
           W == WrittenFor(freq)
<1> USE SettingsAssumption DEF Read, SettingsTypeOK
<1>1. C \in Nat
  BY CompleteFinite
<1>2. /\ count = IF C < MaxBands THEN C ELSE MaxBands
      /\ \A m \in Complete : Number(m) <= MaxBands => bands[Number(m) - 1] = Band(m)
  BY DEF EachBandAsWritten
<1>3. /\ \A m \in Complete : Number(m) \in 1 .. C
      /\ \A i \in 1 .. C : \E m \in Complete : Number(m) = i
      /\ \A l, m \in Complete : l < m => Number(l) < Number(m)
  BY DEF Numbered
<1>4. Complete \subseteq Nat
  BY DEF Complete
<1>5. H \subseteq Nat /\ W \subseteq Complete
  BY DEF Holding, WrittenFor
<1> HIDE DEF C
<1>6. \A m \in W : Number(m) - 1 \in H
  <2> SUFFICES ASSUME NEW m \in W PROVE Number(m) - 1 \in H
    OBVIOUS
  <2>1. m \in Complete /\ Number(m) <= MaxBands /\ Holds(Band(m), freq)
    BY DEF WrittenFor
  <2>2. Number(m) - 1 \in 0 .. count - 1 /\ bands[Number(m) - 1] = Band(m)
    BY <1>1, <1>2, <1>3, <2>1
  <2>3. QED
    BY <2>1, <2>2 DEF Holding
<1>7. \A i \in H : \E m \in W : Number(m) = i + 1
  <2> SUFFICES ASSUME NEW i \in H PROVE \E m \in W : Number(m) = i + 1
    OBVIOUS
  <2>1. i \in 0 .. count - 1 /\ Holds(bands[i], freq)
    BY DEF Holding
  <2>2. PICK m \in Complete : Number(m) = i + 1
    BY <1>1, <1>2, <1>3, <2>1
  <2>3. Number(m) <= MaxBands /\ (i + 1) - 1 = i
    BY <1>1, <1>2, <2>1, <2>2
  <2>4. Holds(Band(m), freq)
    BY <1>2, <2>1, <2>2, <2>3
  <2>5. QED
    BY <2>2, <2>3, <2>4 DEF WrittenFor
<1> HIDE DEF H, W
<1>8. CASE H = {}
  <2>1. W = {}
    BY <1>6, <1>8
  <2>2. QED
    BY <1>8, <2>1 DEF TxScale, H, W
<1>9. CASE H # {}
  <2>1. FirstOne(H) \in H /\ \A i \in H : FirstOne(H) <= i
    BY <1>5, <1>9, LeastExists
  <2>2. W # {} /\ W \subseteq Nat
    BY <1>4, <1>5, <1>7, <1>9
  <2>3. FirstOne(W) \in W /\ \A m \in W : FirstOne(W) <= m
    BY <2>2, LeastExists
  <2>4. PICK m \in W : Number(m) = FirstOne(H) + 1
    BY <1>7, <2>1
  <2>5. Number(FirstOne(W)) - 1 \in H
    BY <1>6, <2>3
  <2>6. /\ m \in Complete /\ FirstOne(W) \in Complete
        /\ m \in Nat /\ FirstOne(W) \in Nat /\ FirstOne(H) \in Nat
    BY <1>4, <1>5, <2>1, <2>3, <2>4
  <2>7. FirstOne(W) = m
    <3>1. FirstOne(W) < m => Number(FirstOne(W)) < Number(m)
      BY <1>3, <2>6
    <3>2. FirstOne(H) <= Number(FirstOne(W)) - 1 /\ FirstOne(W) <= m
      BY <2>1, <2>3, <2>5
    <3>3. Number(FirstOne(W)) \in Nat
      BY <1>1, <1>3, <2>6
    <3>4. QED
      BY <2>4, <2>6, <3>1, <3>2, <3>3
  <2>8. bands[FirstOne(H)] = Band(m)
    <3>1. Number(m) <= MaxBands /\ Number(m) - 1 = FirstOne(H)
      BY <2>4, <2>6 DEF WrittenFor, W
    <3>2. QED
      BY <1>2, <2>6, <3>1
  <2>9. QED
    BY <1>9, <2>2, <2>7, <2>8 DEF TxScale, H, W, Band
<1>10. QED
  BY <1>8, <1>9

(* The drive of a frequency is the scale that the file gives first for it. *)
THEOREM DriveAsWritten == LoadSpec => []ScaleOfTheFirst
BY FirstIsFirst, StartsRead, KeepsRead, PTL DEF LoadSpec

=============================================================================
