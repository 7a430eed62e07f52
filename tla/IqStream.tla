------------------------------ MODULE IqStream ------------------------------
(***************************************************************************)
(* The telemetry stream of src/src/interfaces/iq_stream.c: any datagram    *)
(* subscribes its sender, who must repeat it within SUBSCRIBER_TIMEOUT_SEC *)
(* to stay in a small table.  Three threads meet at subscribers_lock: the  *)
(* listener writes the table, the pacer sends each packet to all of it and *)
(* removes who has timed out, and the audio thread looks whether there is  *)
(* anybody to queue samples for.                                           *)
(*                                                                         *)
(* A thread that needs the lock waits, holds it while it does all of its   *)
(* work on the table (one step, as nobody else may look), and lets go.     *)
(* The ring in between is that of IqRing, whose promise is that of         *)
(* IqQueue: here it is the number of whole packets queued.  Time passes    *)
(* second by second; only ages up to the time-out and one more matter.     *)
(***************************************************************************)

EXTENDS Naturals, FiniteSets

CONSTANTS
  Stations,     \* the address and port pairs that datagrams come from
  Nobody,       \* what an unused entry holds
  MaxSubscribers,
  Timeout,      \* SUBSCRIBER_TIMEOUT_SEC
  Bound,        \* the packets that fit into the ring
  PerBlock      \* the packets that one audio block makes

ASSUME StreamAssumption ==
  /\ IsFiniteSet(Stations)
  /\ Nobody \notin Stations
  /\ MaxSubscribers \in Nat \ {0}
  /\ Timeout \in Nat
  /\ Bound \in Nat \ {0}
  /\ PerBlock \in Nat \ {0}

VARIABLES
  table,        \* per entry: subscribers[i].addr, Nobody if not in_use
  age,          \* per entry: seconds since last_seen, up to Timeout + 1;
                \* 0 for an unused entry, whose last_seen nobody compares
  owner,        \* who holds subscribers_lock, or "free"
  listener,     \* "idle", "wait", "hold"
  sender,       \* who sent the datagram the listener is working on
  pacer,        \* "idle", "wait", "hold"
  audio,        \* "idle", "wait", "hold", "push"
  anyActive,    \* any_active of iq_stream_send(), kept from call to call
  queued,       \* whole packets in the ring
  \* Histories.
  heard,        \* per station: seconds since a datagram of it was taken
  reached,      \* whom the packet being sent has gone to
  skipped,      \* blocks kept from the ring since somebody is in the table,
                \* counted up to 2; 0 while nobody is
  wasted        \* blocks put into it since nobody is, likewise

tables     == <<table, age, heard>>
listening  == <<listener, sender>>
pacing     == <<pacer, reached>>
hearing    == <<audio, anyActive, skipped, wasted>>
streamVars == <<tables, owner, listening, pacing, hearing, queued>>

Entries  == 1 .. MaxSubscribers
TooOld   == Timeout + 1
InUse    == {i \in Entries : table[i] # Nobody}
Older(n) == IF n < TooOld THEN n + 1 ELSE TooOld
UpTo2(n) == IF n < 2 THEN n + 1 ELSE 2

StreamInit ==
  /\ table = [i \in Entries |-> Nobody]
  /\ age = [i \in Entries |-> 0]
  /\ owner = "free"
  /\ listener = "idle"
  /\ sender = Nobody
  /\ pacer = "idle"
  /\ audio = "idle"
  /\ anyActive = FALSE
  /\ queued = 0
  /\ heard = [s \in Stations |-> TooOld]
  /\ reached = {}
  /\ skipped = 0
  /\ wasted = 0

Second ==
  /\ age' = [i \in Entries |-> IF i \in InUse THEN Older(age[i]) ELSE 0]
  /\ heard' = [s \in Stations |-> Older(heard[s])]
  /\ UNCHANGED <<table, owner, listening, pacing, hearing, queued>>

-----------------------------------------------------------------------------
(* iq_stream_listener_thread() and subscriber_touch()                      *)

Hear(s) ==
  /\ listener = "idle"
  /\ listener' = "wait"
  /\ sender' = s
  /\ UNCHANGED <<tables, owner, pacing, hearing, queued>>

(* The oldest of the entries, the first one of equals.  Entries older than *)
(* the time-out are told apart no further here; any of them may be meant.  *)
Stalest ==
  {i \in Entries : \A j \in Entries :
     \/ age[i] > age[j]
     \/ age[i] = age[j] /\ (i <= j \/ age[i] = TooOld)}

(* The first one in a set of entries.                                      *)
FirstOf(S) == {i \in S : \A j \in S : i <= j}

FirstFree == FirstOf(Entries \ InUse)

(* Mutant: the search ends at the first free entry.                        *)
EntriesTaken(s) ==
  IF InUse # Entries THEN FirstFree
  ELSE LET own == {i \in Entries : table[i] = s}
       IN  IF own # {} THEN own ELSE Stalest

(* Where sender goes: its own entry, else the first free one, else the     *)
(* stalest.                                                                *)
EntriesFor(s) ==
  LET own == {i \in Entries : table[i] = s}
  IN  IF own # {} THEN FirstOf(own) ELSE IF InUse # Entries THEN FirstFree ELSE Stalest

Touch ==
  /\ listener = "wait"
  /\ owner = "free"
  /\ owner' = "listener"
  /\ listener' = "hold"
  /\ \E i \in EntriesFor(sender) :
       /\ table' = [table EXCEPT ![i] = sender]
       /\ age' = [age EXCEPT ![i] = 0]
  /\ heard' = [heard EXCEPT ![sender] = 0]
  /\ wasted' = 0
  /\ UNCHANGED <<sender, pacing, audio, anyActive, skipped, queued>>

EndTouchLocked ==               \* mutant: a return that forgets to unlock
  /\ listener = "hold"
  /\ listener' = "idle"
  /\ sender' = Nobody
  /\ UNCHANGED <<tables, owner, pacing, hearing, queued>>

EndTouch ==
  /\ listener = "hold"
  /\ owner' = "free"
  /\ listener' = "idle"
  /\ sender' = Nobody
  /\ UNCHANGED <<tables, pacing, hearing, queued>>

-----------------------------------------------------------------------------
(* iq_stream_pacer_thread() and build_and_send_packet()                    *)

TakePacket ==
  /\ pacer = "idle"
  /\ queued > 0
  /\ queued' = queued - 1
  /\ pacer' = "wait"
  /\ UNCHANGED <<tables, owner, listening, reached, hearing>>

ExpiredNever == {}              \* mutant: nobody times out

Expired == {i \in InUse : age[i] > Timeout}

(* Entries that have timed out are freed, the others get the packet.       *)
SendToAll ==
  /\ pacer = "wait"
  /\ owner = "free"
  /\ owner' = "pacer"
  /\ pacer' = "hold"
  /\ reached' = {table[i] : i \in InUse \ Expired}
  /\ table' = [i \in Entries |-> IF i \in Expired THEN Nobody ELSE table[i]]
  /\ age' = [i \in Entries |-> IF i \in Expired THEN 0 ELSE age[i]]
  /\ skipped' = IF InUse = Expired THEN 0 ELSE skipped
  /\ UNCHANGED <<heard, listening, audio, anyActive, wasted, queued>>

EndSend ==
  /\ pacer = "hold"
  /\ owner' = "free"
  /\ pacer' = "idle"
  /\ reached' = {}
  /\ UNCHANGED <<tables, listening, hearing, queued>>

-----------------------------------------------------------------------------
(* iq_stream_send(), on the audio thread                                   *)

Block ==
  /\ audio = "idle"
  /\ audio' = "wait"
  /\ UNCHANGED <<tables, owner, listening, pacing, anyActive, skipped, wasted, queued>>

LookAndRemember ==              \* mutant: any_active is never cleared
  /\ audio = "wait"
  /\ owner = "free"
  /\ owner' = "audio"
  /\ audio' = "hold"
  /\ anyActive' = (anyActive \/ InUse # {})
  /\ UNCHANGED <<tables, listening, pacing, skipped, wasted, queued>>

LookForAny ==
  /\ audio = "wait"
  /\ owner = "free"
  /\ owner' = "audio"
  /\ audio' = "hold"
  /\ anyActive' = (InUse # {})
  /\ UNCHANGED <<tables, listening, pacing, skipped, wasted, queued>>

EndLook ==
  /\ audio = "hold"
  /\ owner' = "free"
  /\ audio' = "push"
  /\ UNCHANGED <<tables, listening, pacing, anyActive, skipped, wasted, queued>>

SkipBlock ==
  /\ audio = "push"
  /\ ~anyActive
  /\ audio' = "idle"
  /\ skipped' = IF InUse = {} THEN 0 ELSE UpTo2(skipped)
  /\ UNCHANGED <<tables, owner, listening, pacing, anyActive, wasted, queued>>

PushBlock ==
  /\ audio = "push"
  /\ anyActive
  /\ audio' = "idle"
  /\ queued' = IF queued + PerBlock < Bound THEN queued + PerBlock ELSE Bound
  /\ wasted' = IF InUse = {} THEN UpTo2(wasted) ELSE 0
  /\ UNCHANGED <<tables, owner, listening, pacing, anyActive, skipped>>

-----------------------------------------------------------------------------
ListenerStep == Touch \/ EndTouch
PacerStep    == TakePacket \/ SendToAll \/ EndSend
AudioStep    == Block \/ LookForAny \/ EndLook \/ SkipBlock \/ PushBlock

StreamNext ==
  \/ Second
  \/ \E s \in Stations : Hear(s)
  \/ ListenerStep
  \/ PacerStep
  \/ AudioStep

StreamSafe == StreamInit /\ [][StreamNext]_streamVars

(* The threads run.  The lock is held for microseconds and free for most   *)
(* of every millisecond, so who keeps coming for it gets it: the fairness  *)
(* is strong.  Nobody is assumed to send datagrams.                        *)
StreamFairness ==
  SF_streamVars(ListenerStep) /\ SF_streamVars(PacerStep) /\ SF_streamVars(AudioStep)

StreamSpec == StreamSafe /\ StreamFairness

-----------------------------------------------------------------------------
Ages == 0 .. TooOld

StreamTypeOK ==
  /\ table \in [Entries -> Stations \union {Nobody}]
  /\ age \in [Entries -> Ages]
  /\ owner \in {"free", "listener", "pacer", "audio"}
  /\ listener \in {"idle", "wait", "hold"}
  /\ sender \in Stations \union {Nobody}
  /\ pacer \in {"idle", "wait", "hold"}
  /\ audio \in {"idle", "wait", "hold", "push"}
  /\ anyActive \in BOOLEAN
  /\ queued \in 0 .. Bound
  /\ heard \in [Stations -> Ages]
  /\ reached \subseteq Stations
  /\ skipped \in 0 .. 2 /\ wasted \in 0 .. 2

(* So many others have been heard since that the table had no room.        *)
CrowdedOut(s) ==
  Cardinality({x \in Stations \ {s} : heard[x] <= heard[s]}) >= MaxSubscribers

(* A packet reaches everybody heard within the time-out, except those for  *)
(* whom the table had no room: no station is displaced by a newcomer while *)
(* a staler one is in the table.  And nobody gets it twice, in spite of    *)
(* entries freed in the middle of the table.                               *)
ReachesTheLive ==
  pacer = "hold" =>
    /\ \A s \in Stations \ reached : heard[s] > Timeout \/ CrowdedOut(s)
    /\ \A i, j \in InUse : table[i] = table[j] => i = j

(* And nobody else: whoever was silent for longer gets nothing.  (A second *)
(* may pass while the packet is being sent.)                               *)
SparesTheSilent ==
  [][pacer = "wait" /\ pacer' = "hold" =>
       \A s \in reached' : heard[s] <= Timeout]_streamVars

(* "A stale read here costs at most one audio block's worth of samples     *)
(* either dropped or queued for nothing" (iq_stream.c:152).                *)
StaleReadIsCheap == skipped <= 1 /\ wasted <= 1

(* Whoever stays in the table gets packets for ever.                       *)
KeepsSending ==
  \A s \in Stations :
    <>[](\E i \in InUse : table[i] = s) => []<>(s \in reached)

(* The subscriber list is touched "never by the real-time audio thread"    *)
(* (iq_stream.c:78), which therefore waits for no other thread.            *)
AudioNeverWaits == ~(audio = "wait" /\ owner # "free")

=============================================================================
