------------------------------ MODULE TxSwitch ------------------------------
(***************************************************************************)
(* What the transmit/receive switch of the radio promises to whoever keys  *)
(* it, with every relay, clock and mixer left out.                         *)
(*                                                                         *)
(* A client posts the state it wants (goal); requests overwrite each       *)
(* other, so a burst of them may be coalesced.  The switch takes the       *)
(* newest request and moves between "receive" and "transmit" only through  *)
(* "dead", in which the receiver is deaf and nothing is radiated.  It      *)
(* reaches a new state only because a client asked for that state, and it  *)
(* does not stay in "dead".                                                *)
(***************************************************************************)

VARIABLES
  goal,    \* TRUE: the newest request is to transmit
  fresh,   \* a request has been posted and not yet taken
  taken,   \* the request being carried out, or the last one that was
  mode     \* "receive", "dead" or "transmit"

switchVars == <<goal, fresh, taken, mode>>

Steady(on) == IF on THEN "transmit" ELSE "receive"

Init ==
  /\ goal = FALSE
  /\ fresh = FALSE
  /\ taken = FALSE
  /\ mode = "receive"

(* A client asks for a state; an earlier request not yet taken is lost.    *)
Request(on) ==
  /\ goal' = on
  /\ fresh' = TRUE
  /\ UNCHANGED <<taken, mode>>

(* The switch takes the newest request, once the previous one is done.     *)
Take ==
  /\ fresh
  /\ mode = Steady(taken)
  /\ taken' = goal
  /\ fresh' = FALSE
  /\ UNCHANGED <<goal, mode>>

(* The old state is left before anything of the new one is set up.         *)
Leave ==
  /\ mode = Steady(~taken)
  /\ mode' = "dead"
  /\ UNCHANGED <<goal, fresh, taken>>

Enter ==
  /\ mode = "dead"
  /\ mode' = Steady(taken)
  /\ UNCHANGED <<goal, fresh, taken>>

Next ==
  \/ \E on \in BOOLEAN : Request(on)
  \/ Take
  \/ Leave
  \/ Enter

Safe == Init /\ [][Next]_switchVars

Spec ==
  /\ Safe
  /\ WF_switchVars(Take)
  /\ WF_switchVars(Leave)
  /\ WF_switchVars(Enter)

=============================================================================
