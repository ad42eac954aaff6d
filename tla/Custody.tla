------------------------------ MODULE Custody ------------------------------
(***************************************************************************)
(* What erasing promises to whoever recorded the takes: a card gives up a  *)
(* take only when an erase has counted it among the kept ones, or when it  *)
(* was waived, having changed since it was counted.  Files may be lost     *)
(* meanwhile, but not one that was counted without its take being waived.  *)
(***************************************************************************)
CONSTANT Take

VARIABLES
  carried,  \* the takes on the cards
  kept,     \* the takes whose bytes some file holds
  counted,  \* those the erase in progress found kept
  waived    \* those it does not answer for

custodyVars == <<carried, kept, counted, waived>>

Init == carried \subseteq Take /\ kept = {} /\ counted = {} /\ waived = {}

\* Recording and moving transmitters: nothing is given up.
Move ==
  /\ carried \subseteq carried' /\ waived \subseteq waived'
  /\ UNCHANGED <<kept, counted>>

\* Filing and renaming: nothing is lost.
Keep == kept \subseteq kept' /\ UNCHANGED <<carried, counted, waived>>

\* Losing files.
Lose ==
  /\ kept' \subseteq kept
  /\ waived \cup (counted \cap (kept \ kept')) \subseteq waived'
  /\ UNCHANGED <<carried, counted>>

Begin == counted = {} /\ waived' = {} /\ UNCHANGED <<carried, kept, counted>>

Count ==
  /\ counted \subseteq counted' /\ counted' \ counted \subseteq kept
  /\ UNCHANGED <<carried, kept, waived>>

\* The erase ends, with the command or without it.
Release ==
  /\ carried' \subseteq carried
  /\ carried \ carried' \subseteq counted \cup waived
  /\ counted' = {}
  /\ UNCHANGED <<kept, waived>>

Next == Move \/ Keep \/ Lose \/ Begin \/ Count \/ Release

Spec == Init /\ [][Next]_custodyVars

\* What follows from it: whatever was counted is kept, or waived.
CountedIsKept == counted \subseteq kept \cup waived
=============================================================================
