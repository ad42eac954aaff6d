------------------------------ MODULE Exchange ------------------------------
(***************************************************************************)
(* What erase.py promises to the rest of the application: one answer, and  *)
(* the card as the answer says, then and later.  Only an answer that       *)
(* leaves the card open may be followed by the work.                       *)
(***************************************************************************)
EXTENDS EraseOutcomes

VARIABLES
  answer,  \* what erase() came back with, or "none" yet
  empty    \* the card has been wiped

Init == answer = "none" /\ empty = FALSE

Work ==
  /\ answer \in {"none"} \cup (MayWipe \cap MaySpare)
  /\ empty' = TRUE
  /\ UNCHANGED answer

Answer ==
  /\ answer = "none"
  /\ answer' \in (IF empty THEN MayWipe ELSE MaySpare)
  /\ UNCHANGED empty

Next == Work \/ Answer
Spec == Init /\ [][Next]_<<answer, empty>>
=============================================================================
