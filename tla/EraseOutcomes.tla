--------------------------- MODULE EraseOutcomes ---------------------------
(* How the exchange with a transmitter can end: the verdicts of erase.py, and *)
(* "raised" for the OSError it lets through.                                  *)

Outcome ==
  {"none", "complete", "reenumerated", "failed", "refused", "unknown", "raised"}

\* What each may mean for the card: the promise of the exchange (EraseHid) and
\* what erase_card may rely on (EraseCard).
MayWipe == {"complete", "reenumerated", "failed", "unknown", "raised"}
MaySpare == {"failed", "refused", "unknown", "raised"}
=============================================================================
