------------------------------- MODULE Fleet -------------------------------
(* What every module speaks of: the cards, by volume serial, and the takes. *)

CONSTANTS
  Serial,    \* volume serials: one per transmitter, and per card
  Take       \* every recording that may ever be made
=============================================================================
