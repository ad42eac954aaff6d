------------------------------ MODULE Verdicts ------------------------------
(* What the import tells the erase: one verdict per card, kept by the window *)
(* until the next import.  A take stands for its name, size and closing      *)
(* time, the fingerprint inventory_of compares.                              *)
EXTENDS Archive, Transmitters

CONSTANTS
  NoVerdict, \* no import has concluded about this card
  NoSerial   \* no card in hand

VARIABLE verdicts   \* ImportSnapshot.verdicts

Verdict == [inventory : SUBSET Take, digests : SUBSET Audio, complete : BOOLEAN]

ASSUME VerdictsAssumption == NoVerdict \notin Verdict /\ NoSerial \notin Serial

NoVerdicts == [s \in Serial |-> NoVerdict]
VerdictsTypeOK == verdicts \in [Serial -> Verdict \cup {NoVerdict}]

\* Card s has a verdict that says every one of its takes is held.
Complete(s) == verdicts[s] # NoVerdict /\ verdicts[s].complete

\* What the safety of an erase rests on.  A take belongs to one card for ever,
\* and no other card ever holds a take some verdict lists.
TakesStayApart ==
  /\ \A s \in Serial : OnCard(s) \subseteq born
  /\ \A s, x \in Serial : s # x => OnCard(s) \cap OnCard(x) = {}
  /\ \A s \in Serial : verdicts[s] # NoVerdict =>
       /\ verdicts[s].inventory \subseteq born
       /\ \A x \in Serial \ {s} : verdicts[s].inventory \cap OnCard(x) = {}

\* A verdict that permits an erase has the digest of every take it lists, or
\* the card is not what it lists and never will be again: it was read while
\* the card changed places, or the card was wiped since.
VerdictsAccount ==
  \A s \in Serial : Complete(s) /\ verdicts[s].digests # {} =>
    /\ verdicts[s].inventory # {}
    /\ \/ verdicts[s].digests = {AudioOf[t] : t \in verdicts[s].inventory}
       \/ OnCard(s) # verdicts[s].inventory
=============================================================================
